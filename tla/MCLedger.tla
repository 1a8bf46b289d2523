------------------------------ MODULE MCLedger ------------------------------
(* Instances of RuntimeLedger for TLC. *)
EXTENDS RuntimeLedger, TLC
CONSTANTS btc, eth, cycleLoop, entryA, entryB, quoteLoop, protectionLoop, key1
OneSymbol == {btc}
TwoSymbols == {btc, eth}
NoRun == {}
FirstRun == {1}
NoLane == {}
CycleLoop == {cycleLoop}
EntryLoop == {entryA}
EntryLoops == {entryA, entryB}
PositionLoops == {quoteLoop, protectionLoop}
OneKey == {key1}
Interchangeable == Permutations(TwoSymbols) \cup Permutations(EntryLoops)
                     \cup Permutations(PositionLoops)
=============================================================================
