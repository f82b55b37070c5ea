----------------------------- MODULE MCReadings -----------------------------
(***************************************************************************)
(* The tools that put an answer together from several readings: the memory *)
(* figures of MemInfo, or the two stamps of Stopwatch.  A behaviour is one *)
(* program; the variables of the other module stay as they are.            *)
(***************************************************************************)
EXTENDS MemInfo, Stopwatch

memOnly == <<free, samples, step, info, released, changed>>
watchOnly == <<clock, argc, typed, request, before, after, shown, passed>>

NoMem ==
  /\ free = [chip |-> {}, fast |-> {}] /\ samples = 0 /\ step = 0
  /\ info = [f \in Figures |-> 0] /\ released = FALSE /\ changed = FALSE

NoWatch ==
  /\ clock = [days |-> 0, minute |-> 0, tick |-> 0] /\ before = clock /\ after = clock
  /\ argc = 1 /\ typed = <<>> /\ request = 1 /\ shown = <<>> /\ passed = 0

Init == (MemInit /\ NoWatch) \/ (WatchInit /\ NoMem)

Next ==
  \/ tool \in Tools /\ MemNext /\ UNCHANGED watchOnly
  \/ tool \notin Tools /\ WatchNext /\ UNCHANGED memOnly

Spec == Init /\ [][Next]_<<memVars, watchVars>>
=============================================================================
