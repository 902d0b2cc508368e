----------------------------- MODULE MCSession -----------------------------
(* Loads for the run of Session.  Forwarding 1 is healthy, the destination *)
(* of forwarding 2 does as it likes.                                       *)
EXTENDS Session

Load(kinds2, ups, downs, quitters, faults) ==
  [kinds |-> (1 :> {"direct"}) @@ (2 :> kinds2),
   up |-> ups, down |-> downs, quitters |-> quitters, faults |-> faults]

\* Streams longer than the window beside a victim that fills its own and
\* whose destination may never read.
Stall == Load({"direct"}, <<0, 2>>, <<2, 0>>, {}, {})

\* A destination that refuses, answers late or breaks.
Faulty == Load({"direct"}, <<0, 1>>, <<1, 0>>, {}, {"refuse", "late", "break"})

\* Channels of every type.
Types == Load({"session", "other"}, <<1, 0>>, <<1, 0>>, {}, {})

\* A channel closed by the client at any point.
Quit == Load({"direct"}, <<0, 1>>, <<0, 0>>, {2}, {})

\* The client's connection is lost at any point.
Lost == [Load({"direct"}, <<0, 2>>, <<0, 2>>, {}, {"hangup"})
           EXCEPT !.kinds[1] = {}]

AllLoads == {Stall, Faulty, Types, Quit, Lost}
=============================================================================
