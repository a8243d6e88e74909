------------------------------ MODULE MCSlaClock ------------------------------
(***************************************************************************)
(* SlaClock and Seed for TLC: a behaviour is the life of a Ticket, or the  *)
(* seeding of one.                                                         *)
(***************************************************************************)
EXTENDS Seed

(* The legal paths of up to three moves, none before the one before it. *)
Moves == [to : States, at : 0 .. Now]
Paths ==
  {path \in UNION {[1 .. n -> Moves] : n \in 0 .. 3} :
     \A k \in DOMAIN path :
       /\ Legal(IF k = 1 THEN "open" ELSE path[k - 1].to, path[k].to)
       /\ k > 1 => path[k - 1].at <= path[k].at}

Entries ==
  [by : {"contact", "agent", "ai"}, internal : {FALSE}, at : 0 .. Now] \cup
  [by : {"agent"}, internal : {TRUE}, at : 0 .. Now]

(* The other priority is a lower one: a breach its targets would not have  *)
(* made may be on its way to the row when the Ticket gets it.              *)
MCFirstResponse == [p \in Priorities |-> IF p = Normal THEN 0 ELSE 1]
MCResolution    == MCFirstResponse

MCPlans ==
  [path : Paths, thread : {<<>>, <<[by |-> "agent", internal |-> FALSE, at |-> 2]>>},
   priority : Priorities, assigned : {FALSE}] \cup
  [path : {<<>>, <<[to |-> "pending", at |-> 1]>>}, thread : Entries \X Entries,
   priority : Priorities, assigned : BOOLEAN]

Live == plan = <<>>

MCInit == Init /\ SeedInit

MCNext ==
  \/ Live /\ Next /\ UNCHANGED seed
  \/ SeedNext /\ UNCHANGED vars

(* The fairness of FairSpec. *)
MCSpec ==
  /\ MCInit /\ [][MCNext]_<<vars, seed>>
  /\ WF_<<vars, seed>>(Live /\ Tick /\ UNCHANGED seed)
  /\ \A s \in Sweeps :
       WF_<<vars, seed>>(Live /\ (Start(s) \/ Snapshot(s) \/ Update(s) \/ Announce(s)) /\ UNCHANGED seed)
==============================================================================
