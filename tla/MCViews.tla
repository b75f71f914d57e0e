------------------------------ MODULE MCViews ------------------------------
(* What the views read of the rings, in three parts that share no variable; *)
(* a run explores one of them, chosen at the start.                         *)
(*                                                                          *)
(* history: GrHistory, one side at a time.  A load may be as stale as the   *)
(* orderings allow, so what a reader could load while the writing side runs *)
(* it can still load when that side has stopped: it is enough to let the    *)
(* ring be written first, then the ticks run, then the frames be painted.   *)
(* A reading changes nothing but what it returns: a behaviour ends with it. *)
(*                                                                          *)
(* scroll: GrScroll.                                                        *)
(*                                                                          *)
(* scope: ScopeView, with rings of two frames, analyses of one, and a       *)
(* prepare that changes the rate and the block, or neither.                 *)
EXTENDS GrHistory, GrScroll, ScopeView

CONSTANT Parts,     \* which of the three to explore
         MaxCalls   \* bound: handlers that run

VARIABLES part,     \* what is explored
          stage,    \* which side has its turn
          calls     \* how many handlers ran

MCOpened   == [rate |-> 1, block |-> 1]
MCPrepared == {MCOpened, [rate |-> 2, block |-> 2]}

historyVars == <<vars, stage, calls>>

MCBlock  == [p \in {"a", "b"} |-> IF p = "a" THEN 1 ELSE 2]
MCWanted == [p \in ({"a", "b", Unprepared} \X {"a", "b", Unprepared}) |->
               IF "a" \in {p[1], p[2]} THEN 3 ELSE 2]

ViewsInit ==
    /\ part \in Parts
    /\ Init /\ stage = "writing" /\ calls = 0
    /\ ScrollInit /\ ScopeInit
    /\ part # "scroll" => want = Min(Windows) /\ cols = Min(Widths)

HistoryNext ==
    /\ calls < MaxCalls
    /\ calls' = calls + 1
    /\ \/ /\ stage = "writing" /\ UNCHANGED stage
          /\ (\E p \in Pairs : Prepare(p)) \/ (\E n \in Deliveries : Process(n))
       \/ /\ stage = "writing" /\ stage' = "read"
          /\ TakeReading
       \/ /\ stage \in {"writing", "ticking"} /\ stage' = "ticking"
          /\ \E d \in 0..2 : Tick(d)
       \/ /\ stage # "read" /\ stage' = "painting"
          /\ PaintHistory

ViewsNext ==
    /\ UNCHANGED part
    /\ IF part = "history" THEN HistoryNext ELSE UNCHANGED historyVars
    /\ IF part = "scroll" THEN ScrollNext ELSE UNCHANGED scrollVars
    /\ IF part = "scope" THEN ScopeNext ELSE UNCHANGED scopeVars

ViewsSpec ==
    ViewsInit /\ [][ViewsNext]_<<historyVars, part, scrollVars, scopeVars>>
=============================================================================
