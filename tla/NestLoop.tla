------------------------------ MODULE NestLoop ------------------------------
(***************************************************************************)
(* The nested-loop join node (executor/nodeNestloop.c): an iterator that   *)
(* keeps its place in two scans, in the matches of the current outer tuple *)
(* and in the rows a set-returning function still has to project, between  *)
(* one call of ExecNestLoop and the next.                                  *)
(*                                                                         *)
(* Tuples are numbers.  What the subplans, the quals and the projection    *)
(* answer is data, chosen once: plan.  The inner scan may depend on the    *)
(* outer tuple (nestParams).  A join that is a similarity join never gets  *)
(* here: ExecInitSimJoin ends in elog(ERROR).                              *)
(***************************************************************************)
EXTENDS Integers, Sequences, SequencesExt

CONSTANTS Outers,       \* number of outer tuples
          Inners,       \* inner tuples of an outer tuple that has any
          JoinTypes,    \* the join types to check
          MaxRescans    \* bound: calls of ExecReScanNestLoop

ASSUME NestLoopAssumption ==
    /\ {Outers, Inners, MaxRescans} \subseteq Nat
    /\ JoinTypes \subseteq {"INNER", "LEFT", "SEMI", "ANTI"}

NullTuple == 0          \* nl_NullInnerTupleSlot
Outer == 1 .. Outers
Inner == 1 .. Inners

VARIABLES plan,             \* join type, subplans, quals and target list
          nl_NeedNewOuter,
          nl_MatchedOuter,
          ps_TupFromTlist,  \* rows of the last join tuple may be left
          joined,           \* <<outer, inner>> tuple of the expression context
          projected,        \* rows projected from it so far
          opos,             \* outer tuples fetched: the current one is opos
          ipos,             \* inner tuples fetched since the last rescan
          pc,               \* "idle" between calls, "loop" inside ExecNestLoop
          ended,            \* ExecNestLoop has returned NULL
          rescans,          \* bounds ExecReScanNestLoop
          out               \* history: rows returned since the last rescan

vars == <<plan, nl_NeedNewOuter, nl_MatchedOuter, ps_TupFromTlist, joined,
          projected, opos, ipos, pc, ended, rescans, out>>

Pairs == Outer \X (Inner \cup {NullTuple})

\* The rows of the target list: one without a set-returning function, else
\* as many as the function returns for the outer tuple.
Plans ==
    [jointype : JoinTypes,
     inner : [Outer -> {<<>>, [i \in Inner |-> i]}],
     joinqual : SUBSET (Outer \X Inner),
     otherqual : SUBSET Pairs,
     returnsSet : BOOLEAN,
     rows : [Outer -> 0 .. 2]]

\* What the planner builds: without a set every tuple projects to one row, and
\* above a semijoin the inner columns are not visible.
Buildable(p) ==
    /\ ~p.returnsSet => \A o \in Outer : p.rows[o] = 1
    /\ p.jointype \in {"SEMI", "ANTI"} =>
          \A q, r \in Pairs : q[1] = r[1] => (q \in p.otherqual <=> r \in p.otherqual)

\* ExecInitNestLoop.
Init ==
    /\ plan \in {p \in Plans : Buildable(p)}
    /\ nl_NeedNewOuter = TRUE
    /\ nl_MatchedOuter = FALSE
    /\ ps_TupFromTlist = FALSE
    /\ joined = <<0, NullTuple>>
    /\ projected = 0
    /\ opos = 0
    /\ ipos = 0
    /\ pc = "idle"
    /\ ended = FALSE
    /\ rescans = 0
    /\ out = <<>>

InnerPlan == plan.inner[opos]

----------------------------------------------------------------------------
(* ExecProject and the entry of ExecNestLoop.                              *)

Return(row) ==
    /\ out' = Append(out, row)
    /\ pc' = "idle"

\* Project the first row of a new join tuple; an empty set gives no row and
\* the loop goes on.
Project(o, i) ==
    /\ joined' = <<o, i>>
    /\ IF plan.rows[o] > 0
       THEN /\ projected' = 1
            /\ ps_TupFromTlist' = plan.returnsSet
            /\ Return(<<o, i, 1>>)
       ELSE UNCHANGED <<projected, ps_TupFromTlist, pc, out>>

CallTop ==
    /\ pc = "idle"
    /\ ~ended

\* Still projecting out rows of the last join tuple.
CallProjects ==
    /\ CallTop
    /\ ps_TupFromTlist
    /\ projected < plan.rows[joined[1]]
    /\ projected' = projected + 1
    /\ Return(<<joined[1], joined[2], projected + 1>>)
    /\ UNCHANGED <<plan, nl_NeedNewOuter, nl_MatchedOuter, ps_TupFromTlist,
                   joined, opos, ipos, ended, rescans>>

CallJoins ==
    /\ CallTop
    /\ ps_TupFromTlist => projected = plan.rows[joined[1]]
    /\ ps_TupFromTlist' = FALSE
    /\ pc' = "loop"
    /\ UNCHANGED <<plan, nl_NeedNewOuter, nl_MatchedOuter, joined, projected,
                   opos, ipos, ended, rescans, out>>

----------------------------------------------------------------------------
(* The main loop.                                                          *)

\* Mutant: the inner plan goes on where it was.
InnerNotRescanned == ipos

\* ExecReScan of the inner plan, for every outer tuple.
InnerRescanned == 0

\* Mutant: the flag is kept from one outer tuple to the next.
StillMatched == nl_MatchedOuter

NotMatched == FALSE

NewOuter ==
    /\ pc = "loop"
    /\ nl_NeedNewOuter
    /\ opos < Outers
    /\ opos' = opos + 1
    /\ nl_NeedNewOuter' = FALSE
    /\ nl_MatchedOuter' = NotMatched
    /\ ipos' = InnerRescanned
    /\ UNCHANGED <<plan, ps_TupFromTlist, joined, projected, pc, ended, rescans, out>>

NoMoreOuter ==
    /\ pc = "loop"
    /\ nl_NeedNewOuter
    /\ opos = Outers
    /\ ended' = TRUE
    /\ pc' = "idle"
    /\ UNCHANGED <<plan, nl_NeedNewOuter, nl_MatchedOuter, ps_TupFromTlist, joined,
                   projected, opos, ipos, rescans, out>>

\* Mutant: an antijoin returns nothing here.
NullExtendsLeftOnly == plan.jointype = "LEFT"

\* The join types that return an outer tuple without a match, with nulls.
NullExtends == plan.jointype \in {"LEFT", "ANTI"}

\* Mutant: no new outer tuple is asked for when the inner scan ends.
OuterKept == FALSE

OuterDone == TRUE

NoMoreInner ==
    /\ pc = "loop"
    /\ ~nl_NeedNewOuter
    /\ ipos = Len(InnerPlan)
    /\ nl_NeedNewOuter' = OuterDone
    /\ IF ~nl_MatchedOuter /\ NullExtends /\ <<opos, NullTuple>> \in plan.otherqual
       THEN Project(opos, NullTuple)
       ELSE UNCHANGED <<joined, projected, ps_TupFromTlist, pc, out>>
    /\ UNCHANGED <<plan, nl_MatchedOuter, opos, ipos, ended, rescans>>

\* A pair that fails the join quals.
NoMatch ==
    /\ pc = "loop"
    /\ ~nl_NeedNewOuter
    /\ ipos < Len(InnerPlan)
    /\ ipos' = ipos + 1
    /\ <<opos, InnerPlan[ipos + 1]>> \notin plan.joinqual
    /\ UNCHANGED <<plan, nl_NeedNewOuter, nl_MatchedOuter, ps_TupFromTlist, joined,
                   projected, opos, pc, ended, rescans, out>>

\* A pair that satisfies them: an antijoin is done with the outer tuple, a
\* semijoin too, after this pair; the other quals decide what is returned.
Match ==
    /\ pc = "loop"
    /\ ~nl_NeedNewOuter
    /\ ipos < Len(InnerPlan)
    /\ ipos' = ipos + 1
    /\ LET i == InnerPlan[ipos + 1]
       IN /\ <<opos, i>> \in plan.joinqual
          /\ IF plan.jointype # "ANTI" /\ <<opos, i>> \in plan.otherqual
             THEN Project(opos, i)
             ELSE UNCHANGED <<joined, projected, ps_TupFromTlist, pc, out>>
    /\ nl_MatchedOuter' = TRUE
    /\ nl_NeedNewOuter' = (plan.jointype \in {"SEMI", "ANTI"})
    /\ UNCHANGED <<plan, opos, ended, rescans>>

----------------------------------------------------------------------------

\* Mutant: a rescan leaves rows of the old join tuple to be projected.
TlistKept == ps_TupFromTlist

TlistDone == FALSE

\* The outer plan is rescanned here, or by its next ExecProcNode when its own
\* parameters changed; the inner plan only when the next outer tuple is fetched.
ExecReScanNestLoop ==
    /\ pc = "idle"
    /\ rescans < MaxRescans
    /\ rescans' = rescans + 1
    /\ opos' = 0
    /\ ps_TupFromTlist' = TlistDone
    /\ nl_NeedNewOuter' = TRUE
    /\ nl_MatchedOuter' = FALSE
    /\ ended' = FALSE
    /\ out' = <<>>
    /\ UNCHANGED <<plan, joined, projected, ipos, pc>>

ExecNestLoop ==
    \/ CallProjects
    \/ CallJoins
    \/ NewOuter
    \/ NoMoreOuter
    \/ NoMoreInner
    \/ NoMatch
    \/ Match

Next == ExecNestLoop \/ ExecReScanNestLoop

Spec == Init /\ [][Next]_vars

\* The executor calls the node until it returns NULL.
FairSpec == Spec /\ WF_vars(ExecNestLoop)

----------------------------------------------------------------------------
(* The join by its definition.                                             *)

\* The inner positions that match outer tuple o.
JoinMatches(o) ==
    {k \in DOMAIN plan.inner[o] : <<o, plan.inner[o][k]>> \in plan.joinqual}

Rows(o, i) == IF <<o, i>> \in plan.otherqual
              THEN [k \in 1 .. plan.rows[o] |-> <<o, i, k>>]
              ELSE <<>>

\* The rows of every inner tuple, joined to outer tuple o.
MatchedRows(o) ==
    [k \in DOMAIN plan.inner[o] |->
        IF k \in JoinMatches(o) THEN Rows(o, plan.inner[o][k]) ELSE <<>>]

\* What outer tuple o contributes.
RowsOf(o) ==
    LET unmatched == JoinMatches(o) = {}
        matched == FlattenSeq(MatchedRows(o))
    IN CASE plan.jointype = "INNER" -> matched
         [] plan.jointype = "LEFT" -> IF unmatched THEN Rows(o, NullTuple) ELSE matched
         [] plan.jointype = "SEMI" ->
              IF unmatched THEN <<>> ELSE Rows(o, plan.inner[o][Min(JoinMatches(o))])
         [] plan.jointype = "ANTI" -> IF unmatched THEN Rows(o, NullTuple) ELSE <<>>

JoinResult == FlattenSeq([o \in Outer |-> RowsOf(o)])

----------------------------------------------------------------------------
(* Properties.                                                             *)

\* The scans stay inside their subplans: in particular no inner position is
\* carried over from one outer tuple to the next (the rescan of line 175).
TypeOK ==
    /\ nl_NeedNewOuter \in BOOLEAN /\ nl_MatchedOuter \in BOOLEAN
    /\ ps_TupFromTlist \in BOOLEAN
    /\ joined \in {<<0, NullTuple>>} \cup Pairs
    /\ projected \in 0 .. 2
    /\ opos \in 0 .. Outers
    /\ pc \in {"idle", "loop"}
    /\ ~nl_NeedNewOuter => opos > 0 /\ ipos \in 0 .. Len(InnerPlan)

\* Whatever the caller interleaves (calls, and rescans between two rows of one
\* join tuple or two matches of one outer tuple), the rows returned since the
\* last rescan are those of the join, in its order, each once, and all of them
\* when ExecNestLoop returns NULL (lines 60-279, 491-511).
ResultIsJoin ==
    /\ TypeOK
    /\ IsPrefix(out, JoinResult)
    /\ ended => out = JoinResult

\* The executor gets to the end of the join: no state of the two flags keeps
\* the loop going round, and no call returns for ever.
JoinEnds == <>[]ended

=============================================================================
