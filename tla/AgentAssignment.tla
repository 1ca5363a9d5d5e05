-------------------------- MODULE AgentAssignment --------------------------
(***************************************************************************)
(* Placement of an agent: the value the Hub hands out, the lease that      *)
(* bounds it, and the continuity rules every renewal applies before a new  *)
(* placement replaces a durable one.                                       *)
(*                                                                         *)
(*   src/qurl/agent_assignment.go      AgentAssignment, LeaseExpired       *)
(*   src/qurl/native_agent_runtime.go  ensure...AssignmentContinuity       *)
(*                                                                         *)
(* Times are naturals.  Host, port and server key of the UDP endpoint are  *)
(* one opaque value, "endpoint": no rule looks inside it.                  *)
(***************************************************************************)
EXTENDS Naturals

\* The fields of AgentAssignment the lifecycle compares.
AssignmentSet(cells, gens, revs, endpoints, times) ==
  [cell : cells, gen : gens, rev : revs, endpoint : endpoints, lease : times]

\* A lease is live only strictly before its expiry instant.
LeaseExpired(a, t) == a.lease <= t

\* A fresh placement names another cell or another generation.
Reassigned(prev, cur) == prev.cell # cur.cell \/ prev.gen # cur.gen

\* ensureAssignmentContinuity: same cell and generation, the revision does
\* not go back, and the endpoint only changes together with the revision.
EnsureAssignmentContinuity(prev, cur) ==
  /\ ~Reassigned(prev, cur)
  /\ cur.rev >= prev.rev
  /\ cur.rev = prev.rev => cur.endpoint = prev.endpoint

\* ensureRefreshAssignmentContinuity: a move is adopted unless the caller
\* pinned its assignment, and only when the generation strictly advances.
EnsureRefreshAssignmentContinuity(prev, cur, adopt) ==
  IF adopt /\ Reassigned(prev, cur)
  THEN cur.gen > prev.gen
  ELSE EnsureAssignmentContinuity(prev, cur)

\* The order in which an authority publishes placements.
NotOlder(prev, cur) ==
  cur.gen > prev.gen \/ (cur.gen = prev.gen /\ cur.cell = prev.cell /\ cur.rev >= prev.rev)

=============================================================================
