------------------------ MODULE MoneyTrailReference -------------------------
(***************************************************************************)
(* What the functions of MoneyTrail promise, against definitions that do   *)
(* not depend on the order in which anything is searched, and the traces   *)
(* one can ask for, whatever the repository lists.                         *)
(***************************************************************************)
EXTENDS MoneyTrail

CONSTANTS
  Repositories,  \* what list_outgoing answers, of one repository or another
  Origin,        \* the account the lead names
  MaxDepth

ASSUME TracesAssumption ==
  /\ Repositories \subseteq Listings
  /\ Origin \in Accounts
  /\ MaxDepth \in Nat

VARIABLES
  listing,  \* the repository's answers
  limit,    \* max_depth of the trace, 0 before one is asked for
  traced,   \* the transfers it returned
  kept      \* the digest of them, by an investigator that knows no root yet

TraceInit ==
  /\ listing \in Repositories
  /\ limit = 0
  /\ traced = << >>
  /\ kept = None

(* A trace is asked for, once. *)
AskForTrace ==
  /\ limit = 0
  /\ limit' \in 1..MaxDepth
  /\ traced' = TraceOutgoing(listing, Origin, limit')
  /\ kept' = ReduceTrace(listing, Origin, limit', None)
  /\ UNCHANGED listing

Answered == limit > 0 /\ UNCHANGED <<listing, limit, traced, kept>>

TraceNext == AskForTrace \/ Answered

TraceSpec == TraceInit /\ [][TraceNext]_<<listing, limit, traced, kept>>

-----------------------------------------------------------------------------
(* The transfers that leave some accounts. *)
Leaving(outgoing, A) == UNION {Range(outgoing[a]) : a \in A}

(* The accounts money can reach from an account in so many transfers. *)
Within(outgoing, account, hops) ==
  LET reach[n \in 0..hops] ==
        IF n = 0 THEN {account}
        ELSE reach[n - 1] \cup {ToAccount[t] : t \in Leaving(outgoing, reach[n - 1])}
  IN reach[hops]

(* The transfers of every account in reach, each once, nearest first. *)
BoundedReach(outgoing, account, depth, found) ==
  /\ Range(found) = Leaving(outgoing, Within(outgoing, account, depth - 1))
  /\ IsInjective(found)
  /\ \A hops \in 0..depth - 1 :
       LET near == Within(outgoing, account, hops)
       IN \A i, j \in DOMAIN found :
            i < j /\ FromAccount[found[j]] \in near => FromAccount[found[i]] \in near

(* The walks of so many distinct transfers that leave an account, each
   transfer starting where the one before it ended. *)
Walks(txs, start, length) ==
  LET end(w) == IF w = << >> THEN start ELSE ToAccount[Last(w)]
      walks[n \in 0..length] ==
        IF n = 0 THEN {<< >>}
        ELSE UNION {{Append(w, t) : t \in {u \in Range(txs) \ Range(w) : FromAccount[u] = end(w)}} :
                    w \in walks[n - 1]}
  IN walks[length]

(* The round trips of two to five transfers. *)
RoundTrips(txs, start) == {w \in UNION {Walks(txs, start, n) : n \in 2..5} : ToAccount[Last(w)] = start}

FindsRoundTrip(txs, start) ==
  LET cycle == SelectCyclePath(txs, start)
      trips == RoundTrips(txs, start)
  IN IF trips = {} THEN cycle = << >> ELSE cycle \in trips

(* The digest of a trace: a root among what was found, evidence within it,
   and, for a round trip none of whose transfers pays anything, the leg that
   brings the money back to where the root left. *)
KeepsRoundTrip(found, account, digest) ==
  found # << >> =>
    /\ digest.root \in Range(found)
    /\ Range(digest.focus) \subseteq Range(found)
    /\ SelectCyclePath(found, account) # << >> /\ (\A t \in Range(found) : PaymentOf[t] = None)
       => /\ FromAccount[digest.root] = account
          /\ digest.returned \in Range(found) \ {digest.root}
          /\ ToAccount[digest.returned] = account

-----------------------------------------------------------------------------
(* trace_outgoing_funds returns the transfers of every account that can be
   reached in fewer than max_depth hops, each once, nearest first, whatever
   cycles the money runs in. *)
TraceIsBoundedReach == limit > 0 => BoundedReach(listing, Origin, limit, traced)

(* _select_cycle_path returns a walk of two to five transfers that comes
   back to where it started, and finds one whenever there is one: the
   cut-off and the order of the search never hide the only round trip. *)
CycleIsFoundIfAny == FindsRoundTrip(traced, Origin)

(* What _update_context_from_tool keeps of a trace is of that trace, and an
   unpaid round trip keeps the leg that brings the money back. *)
DigestTracesTheRoundTrip == limit > 0 => KeepsRoundTrip(traced, Origin, kept)
=============================================================================
