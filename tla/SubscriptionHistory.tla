------------------------- MODULE SubscriptionHistory -------------------------
(***************************************************************************)
(* How far the status of an organisation follows its subscriptions.  The   *)
(* two are written by separate calls, some mutations write only one of     *)
(* them, and a failed second write is not retried.  This module adds to    *)
(* Subscription the record of the organisations to which that has happened *)
(* (a history variable, written by every step and read by the properties   *)
(* only).                                                                  *)
(***************************************************************************)
EXTENDS Subscription

VARIABLE apart   \* organisations of which the two were written apart

followVars == <<vars, apart>>

\* The handler has written a subscription of o and not yet o itself.
Between(r, o) ==
  \/ At(r, "create.organisation") /\ slot[r].row.organisation = o
  \/ /\ At(r, "expired.organisation") \/ At(r, "grace.organisation")
     /\ subscription[slot[r].id].organisation = o

\* A step of a mutation that changes one of the two without the other:
\* updateSubscription and cancelSubscription, and the managers' mutations.
WrittenAlone(o) ==
  /\ slot' = slot
  /\ \/ organisation'[o] # organisation[o]
     \/ \E s \in Of(o) : subscription'[s].status # subscription[s].status

\* Two handlers are between the two writes for o, and either may come last.
Overlap(o) == \E q, r \in Slots : q # r /\ Between(q, o) /\ Between(r, o)

\* The handlers of rejected are stopped before their second write.
Mark(rejected) ==
  apart' = apart \cup {o \in Organisations :
             \/ WrittenAlone(o)
             \/ Overlap(o)'
             \/ \E r \in rejected : Between(r, o)}

FollowInit == Init /\ apart = {}
FollowNext ==
  \/ (\E r \in Slots : MutationStep(r) \/ LifecycleStep(r)) /\ Mark({})
  \/ \E r \in Slots : Reject(r) /\ Mark({r})
  \/ Stop /\ Mark(Slots)
  \/ Tick /\ Mark({})

FollowSpec == FollowInit /\ [][FollowNext]_followVars
FairFollowSpec == FollowSpec /\ Fairness

-----------------------------------------------------------------------------

\* The organisation of a single subscription has the status that goes with it
\* whenever no handler is between the two, however many times the job, the
\* mutations and the failures of others come in between; what the code does not
\* prevent or make good is exactly what apart records.
OrganisationFollows ==
  \A s \in DOMAIN subscription :
    LET o == subscription[s].organisation IN
    Of(o) = {s} /\ o \notin apart /\ (\A r \in Slots : ~Between(r, o)) =>
      organisation[o] = OrganisationStatus(subscription[s].status)

\* An organisation with no subscription in force loses its access or gets a new
\* subscription, unless the second of two writes was lost or overtaken, an
\* operator cancelled or changed a subscription (which leaves the organisation
\* as it is), or a manager has set its status.
AccessEnds ==
  \A o \in Organisations :
    LET unpaid == Of(o) # {} /\ \A s \in Of(o) : ~TrulyActive(s)
    IN unpaid ~> (~unpaid \/ organisation[o] \in {"SUSPENDED", "CANCELLED"} \/ o \in apart)

-----------------------------------------------------------------------------

\* What is inductive about it: a handler between the two writes gives the
\* organisation the status that its subscription still has.
FollowInv ==
  /\ apart \subseteq Organisations
  /\ \A o \in Organisations \ apart : ~Overlap(o)
  /\ \A r \in Slots :
       /\ At(r, "create.organisation") /\ slot[r].row.organisation \notin apart =>
            \A s \in DOMAIN subscription :
              Of(slot[r].row.organisation) = {s} => subscription[s].status = slot[r].row.status
       /\ At(r, "expired.organisation") /\ subscription[slot[r].id].organisation \notin apart =>
            subscription[slot[r].id].status = "PAST_DUE"
       /\ At(r, "grace.organisation") /\ subscription[slot[r].id].organisation \notin apart =>
            subscription[slot[r].id].status = "CANCELLED"
  /\ OrganisationFollows

=============================================================================
