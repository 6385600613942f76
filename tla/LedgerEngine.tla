---------------------------- MODULE LedgerEngine ----------------------------
(***************************************************************************)
(* The account service, the seed program and the ledger over one accounts  *)
(* table. A step is a step of one of them.                                 *)
(***************************************************************************)
EXTENDS Accounts, Seed, Journal

vars == <<tableVars, faults, adminVars, seedVars, journalVars>>

TypeOK == TableTypes /\ AdminTypes /\ SeedTypes /\ JournalTypes

Init == TableInit /\ AdminInit /\ SeedInit /\ JournalInit

\* Every client has been served. Requests that may still come need not.
Quiet ==
  /\ \A p \in Admins : adminPc[p] = "idle"
  /\ \A s \in Seeders : seedPc[s] \in {"done", "fatal"}
  /\ \A p \in Posters : posterPc[p] = "done"

Next ==
  \/ AdminNext /\ UNCHANGED <<seedVars, journalVars>>
  \/ SeedNext /\ UNCHANGED <<adminVars, journalVars>>
  \/ JournalNext /\ UNCHANGED <<adminVars, seedVars>>
  \/ Quiet /\ UNCHANGED vars

Spec == Init /\ [][Next]_vars

AdminProgress(p)  == AdminStep(p) /\ UNCHANGED <<seedVars, journalVars>>
SeedProgress(s)   == SeedStep(s) /\ UNCHANGED <<adminVars, journalVars>>
PosterProgress(p) == PosterStep(p) /\ UNCHANGED <<adminVars, seedVars>>

\* A request, a run of the seed program and a posting that have begun go on when
\* they can. PostgreSQL hands a row to those who wait for it in turn, so a poster or
\* an administrator is not overtaken for ever; as the callers are finitely many,
\* weak fairness is enough.
FairSpec ==
  /\ Spec
  /\ \A p \in Admins : WF_vars(AdminProgress(p))
  /\ \A s \in Seeders : WF_vars(SeedProgress(s))
  /\ \A p \in Posters : WF_vars(PosterProgress(p))

-----------------------------------------------------------------------------
\* Absent failures every change of an account row is told exactly once: its version
\* counts the updates in the trail, those whose event is about to be written, and the
\* entries of the journal with a line of the account.
VersionsAreTold ==
  faults = 0 =>
    \A a \in DOMAIN account :
      LET start     == IF a \in DOMAIN InitAccounts THEN InitAccounts[a].version ELSE 0
          updates   == {i \in EventsOf(a) : events[i].from # NoStatus}
          unwritten == {p \in Admins : logging[p] # NoEvent /\ logging[p].id = a
                                         /\ logging[p].from # NoStatus}
      IN  account[a].version = start + Cardinality(updates) + Cardinality(unwritten)
                                 + Cardinality(AccountEntries(a))

\* Whoever waits, for the row lock of an account or for another run's row under a
\* unique code, is served: again and again there is a moment at which no request,
\* posting or run of the seed program is under way, so they never wait for each
\* other in a circle and none of them goes on for ever.
EveryoneIsServed ==
  []<> /\ \A p \in Admins : adminPc[p] = "idle"
       /\ \A s \in Seeders : seedPc[s] \in {"idle", "done", "fatal"}
       /\ \A p \in Posters : posterPc[p] \in {"idle", "done"}
=============================================================================
