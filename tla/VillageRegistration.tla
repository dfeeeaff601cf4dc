------------------------ MODULE VillageRegistration ------------------------
(* The registration of a village before the app is mounted                  *)
(* (useWalletVillageRegistration.ts, registerWalletWithMiniKit in            *)
(* world-game/actions.js, world-game/registration-pending.js): the chain is  *)
(* read first, a known user operation is polled instead of sent again, and   *)
(* its hash is kept in sessionStorage across reloads.                        *)
EXTENDS Naturals

CONSTANT MaxRegistrations   \* bound: registrations the wallet signs

ASSUME RegistrationAssumption == MaxRegistrations \in Nat

VARIABLES
    village,      \* has the wallet a village on the chain?
    regOps,       \* user operations that register it
    regStored,    \* the hash in sessionStorage
    reg           \* state of the mounted hook

regVars == <<village, regOps, regStored, reg>>

RegOp == 1..MaxRegistrations
NoHash == 0

\* hash is pendingRegistrationHash; checked and failed are React state; phase
\* is what is under way: a check (checking) or a registration (the others).
RegPage == [phase : {"idle", "checking", "reading", "prompt", "approved",
                     "polling", "confirming"},
            checked : BOOLEAN, failed : BOOLEAN, registered : BOOLEAN,
            hash : RegOp \cup {NoHash}, op : RegOp \cup {NoHash}]

RegTypeOK ==
    /\ village \in BOOLEAN
    \* known: did the hash reach the page?
    /\ regOps \in [RegOp -> [status : {"unused", "sent", "success", "failed"},
                             known : BOOLEAN]]
    /\ regStored \in RegOp \cup {NoHash}
    /\ reg \in RegPage

\* The hook as it mounts: it restores the hash and begins to check.
Opened(stored) ==
    [phase |-> "checking", checked |-> FALSE, failed |-> FALSE,
     registered |-> FALSE, hash |-> stored, op |-> NoHash]

RegInit ==
    /\ village \in BOOLEAN
    /\ regOps = [o \in RegOp |-> [status |-> "unused", known |-> FALSE]]
    /\ regStored = NoHash
    /\ reg = Opened(NoHash)

RegReopen ==
    /\ reg' = Opened(regStored)
    /\ UNCHANGED <<village, regOps, regStored>>

------------------------------------------------------------------------------
\* The hash of a village that exists is of no more use.
Cleared(page) == [page EXCEPT !.hash = NoHash, !.registered = TRUE]

\* retryRegistrationCheck: the initial check, or one asked for after a failure.
CheckAgain ==
    /\ reg.phase = "idle" /\ reg.failed
    /\ reg' = [reg EXCEPT !.phase = "checking", !.checked = FALSE, !.failed = FALSE]
    /\ UNCHANGED <<village, regOps, regStored>>

CheckArrives ==
    /\ reg.phase = "checking"
    /\ reg' = LET page == [reg EXCEPT !.phase = "idle", !.checked = TRUE]
              IN  IF village THEN Cleared(page) ELSE page
    /\ regStored' = IF village THEN NoHash ELSE regStored
    /\ UNCHANGED <<village, regOps>>

CheckFails ==
    /\ reg.phase = "checking"
    /\ reg' = [reg EXCEPT !.phase = "idle", !.failed = TRUE]
    /\ UNCHANGED <<village, regOps, regStored>>

------------------------------------------------------------------------------
(* registerVillage.                                                          *)

RegisterVillage ==
    /\ reg.phase = "idle"
    /\ reg.checked /\ ~reg.failed /\ ~reg.registered
    /\ reg' = [reg EXCEPT !.phase = "reading"]
    /\ UNCHANGED <<village, regOps, regStored>>

\* The read that comes first decides: done, poll what is known, or send.
ReadFirst ==
    /\ reg.phase = "reading"
    /\ reg' = IF village THEN Cleared([reg EXCEPT !.phase = "idle"])
              ELSE IF reg.hash # NoHash
              THEN [reg EXCEPT !.phase = "polling", !.op = reg.hash]
              ELSE [reg EXCEPT !.phase = "prompt"]
    /\ regStored' = IF village THEN NoHash ELSE regStored
    /\ UNCHANGED <<village, regOps>>

\* A variant that takes every error for a failure of the operation.
FaultyInterrupted(page, unavailable) ==
    [page EXCEPT !.phase = "idle", !.op = NoHash, !.failed = unavailable,
                 !.checked = ~unavailable, !.hash = NoHash]

\* An error that says nothing of the registration closes the gate until the
\* next check; any other leaves it open. Neither forgets the hash.
Interrupted(page, unavailable) ==
    [page EXCEPT !.phase = "idle", !.op = NoHash, !.failed = unavailable,
                 !.checked = ~unavailable]

\* A read, the wallet or the poll fails, or the receipt takes too long.
RegistrationFails ==
    /\ reg.phase \in {"reading", "prompt", "polling", "confirming"}
    /\ \E unavailable \in BOOLEAN : reg' = Interrupted(reg, unavailable)
    /\ UNCHANGED <<village, regOps, regStored>>

RegistrationApproved ==
    /\ reg.phase = "prompt"
    /\ \E o \in RegOp :
         /\ regOps[o].status = "unused"
         /\ \A p \in RegOp : p < o => regOps[p].status # "unused"
         /\ regOps' = [regOps EXCEPT ![o].status = "sent"]
         /\ reg' = [reg EXCEPT !.phase = "approved", !.op = o]
    /\ UNCHANGED <<village, regStored>>

\* The hash arrives and is stored (onPendingUserOpHash).
RegistrationHash ==
    /\ reg.phase = "approved"
    /\ reg' = [reg EXCEPT !.phase = "polling", !.hash = reg.op]
    /\ regStored' = reg.op
    /\ regOps' = [regOps EXCEPT ![reg.op].known = TRUE]
    /\ UNCHANGED village

\* The receipt: a failure forgets the operation, a success is read back.
RegistrationReceipt ==
    /\ reg.phase = "polling"
    /\ \/ /\ regOps[reg.op].status = "success"
          /\ reg' = [reg EXCEPT !.phase = "confirming"]
          /\ UNCHANGED regStored
       \/ /\ regOps[reg.op].status = "failed"
          /\ reg' = [Interrupted(reg, FALSE) EXCEPT !.hash = NoHash]
          /\ regStored' = NoHash
    /\ UNCHANGED <<village, regOps>>

ReadBack ==
    /\ reg.phase = "confirming"
    /\ village
    /\ reg' = Cleared([reg EXCEPT !.phase = "idle", !.op = NoHash])
    /\ regStored' = NoHash
    /\ UNCHANGED <<village, regOps>>

\* registerWallet on the chain: only the first one succeeds.
RegistrationIncluded(o) ==
    /\ regOps[o].status = "sent"
    /\ \/ ~village /\ village' = TRUE /\ regOps' = [regOps EXCEPT ![o].status = "success"]
       \/ UNCHANGED village /\ regOps' = [regOps EXCEPT ![o].status = "failed"]
    /\ UNCHANGED <<regStored, reg>>

RegNext ==
    \/ CheckAgain \/ CheckArrives \/ CheckFails
    \/ RegisterVillage \/ ReadFirst \/ RegistrationFails
    \/ RegistrationApproved \/ RegistrationHash \/ RegistrationReceipt \/ ReadBack
    \/ \E o \in RegOp : RegistrationIncluded(o)

RegSpec == RegInit /\ [][RegNext \/ RegReopen]_regVars

\* The wallet is not asked to sign another registration while one whose hash
\* ever reached a page may still succeed, through errors, timeouts and reloads.
NoSecondRegistration ==
    [][\A o \in RegOp :
         regOps[o].status = "unused" /\ regOps'[o].status = "sent" =>
           \A p \in RegOp : regOps[p].known => regOps[p].status = "failed"]_regVars
=============================================================================
