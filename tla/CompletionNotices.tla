--------------------------- MODULE CompletionNotices ---------------------------
(***************************************************************************)
(* Notices of constructions that can be completed                          *)
(* (src/world-game/completion-notifications.js and what src/app.js does    *)
(* with it): tabs of one wallet read snapshots of the chain, and share the *)
(* browser's storage, which holds the setting and which notices have been  *)
(* shown; the chain may step back.  What a tab does with a snapshot runs   *)
(* to its end before another tab's: true of tabs of one browser process,   *)
(* assumed of tabs in several, whose looks into the storage and writes to  *)
(* it (:114-115) nothing keeps apart.                                      *)
(***************************************************************************)
EXTENDS Integers

CONSTANTS
  Tab, Slot,
  MaxTime,
  None

ASSUME NoneIsNoTime == None \notin Int

VARIABLES
  chain,       \* its time, and when the construction of each slot is complete
  earlier,     \* the chain one block before
  enabled,     \* in the storage: the setting ...
  notified,    \* ... and the keys of what has been shown
  storageFull, \* whether the storage takes no more
  notices,     \* what each tab displays; None for one that is closed
  setting,     \* what each tab takes the setting to be
  snapshot     \* what each tab has read last

noticeVars == <<chain, earlier, enabled, notified, storageFull, notices, setting, snapshot>>
chainVars == <<chain, earlier>>

IsOpen(t) == notices[t] # None

\* The time of a snapshot may be missing.
NoSnapshot == [time |-> None, due |-> [s \in Slot |-> None]]

\* The jobs of a snapshot that are pending and due; a notice's key names one.
DueIn(snap) ==
  {n \in Slot \X (0 .. MaxTime) :
     /\ snap.time # None
     /\ snap.due[n[1]] = n[2]
     /\ n[2] <= snap.time}

----------------------------------------------------------------------------
(* The chain: blocks, constructions that start, are boosted and completed, and *)
(* a reorganization.                                                           *)

NewBlock(due) ==
  /\ chain.time < MaxTime
  /\ chain' = [time |-> chain.time + 1, due |-> due]
  /\ earlier' = chain
  /\ UNCHANGED <<enabled, notified, storageFull, notices, setting, snapshot>>

JobChanges(s) ==
  \E at \in {None} \cup (chain.time .. MaxTime) : NewBlock([chain.due EXCEPT ![s] = at])

BlockPasses == NewBlock(chain.due)

Reorganized ==
  /\ chain # earlier
  /\ chain' = earlier
  /\ UNCHANGED <<earlier, enabled, notified, storageFull, notices, setting, snapshot>>

----------------------------------------------------------------------------
(* Tabs. *)

\* createRuntime
OpenTab(t) ==
  /\ ~ IsOpen(t)
  /\ notices' = [notices EXCEPT ![t] = {}]
  /\ setting' = [setting EXCEPT ![t] = enabled]
  /\ snapshot' = [snapshot EXCEPT ![t] = NoSnapshot]
  /\ UNCHANGED <<chainVars, enabled, notified, storageFull>>

CloseTab(t) ==
  /\ IsOpen(t)
  /\ notices' = [notices EXCEPT ![t] = None]
  /\ UNCHANGED <<chainVars, enabled, notified, storageFull, setting, snapshot>>

\* Faulty variant: what is displayed stays.
FaultyRetained(t, snap) == notices[t]

\* retainCompletionReadyNotices
Retained(t, snap) == notices[t] \cap DueIn(snap)

\* Faulty variant: the tab's own idea of the setting counts.
FaultyFresh(t, snap) == IF ~ setting[t] THEN {} ELSE DueIn(snap) \ notified

\* Faulty variant: what has been shown is shown again.
FaultyFreshAgain(t, snap) == IF ~ enabled THEN {} ELSE DueIn(snap)

\* collectCompletionReadyNotices: what is due and has not been shown.
Fresh(t, snap) == IF ~ enabled THEN {} ELSE DueIn(snap) \ notified

\* updateCompletionNotices, of what was just read.  A storage that takes no more
\* throws at some key: those before it are kept as shown, and nothing is notified.
Reads(t, snap) ==
  /\ IsOpen(t)
  /\ snapshot' = [snapshot EXCEPT ![t] = snap]
  /\ IF storageFull /\ Fresh(t, snap) # {}
     THEN /\ notices' = [notices EXCEPT ![t] = Retained(t, snap)]
          /\ \E kept \in SUBSET Fresh(t, snap) :
               kept # Fresh(t, snap) /\ notified' = notified \cup kept
     ELSE /\ notices' = [notices EXCEPT ![t] = Retained(t, snap) \cup Fresh(t, snap)]
          /\ notified' = notified \cup Fresh(t, snap)
  /\ UNCHANGED <<chainVars, enabled, storageFull, setting>>

\* Without the jobs of the queue, whose read may fail, the first slot is all there is.
FirstSlotOnly(snap) ==
  [snap EXCEPT !.due = [s \in Slot |-> IF s = 0 THEN @[s] ELSE None]]

\* A node may be a block behind, and a snapshot without a time or without the queue.
ReadsSnapshot(t) ==
  \E snap \in {chain, earlier, [chain EXCEPT !.time = None], FirstSlotOnly(chain)} :
    Reads(t, snap)

StorageFills ==
  /\ storageFull' = ~ storageFull
  /\ UNCHANGED <<chainVars, enabled, notified, notices, setting, snapshot>>

\* setCompletionNotificationsEnabled: whether the setting is on and stored as such; a
\* full storage still takes the value that it holds.
IsSet(on) == on /\ (~ storageFull \/ enabled)

\* The service that the runtime has for the setting (setCompletionNotifications):
\* turning it off forgets what has been shown; a full storage keeps it as it was.
\* (The actions that the settings dialog is built from leave this service out, so
\* that only whoever calls the runtime reaches it.)
SetCompletionNotifications(t, on) ==
  /\ IsOpen(t)
  /\ enabled' = IF on /\ storageFull THEN enabled ELSE on
  /\ notified' = IF on THEN notified ELSE {}
  /\ setting' = [setting EXCEPT ![t] = IsSet(on)]
  /\ notices' = IF IsSet(on) THEN notices ELSE [notices EXCEPT ![t] = {}]
  /\ UNCHANGED <<chainVars, storageFull, snapshot>>

----------------------------------------------------------------------------

NoticeInit ==
  /\ chain = [time |-> 0, due |-> [s \in Slot |-> None]]
  /\ earlier = chain
  /\ enabled = FALSE
  /\ notified = {}
  /\ storageFull = FALSE
  /\ notices = [t \in Tab |-> None]
  /\ setting = [t \in Tab |-> FALSE]
  /\ snapshot = [t \in Tab |-> NoSnapshot]

NoticeNext ==
  \/ \E s \in Slot : JobChanges(s)
  \/ BlockPasses \/ Reorganized \/ StorageFills
  \/ \E t \in Tab : OpenTab(t) \/ CloseTab(t) \/ ReadsSnapshot(t)
  \/ \E t \in Tab, on \in BOOLEAN : SetCompletionNotifications(t, on)

NoticeSpec == NoticeInit /\ [][NoticeNext]_noticeVars

----------------------------------------------------------------------------
(* Properties. *)

\* A notice that is displayed is of a construction which, in what the tab has read
\* last, is pending and complete by chain time; blocks that were taken back, jobs
\* that were completed or boosted elsewhere and snapshots without a time included.
NoticeIsDue ==
  \A t \in Tab : IsOpen(t) => notices[t] \subseteq DueIn(snapshot[t])

\* Once the setting is off, in whichever tab, no tab shows another notice.
SilentWhenOff ==
  [][notices' # notices /\ ~ enabled =>
       \A t \in Tab : IsOpen(t) /\ IsOpen(t)' => notices'[t] \subseteq notices[t]]_noticeVars

\* A notice is shown once: none appears in a tab that any tab has shown since the
\* setting was turned on, whatever was closed, reloaded or reorganized meanwhile.
ShownOnce ==
  [][notices' # notices =>
       \A t \in Tab : IsOpen(t) /\ IsOpen(t)' =>
         (notices'[t] \ notices[t]) \cap notified = {}]_noticeVars

\* Whatever tabs, reads and reorganizations do, a notice is due, is shown once, and is
\* not shown to who has turned them off.
NoticesHold == []NoticeIsDue /\ SilentWhenOff /\ ShownOnce
=============================================================================
