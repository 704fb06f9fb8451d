--------------------------- MODULE SessionsProofs ---------------------------
(***************************************************************************)
(* Proofs about Sessions: its inductive invariant, and the safety          *)
(* properties that follow from it.                                         *)
(***************************************************************************)
EXTENDS Sessions, TLAPS

\* A file that a login has written, that nobody logged out of and that has not expired
\* is there: the only other ways for it to go are accounted for.
LEMMA AccountedIsKept == SessInv => LiveSessionKept
<1> SUFFICES ASSUME SessInv, NEW s \in issued \ (loggedOut \cup cutShort), Current(s)
             PROVE  s \in linked \cap written
  BY DEF LiveSessionKept
<1>1. s \in Sids /\ ~Unused(s) /\ s \notin loggedOut /\ s \notin cutShort
  BY DEF SessInv, SessTypeOK, SessionsKnown
<1>2. ~Expired(s)
  <2>1. now \in Nat /\ expires[s] \in Nat
    BY <1>1, SessionsAssumption DEF SessInv, SessTypeOK
  <2> QED
    BY <2>1 DEF Current, Expired
<1> QED
  BY <1>1, <1>2 DEF SessInv, FilesAccounted

LEMMA SessInvInit == SessInit => SessInv
<1> SUFFICES ASSUME SessInit PROVE SessInv
  OBVIOUS
<1>1. SessTypeOK
  <2>1. now \in 1..MaxTime /\ expires \in [Sids -> 0..(MaxTime + Lifetime)]
    BY SessionsAssumption DEF SessInit
  <2>2. stops \in 0..MaxStops /\ faults \in 0..MaxFaults
    BY SessionsAssumption DEF SessInit
  <2> QED
    BY <2>1, <2>2 DEF SessInit, SessTypeOK
<1>2. LogoutIsFinal /\ StopNotMissed /\ SessionsKnown /\ LoggedOutGone /\ DropsAreDue
  BY DEF SessInit, LogoutIsFinal, StopNotMissed, SessionsKnown, LoggedOutGone, DropsAreDue
<1>3. FilesAccounted /\ StopSeen
  BY DEF SessInit, FilesAccounted, StopSeen, Unused
<1> QED
  BY <1>1, <1>2, <1>3 DEF SessInv

\* What has expired stays expired: no login gives an identifier a second time.
LEMMA TickInv ==
  ASSUME SessInv, Tick
  PROVE  SessInv'
<1> USE DEF SessInv, fileVars, hVars, cVars, boundVars
<1>1. now \in Nat /\ now' \in Nat /\ now' = now + 1 /\ now' \in 1..MaxTime
  BY SessionsAssumption DEF Tick, SessTypeOK
<1>2. SessTypeOK'
  BY <1>1 DEF Tick, SessTypeOK
<1>3. \A s \in Sids : Expired(s) => Expired(s)'
  <2> SUFFICES ASSUME NEW s \in Sids, Expired(s) PROVE Expired(s)'
    OBVIOUS
  <2>1. expires[s] \in Nat /\ expires'[s] = expires[s]
    BY SessionsAssumption DEF Tick, SessTypeOK
  <2> QED
    BY <1>1, <2>1 DEF Expired
<1>4. DropsAreDue' /\ FilesAccounted'
  BY <1>3 DEF Tick, SessTypeOK, DropsAreDue, FilesAccounted, Unused
<1>5. LogoutIsFinal' /\ StopNotMissed' /\ SessionsKnown' /\ LoggedOutGone' /\ StopSeen'
  BY DEF Tick, LogoutIsFinal, StopNotMissed, SessionsKnown, LoggedOutGone, StopSeen, Unused
<1> QED
  BY <1>2, <1>4, <1>5
-----------------------------------------------------------------------------
(***************************************************************************)
(* The requests                                                            *)
(***************************************************************************)

LEMMA LoginOpenInv ==
  ASSUME SessInv, NEW h \in Handlers, NEW s \in Sids, LoginOpen(h, s)
  PROVE  SessInv'
<1> USE DEF SessInv, fileVars, hVars, cVars, boundVars
<1>1. /\ now \in Nat /\ now > 0 /\ now' = now
      /\ now + Lifetime \in 0..(MaxTime + Lifetime) /\ now + Lifetime # 0
  BY SessionsAssumption DEF LoginOpen, SessTypeOK
<1>2. /\ expires' \in [Sids -> 0..(MaxTime + Lifetime)] /\ expires'[s] = now + Lifetime
      /\ \A r \in Sids : r # s => expires'[r] = expires[r]
  BY <1>1 DEF LoginOpen, SessTypeOK
<1>3. ~Unused(s)' /\ \A r \in Sids : ~Unused(r) => ~Unused(r)' /\ r # s
  BY <1>1, <1>2 DEF LoginOpen, Unused
<1>4. \A r \in Sids : r # s => (Expired(r)' <=> Expired(r)) /\ (Unused(r)' <=> Unused(r))
  BY <1>1, <1>2 DEF Expired, Unused
<1>5. /\ hpc'[h] = "write" /\ hsid'[h] = s
      /\ \A g \in Handlers : g # h => hpc'[g] = hpc[g] /\ hsid'[g] = hsid[g]
  BY DEF LoginOpen, SessTypeOK
<1>6. SessTypeOK'
  BY <1>2, <1>5, SessionsAssumption DEF LoginOpen, SessTypeOK
<1>7. SessionsKnown'
  BY <1>3, <1>5 DEF LoginOpen, SessTypeOK, SessionsKnown
<1>8. LoggedOutGone' /\ LogoutIsFinal'
  BY <1>3, <1>5 DEF LoginOpen, SessTypeOK, SessionsKnown, LoggedOutGone, LogoutIsFinal
<1>9. DropsAreDue'
  <2>1. ASSUME NEW g \in Handlers, hpc'[g] = "drop"
        PROVE  Expired(hsid[g])'
    <3>1. g # h /\ hpc[g] = "drop" /\ hsid'[g] = hsid[g] /\ hsid[g] \in Sids
      BY <1>5, <2>1 DEF SessTypeOK
    <3>2. Expired(hsid[g]) /\ ~Unused(hsid[g])
      BY <3>1 DEF DropsAreDue, SessionsKnown, SessTypeOK
    <3> QED
      BY <1>1, <1>2, <1>3, <3>1, <3>2 DEF Expired
  <2>2. ASSUME cpc' = "drop"
        PROVE  (csid \in cutShort \/ Expired(csid))'
    <3>1. cpc = "drop" /\ csid' = csid /\ cutShort' = cutShort /\ csid \in Sids
      BY <2>2 DEF LoginOpen, SessTypeOK
    <3>2. (csid \in cutShort \/ Expired(csid)) /\ ~Unused(csid)
      BY <3>1 DEF DropsAreDue, SessionsKnown, SessTypeOK
    <3>3. csid # s
      BY <1>3, <3>1, <3>2
    <3> QED
      BY <1>1, <1>2, <3>1, <3>2, <3>3 DEF Expired
  <2> QED
    BY <2>1, <2>2 DEF DropsAreDue
<1>10. FilesAccounted'
  BY <1>3, <1>4 DEF LoginOpen, SessTypeOK, FilesAccounted
<1>11. StopSeen' /\ StopNotMissed'
  BY DEF LoginOpen, StopSeen, StopNotMissed
<1> QED
  BY <1>6, <1>7, <1>8, <1>9, <1>10, <1>11

LEMMA LoginCloseInv ==
  ASSUME SessInv, NEW h \in Handlers, LoginClose(h)
  PROVE  SessInv'
<1> USE DEF SessInv, fileVars, hVars, cVars, boundVars
<1>1. /\ hsid[h] \in Sids /\ hpc[h] = "write" /\ ~Unused(hsid[h])
      /\ hpc' = [hpc EXCEPT ![h] = "idle"] /\ hsid' = [hsid EXCEPT ![h] = NoSid]
  BY DEF LoginClose, Finish, SessTypeOK, SessionsKnown
<1>2. /\ issued' = issued \cup {hsid[h]}
      /\ \/ written' = written \cup {hsid[h]} /\ cutShort' = cutShort
         \/ written' = written /\ cutShort' = cutShort \cup {hsid[h]}
      /\ UNCHANGED <<now, linked, expires, admitted, late, cVars, stopped, main, loggedOut>>
  BY DEF LoginClose
<1>3. faults' \in 0..MaxFaults /\ stops' = stops
  <2>1. /\ faults \in 0..MaxFaults
        /\ faults' = faults \/ (faults < MaxFaults /\ faults' = faults + 1)
    BY DEF LoginClose, SessTypeOK
  <2> QED
    BY <2>1, SessionsAssumption DEF LoginClose
<1>4. SessTypeOK'
  BY <1>1, <1>2, <1>3, SessionsAssumption DEF SessTypeOK
<1>5. SessionsKnown' /\ FilesAccounted'
  BY <1>1, <1>2, SessionsAssumption DEF SessTypeOK, SessionsKnown, FilesAccounted, Unused,
     Expired
<1>6. LoggedOutGone' /\ LogoutIsFinal'
  BY <1>1, <1>2 DEF SessTypeOK, LoggedOutGone, LogoutIsFinal
<1>7. DropsAreDue'
  BY <1>1, <1>2 DEF SessTypeOK, DropsAreDue, Expired
<1>8. StopSeen' /\ StopNotMissed'
  BY <1>2 DEF StopSeen, StopNotMissed
<1> QED
  BY <1>4, <1>5, <1>6, <1>7, <1>8

LEMMA LogoutInv ==
  ASSUME SessInv, NEW h \in Handlers, NEW s \in Sids, Logout(h, s)
  PROVE  SessInv'
<1> USE DEF SessInv, fileVars, hVars, cVars, boundVars
<1>1. /\ s \in issued /\ loggedOut' = loggedOut \cup {s}
      /\ linked' = linked \ {s} /\ mustSee' = mustSee \ {s}
      /\ UNCHANGED <<now, written, expires, issued, hVars, cpc, csid, maySee, stopped, main,
                     cutShort, boundVars>>
  BY DEF Logout, Unlink
<1>2. SessTypeOK'
  BY <1>1 DEF SessTypeOK
<1>3. SessionsKnown' /\ FilesAccounted' /\ DropsAreDue'
  BY <1>1 DEF SessTypeOK, SessionsKnown, FilesAccounted, DropsAreDue, Unused, Expired
<1>4. LoggedOutGone' /\ LogoutIsFinal' /\ StopSeen' /\ StopNotMissed'
  BY <1>1 DEF LoggedOutGone, LogoutIsFinal, StopSeen, StopNotMissed
<1> QED
  BY <1>2, <1>3, <1>4

\* A request that finds the file began before the logout of its session, if any.
LEMMA AuthOpenInv ==
  ASSUME SessInv, NEW h \in Handlers, NEW s \in Sids, AuthOpen(h, s)
  PROVE  SessInv'
<1> USE DEF SessInv, fileVars, hVars, cVars, boundVars
<1>1. /\ hpc[h] = "idle" /\ s \in issued
      /\ late' = IF s \in loggedOut THEN late \cup {h} ELSE late \ {h}
      /\ UNCHANGED <<now, linked, written, expires, issued, cVars, stopped, main, loggedOut,
                     cutShort, boundVars>>
  BY DEF AuthOpen
<1>2. CASE s \in linked
  <2>1. /\ hpc' = [hpc EXCEPT ![h] = "read"] /\ hsid' = [hsid EXCEPT ![h] = s]
        /\ admitted' = [admitted EXCEPT ![h] = "none"]
    BY <1>2 DEF AuthOpen
  <2>2. late' = late \ {h}
    BY <1>1, <1>2 DEF LoggedOutGone
  <2>3. SessTypeOK'
    BY <1>1, <2>1, <2>2, SessionsAssumption DEF SessTypeOK
  <2>4. SessionsKnown' /\ FilesAccounted' /\ DropsAreDue'
    BY <1>1, <2>1 DEF SessTypeOK, SessionsKnown, FilesAccounted, DropsAreDue, Unused, Expired
  <2>5. LoggedOutGone' /\ LogoutIsFinal'
    BY <1>1, <2>1, <2>2 DEF SessTypeOK, LoggedOutGone, LogoutIsFinal
  <2>6. StopSeen' /\ StopNotMissed'
    BY <1>1 DEF StopSeen, StopNotMissed
  <2> QED
    BY <2>3, <2>4, <2>5, <2>6
<1>3. CASE s \notin linked
  <2>1. admitted' = [admitted EXCEPT ![h] = "no"] /\ UNCHANGED <<hpc, hsid>>
    BY <1>3 DEF AuthOpen
  <2>2. late' \subseteq late \cup {h}
    BY <1>1
  <2>3. SessTypeOK'
    BY <1>1, <2>1, <2>2 DEF SessTypeOK
  <2>4. SessionsKnown' /\ FilesAccounted' /\ DropsAreDue'
    BY <1>1, <2>1 DEF SessTypeOK, SessionsKnown, FilesAccounted, DropsAreDue, Unused, Expired
  <2>5. LoggedOutGone' /\ LogoutIsFinal'
    BY <1>1, <2>1, <2>2 DEF SessTypeOK, LoggedOutGone, LogoutIsFinal
  <2>6. StopSeen' /\ StopNotMissed'
    BY <1>1 DEF StopSeen, StopNotMissed
  <2> QED
    BY <2>3, <2>4, <2>5, <2>6
<1> QED
  BY <1>2, <1>3

\* Only a request that was not late has a file to read.
LEMMA AuthReadInv ==
  ASSUME SessInv, NEW h \in Handlers, AuthRead(h)
  PROVE  SessInv'
<1> USE DEF SessInv, fileVars, hVars, cVars, boundVars
<1>1. /\ hpc[h] = "read" /\ hsid[h] \in Sids /\ h \notin late
      /\ UNCHANGED <<now, linked, written, expires, issued, late, cVars, stopped, main,
                     loggedOut, cutShort, boundVars>>
  BY DEF AuthRead, SessTypeOK, LoggedOutGone
<1>2. \/ /\ hpc' = [hpc EXCEPT ![h] = "idle"] /\ hsid' = [hsid EXCEPT ![h] = NoSid]
         /\ \E a \in {"yes", "no"} : admitted' = [admitted EXCEPT ![h] = a]
      \/ /\ hpc' = [hpc EXCEPT ![h] = "drop"] /\ hsid' = hsid /\ admitted' = admitted
         /\ Expired(hsid[h])
  BY DEF AuthRead, Finish
<1>3. SessTypeOK'
  BY <1>1, <1>2, SessionsAssumption DEF SessTypeOK
<1>4. SessionsKnown' /\ FilesAccounted' /\ DropsAreDue'
  BY <1>1, <1>2 DEF SessTypeOK, SessionsKnown, FilesAccounted, DropsAreDue, Unused, Expired
<1>5. LoggedOutGone' /\ LogoutIsFinal'
  BY <1>1, <1>2 DEF SessTypeOK, LoggedOutGone, LogoutIsFinal
<1>6. StopSeen' /\ StopNotMissed'
  BY <1>1 DEF StopSeen, StopNotMissed
<1> QED
  BY <1>3, <1>4, <1>5, <1>6

LEMMA AuthDropInv ==
  ASSUME SessInv, NEW h \in Handlers, AuthDrop(h)
  PROVE  SessInv'
<1> USE DEF SessInv, fileVars, hVars, cVars, boundVars
<1>1. /\ hpc[h] = "drop" /\ hsid[h] \in Sids /\ Expired(hsid[h])
      /\ hpc' = [hpc EXCEPT ![h] = "idle"] /\ hsid' = [hsid EXCEPT ![h] = NoSid]
      /\ admitted' = [admitted EXCEPT ![h] = "no"]
      /\ linked' = linked \ {hsid[h]} /\ mustSee' = mustSee \ {hsid[h]}
      /\ UNCHANGED <<now, written, expires, issued, late, cpc, csid, maySee, stopped, main,
                     loggedOut, cutShort, boundVars>>
  BY DEF AuthDrop, Unlink, Finish, SessTypeOK, DropsAreDue
<1>2. SessTypeOK'
  BY <1>1, SessionsAssumption DEF SessTypeOK
<1>3. SessionsKnown' /\ FilesAccounted' /\ DropsAreDue'
  BY <1>1 DEF SessTypeOK, SessionsKnown, FilesAccounted, DropsAreDue, Unused, Expired
<1>4. LoggedOutGone' /\ LogoutIsFinal'
  BY <1>1 DEF SessTypeOK, LoggedOutGone, LogoutIsFinal
<1>5. StopSeen' /\ StopNotMissed'
  BY <1>1 DEF StopSeen, StopNotMissed
<1> QED
  BY <1>2, <1>3, <1>4, <1>5
-----------------------------------------------------------------------------
(***************************************************************************)
(* The cleanup thread                                                      *)
(***************************************************************************)

\* What the cleanup thread reads before it is written is cut short; the rest of what
\* it removes has expired.
LEMMA ScanInv ==
  ASSUME SessInv,
         ScanStart \/ (\E s \in Sids : ScanEntry(s)) \/ ScanRead \/ ScanDrop \/ ScanEnd
  PROVE  SessInv'
<1> USE DEF SessInv, fileVars, hVars, cVars, boundVars
<1>1. /\ UNCHANGED <<now, written, expires, issued, hVars, stopped, main, loggedOut,
                     boundVars>>
      /\ cutShort \subseteq cutShort' /\ linked' \subseteq linked
      /\ cpc # "exited" /\ cpc' \notin {"about", "waiting"}
  BY DEF ScanStart, ScanEntry, ScanRead, ScanDrop, ScanEnd, Unlink
<1>2. SessTypeOK'
  <2>1. CASE ScanStart \/ ScanEnd
    BY <2>1 DEF ScanStart, ScanEnd, SessTypeOK
  <2>2. CASE \E s \in Sids : ScanEntry(s)
    BY <2>2, SessionsAssumption DEF ScanEntry, SessTypeOK
  <2>3. CASE ScanRead
    BY <2>3, SessionsAssumption DEF ScanRead, SessTypeOK
  <2>4. CASE ScanDrop
    BY <2>4, SessionsAssumption DEF ScanDrop, Unlink, SessTypeOK
  <2> QED
    BY <2>1, <2>2, <2>3, <2>4
<1>3. SessionsKnown'
  <2>1. csid' \in {csid, NoSid} \cup linked
    BY DEF ScanStart, ScanEntry, ScanRead, ScanDrop, ScanEnd
  <2> QED
    BY <1>1, <2>1 DEF SessionsKnown, Unused
<1>4. FilesAccounted' /\ DropsAreDue'
  <2>1. CASE ScanStart \/ ScanEnd \/ \E s \in Sids : ScanEntry(s)
    <3>1. cpc' # "drop" /\ linked' = linked /\ cutShort' = cutShort
      BY <2>1 DEF ScanStart, ScanEntry, ScanEnd
    <3> QED
      BY <1>1, <3>1 DEF FilesAccounted, DropsAreDue, Unused, Expired
  <2>2. CASE ScanRead
    <3>1. /\ linked' = linked /\ cutShort' = cutShort \cup ({csid} \ written)
          /\ cpc' = "drop" => csid' = csid /\ (csid \notin written \/ Expired(csid))
      BY <2>2 DEF ScanRead, Doomed
    <3> QED
      BY <1>1, <3>1 DEF FilesAccounted, DropsAreDue, Unused, Expired
  <2>3. CASE ScanDrop
    <3>1. /\ cpc' # "drop" /\ linked' = linked \ {csid} /\ cutShort' = cutShort
          /\ csid \in cutShort \/ Expired(csid)
      BY <2>3 DEF ScanDrop, Unlink, DropsAreDue
    <3> QED
      BY <1>1, <3>1 DEF FilesAccounted, DropsAreDue, Unused, Expired
  <2> QED
    BY <2>1, <2>2, <2>3
<1>5. LoggedOutGone' /\ LogoutIsFinal' /\ StopSeen' /\ StopNotMissed'
  BY <1>1 DEF LoggedOutGone, LogoutIsFinal, StopSeen, StopNotMissed
<1> QED
  BY <1>2, <1>3, <1>4, <1>5

\* Under the mutex the thread sees stop_cleanup_, or has yet to be notified.
LEMMA WaitInv ==
  ASSUME SessInv, TestStop \/ WaitFor \/ WaitEnds \/ AfterWait
  PROVE  SessInv'
<1> USE DEF SessInv, fileVars, hVars, cVars, boundVars
<1>1. /\ UNCHANGED <<now, linked, written, expires, issued, hVars, csid, mustSee, maySee,
                     stopped, main, loggedOut, cutShort, boundVars>>
      /\ \/ cpc = "lock" /\ cpc' = IF stopped THEN "exited" ELSE "about"
         \/ cpc = "about" /\ cpc' = "waiting"
         \/ cpc = "waiting" /\ cpc' = "woken"
         \/ cpc = "woken" /\ cpc' = IF stopped THEN "exited" ELSE "start"
  BY DEF TestStop, WaitFor, WaitEnds, AfterWait, CGoto
<1>2. SessTypeOK'
  BY <1>1 DEF SessTypeOK
<1>3. SessionsKnown' /\ FilesAccounted' /\ DropsAreDue'
  BY <1>1 DEF SessionsKnown, FilesAccounted, DropsAreDue, Unused, Expired
<1>4. LoggedOutGone' /\ LogoutIsFinal'
  BY <1>1 DEF LoggedOutGone, LogoutIsFinal
<1>5. StopSeen' /\ StopNotMissed'
  BY <1>1 DEF StopSeen, StopNotMissed
<1> QED
  BY <1>2, <1>3, <1>4, <1>5
-----------------------------------------------------------------------------
(***************************************************************************)
(* The process                                                             *)
(***************************************************************************)

\* stop_cleanup_ is set while the thread does not hold the mutex, and the notification
\* that follows finds it waiting or not yet asking.
LEMMA MainInv ==
  ASSUME SessInv, Signal \/ SetStop \/ NotifyCleanup \/ Join \/ Start
  PROVE  SessInv'
<1> USE DEF SessInv, fileVars, hVars, cVars, boundVars
<1>1. /\ UNCHANGED <<now, linked, written, expires, issued, hVars, csid, mustSee, maySee,
                     loggedOut, cutShort, faults>>
      /\ cpc' # "drop" \/ cpc' = cpc
  BY DEF Signal, SetStop, NotifyCleanup, Join, Start, MainGoto
<1>2. stops' \in 0..MaxStops
  <2>1. /\ stops \in 0..MaxStops
        /\ stops' = stops \/ (stops < MaxStops /\ stops' = stops + 1)
    BY DEF Signal, SetStop, NotifyCleanup, Join, Start, MainGoto, SessTypeOK
  <2> QED
    BY <2>1, SessionsAssumption
<1>3. \/ main' = "draining" /\ cpc' = cpc /\ stopped' = stopped
      \/ main' = "notifying" /\ cpc' = cpc /\ cpc # "about" /\ stopped'
      \/ /\ main = "notifying" /\ main' = "joining" /\ stopped' = stopped
         /\ cpc' = IF cpc = "waiting" THEN "woken" ELSE cpc
      \/ main' = "down" /\ cpc = "exited" /\ cpc' = cpc /\ stopped' = stopped
      \/ main = "down" /\ main' = "serving" /\ cpc' = "start" /\ ~stopped'
  BY DEF Signal, SetStop, NotifyCleanup, Join, Start, MainGoto
<1>4. SessTypeOK'
  <2>1. /\ main' \in {"serving", "draining", "notifying", "joining", "down"}
        /\ stopped' \in BOOLEAN
    BY DEF Signal, SetStop, NotifyCleanup, Join, Start, MainGoto, SessTypeOK
  <2>2. /\ cpc' \in {"start", "next", "read", "drop", "lock", "about", "waiting", "woken",
                     "exited"}
        /\ csid # NoSid <=> cpc' \in {"read", "drop"}
    BY <1>3 DEF SessTypeOK, StopSeen
  <2> QED
    BY <1>1, <1>2, <2>1, <2>2 DEF SessTypeOK
<1>5. SessionsKnown' /\ FilesAccounted' /\ DropsAreDue'
  BY <1>1 DEF SessionsKnown, FilesAccounted, DropsAreDue, Unused, Expired
<1>6. LoggedOutGone' /\ LogoutIsFinal'
  BY <1>1 DEF LoggedOutGone, LogoutIsFinal
<1>7. StopSeen' /\ StopNotMissed'
  BY <1>3 DEF StopSeen, StopNotMissed
<1> QED
  BY <1>4, <1>5, <1>6, <1>7

\* The files outlive the process, and the threads do not.
LEMMA CrashInv ==
  ASSUME SessInv, Crash
  PROVE  SessInv'
<1> USE DEF SessInv, fileVars, hVars, cVars, boundVars
<1>1. stops' \in 0..MaxStops
  <2>1. stops \in 0..MaxStops /\ stops < MaxStops /\ stops' = stops + 1
    BY DEF Crash, SessTypeOK
  <2> QED
    BY <2>1, SessionsAssumption
<1>2. SessTypeOK'
  BY <1>1 DEF Crash, SessTypeOK
<1>3. SessionsKnown' /\ FilesAccounted' /\ DropsAreDue'
  BY DEF Crash, SessionsKnown, FilesAccounted, DropsAreDue, Unused, Expired
<1>4. LoggedOutGone' /\ LogoutIsFinal' /\ StopSeen' /\ StopNotMissed'
  BY DEF Crash, LoggedOutGone, LogoutIsFinal, StopSeen, StopNotMissed
<1> QED
  BY <1>2, <1>3, <1>4
-----------------------------------------------------------------------------
LEMMA SessInvStutter ==
  ASSUME SessInv, UNCHANGED sessVars
  PROVE  SessInv'
BY DEF sessVars, fileVars, hVars, cVars, boundVars, SessInv, SessTypeOK, LogoutIsFinal,
   StopNotMissed, SessionsKnown, LoggedOutGone, DropsAreDue, FilesAccounted, StopSeen,
   Unused, Expired

LEMMA SessInvStep == SessInv /\ [SessNext]_sessVars => SessInv'
<1> SUFFICES ASSUME SessInv, [SessNext]_sessVars PROVE SessInv'
  OBVIOUS
<1>1. CASE Tick
  BY <1>1, TickInv
<1>2. CASE \E h \in Handlers : Request(h)
  BY <1>2, LoginOpenInv, LogoutInv, AuthOpenInv DEF Request
<1>3. CASE \E h \in Handlers : HandlerStep(h)
  BY <1>3, LoginCloseInv, AuthReadInv, AuthDropInv DEF HandlerStep
<1>4. CASE CleanupStep
  BY <1>4, ScanInv, WaitInv DEF CleanupStep
<1>5. CASE MainStep \/ Signal \/ Start
  BY <1>5, MainInv DEF MainStep
<1>6. CASE Crash
  BY <1>6, CrashInv
<1>7. CASE UNCHANGED sessVars
  BY <1>7, SessInvStutter
<1> QED
  BY <1>1, <1>2, <1>3, <1>4, <1>5, <1>6, <1>7 DEF SessNext

\* The inductive invariant of the sessions holds.
THEOREM SessionInvariant == SessSpec => []SessInv
<1>1. SessInit => SessInv
  BY SessInvInit
<1>2. SessInv /\ [SessNext]_sessVars => SessInv'
  BY SessInvStep
<1> QED
  BY <1>1, <1>2, PTL DEF SessSpec

\* The sessions of AuthService keep their types, for any number of sessions and of
\* handlers, any lifetime and any number of crashes.
THEOREM SessTypeCorrect == SessSpec => []SessTypeOK
<1>1. SessInv => SessTypeOK
  BY DEF SessInv
<1> QED
  BY <1>1, SessionInvariant, PTL

\* authenticate never admits a request that began after the logout of its session had
\* returned.
THEOREM LogoutStaysFinal == SessSpec => []LogoutIsFinal
<1>1. SessInv => LogoutIsFinal
  BY DEF SessInv
<1> QED
  BY <1>1, SessionInvariant, PTL

\* Neither cleanup_expired nor authenticate removes the session of a user who has logged
\* in and not out before it expires, if login had written it when it was read.
THEOREM LiveSessionsStay == SessSpec => []LiveSessionKept
<1>1. SessInv => LiveSessionKept
  BY AccountedIsKept
<1> QED
  BY <1>1, SessionInvariant, PTL

\* The notification of AuthService::shutdown cannot miss the cleanup thread.
THEOREM StopIsNotMissed == SessSpec => []StopNotMissed
<1>1. SessInv => StopNotMissed
  BY DEF SessInv
<1> QED
  BY <1>1, SessionInvariant, PTL
=============================================================================
