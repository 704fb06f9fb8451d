------------------------------ MODULE Sessions ------------------------------
(***************************************************************************)
(* The sessions of AuthService: one file per login in session.dir, written *)
(* by login, read by every request that authenticates, unlinked by logout, *)
(* by a request that finds it expired and by the cleanup thread, which     *)
(* scans the directory when the process starts and then periodically.      *)
(*                                                                         *)
(* Nothing protects the files but the file system. A session identifier is *)
(* random and used once, so a member of Sids stands for one login and one  *)
(* inode: `linked' says that its name is in the directory, `written' that  *)
(* its content is complete. A thread that has opened the file keeps the    *)
(* inode when the name goes.                                               *)
(*                                                                         *)
(* The cleanup thread waits on a condition variable under cleanup_mutex_;  *)
(* shutdown sets stop_cleanup_ under the same mutex and notifies.          *)
(***************************************************************************)
EXTENDS Naturals, FiniteSets

CONSTANTS
  Sids,      \* session identifiers
  Handlers,  \* threads of the HTTP server
  NoSid,     \* "no session"
  Lifetime,  \* 24 hours
  MaxTime,   \* bound of the model: the last value of the clock
  MaxStops,  \* bound of the model: signals and crashes
  MaxFaults  \* bound of the model: writes that fail

ASSUME SessionsAssumption ==
  /\ NoSid \notin Sids
  /\ Lifetime \in Nat
  /\ MaxTime \in Nat \ {0}
  /\ MaxStops \in Nat /\ MaxFaults \in Nat

VARIABLES
  now,       \* the system clock, from 1
  linked,    \* sessions with a file in the directory
  written,   \* sessions whose file has its content
  expires,   \* expires_at of the content; 0 before the login
  issued,    \* sessions whose identifier login has returned
  hpc, hsid, \* handlers: program counter, the session they are about
  admitted,  \* what the last authenticate of each handler answered
  cpc, csid, \* the cleanup thread: program counter, the entry it looks at
  mustSee,   \* entries readdir must still return in this scan
  maySee,    \* entries it has not returned yet
  stopped,   \* stop_cleanup_
  main,      \* where the main thread is
  loggedOut, \* ghost: sessions whose logout has returned
  late,      \* ghost: handlers whose request began after such a logout
  cutShort,  \* ghost: sessions read by the cleanup thread before they were written,
             \* and those whose write failed
  stops, faults

fileVars  == <<linked, written, expires>>
hVars     == <<hpc, hsid, admitted, late>>
cVars     == <<cpc, csid, mustSee, maySee>>
boundVars == <<stops, faults>>
sessVars  == <<now, fileVars, issued, hVars, cVars, stopped, main, loggedOut, cutShort,
               boundVars>>

ExpiredAtLimit(s) == expires[s] <= now

\* expires_at < now
Expired(s) == expires[s] < now
-----------------------------------------------------------------------------
SessInit ==
  /\ now = 1
  /\ linked = {} /\ written = {} /\ issued = {}
  /\ expires = [s \in Sids |-> 0]
  /\ hpc = [h \in Handlers |-> "idle"]
  /\ hsid = [h \in Handlers |-> NoSid]
  /\ admitted = [h \in Handlers |-> "none"]
  /\ late = {}
  /\ cpc = "start" /\ csid = NoSid
  /\ mustSee = {} /\ maySee = {}
  /\ stopped = FALSE
  /\ main = "serving"
  /\ loggedOut = {} /\ cutShort = {}
  /\ stops = 0 /\ faults = 0

Tick ==
  /\ now < MaxTime
  /\ now' = now + 1
  /\ UNCHANGED <<fileVars, issued, hVars, cVars, stopped, main, loggedOut, cutShort,
                 boundVars>>
-----------------------------------------------------------------------------
(***************************************************************************)
(* login, logout, authenticate                                             *)
(***************************************************************************)

\* No login has drawn this identifier before.
Unused(s) == expires[s] = 0

\* The cleanup thread has the directory open.
Scanning == cpc \in {"next", "read", "drop"}

\* The password is right: the file is created, empty. Until it is closed its content
\* is in the buffer of the stream.
LoginOpen(h, s) ==
  /\ main = "serving"
  /\ hpc[h] = "idle"
  /\ Unused(s)
  /\ expires' = [expires EXCEPT ![s] = now + Lifetime]
  /\ linked' = linked \cup {s}
  /\ maySee' = IF Scanning THEN maySee \cup {s} ELSE maySee
  /\ hpc' = [hpc EXCEPT ![h] = "write"]
  /\ hsid' = [hsid EXCEPT ![h] = s]
  /\ UNCHANGED <<now, written, issued, admitted, late, cpc, csid, mustSee, stopped, main,
                 loggedOut, cutShort, boundVars>>

\* The handler is done, and keeps the session for its next request.
FinishKeepsSid(h) ==
  /\ hpc' = [hpc EXCEPT ![h] = "idle"]
  /\ UNCHANGED hsid

\* The handler is done.
Finish(h) ==
  /\ hpc' = [hpc EXCEPT ![h] = "idle"]
  /\ hsid' = [hsid EXCEPT ![h] = NoSid]

\* close() writes the content and login returns the identifier, whether the write
\* succeeded or not, and whether the file still has its name or not.
LoginClose(h) ==
  /\ hpc[h] = "write"
  /\ \/ /\ written' = written \cup {hsid[h]}
        /\ UNCHANGED <<cutShort, faults>>
     \/ /\ faults < MaxFaults
        /\ faults' = faults + 1
        /\ cutShort' = cutShort \cup {hsid[h]}
        /\ UNCHANGED written
  /\ issued' = issued \cup {hsid[h]}
  /\ Finish(h)
  /\ UNCHANGED <<now, linked, expires, admitted, late, cVars, stopped, main, loggedOut,
                 stops>>

\* The name of s leaves the directory; a scan may or may not come across it.
Unlink(s) ==
  /\ linked' = linked \ {s}
  /\ mustSee' = mustSee \ {s}

\* Logout only drops the cookie of the browser.
LogoutCookieOnly(h, s) ==
  /\ main = "serving" /\ hpc[h] = "idle" /\ s \in issued
  /\ loggedOut' = loggedOut \cup {s}
  /\ UNCHANGED <<now, fileVars, issued, hVars, cVars, stopped, main, cutShort, boundVars>>

\* logout: one unlink.
Logout(h, s) ==
  /\ main = "serving"
  /\ hpc[h] = "idle"
  /\ s \in issued
  /\ Unlink(s)
  /\ loggedOut' = loggedOut \cup {s}
  /\ UNCHANGED <<now, written, expires, issued, hVars, cpc, csid, maySee, stopped, main,
                 cutShort, boundVars>>

\* authenticate, for a cookie that login has set: the file is opened, or is not there.
AuthOpen(h, s) ==
  /\ main = "serving"
  /\ hpc[h] = "idle"
  /\ s \in issued
  /\ late' = IF s \in loggedOut THEN late \cup {h} ELSE late \ {h}
  /\ IF s \in linked
     THEN /\ hpc' = [hpc EXCEPT ![h] = "read"]
          /\ hsid' = [hsid EXCEPT ![h] = s]
          /\ admitted' = [admitted EXCEPT ![h] = "none"]
     ELSE /\ admitted' = [admitted EXCEPT ![h] = "no"]
          /\ UNCHANGED <<hpc, hsid>>
  /\ UNCHANGED <<now, fileVars, issued, cVars, stopped, main, loggedOut, cutShort, boundVars>>

\* An incomplete file is read again until it is complete.
AuthReadUntilComplete(h) ==
  /\ hpc[h] = "read"
  /\ hsid[h] \in written
  /\ \/ /\ ~Expired(hsid[h])
        /\ admitted' = [admitted EXCEPT ![h] = "yes"]
        /\ Finish(h)
     \/ /\ Expired(hsid[h])
        /\ hpc' = [hpc EXCEPT ![h] = "drop"]
        /\ UNCHANGED <<hsid, admitted>>
  /\ UNCHANGED <<now, fileVars, issued, late, cVars, stopped, main, loggedOut, cutShort,
                 boundVars>>

\* The content is parsed and compared with the clock. An incomplete file is refused
\* and left; an expired one is refused and unlinked.
AuthRead(h) ==
  /\ hpc[h] = "read"
  /\ \/ /\ hsid[h] \notin written
        /\ admitted' = [admitted EXCEPT ![h] = "no"]
        /\ Finish(h)
     \/ /\ hsid[h] \in written /\ ~Expired(hsid[h])
        /\ admitted' = [admitted EXCEPT ![h] = "yes"]
        /\ Finish(h)
     \/ /\ hsid[h] \in written /\ Expired(hsid[h])
        /\ hpc' = [hpc EXCEPT ![h] = "drop"]
        /\ UNCHANGED <<hsid, admitted>>
  /\ UNCHANGED <<now, fileVars, issued, late, cVars, stopped, main, loggedOut, cutShort,
                 boundVars>>

AuthDrop(h) ==
  /\ hpc[h] = "drop"
  /\ Unlink(hsid[h])
  /\ admitted' = [admitted EXCEPT ![h] = "no"]
  /\ Finish(h)
  /\ UNCHANGED <<now, written, expires, issued, late, cpc, csid, maySee, stopped, main,
                 loggedOut, cutShort, boundVars>>
-----------------------------------------------------------------------------
(***************************************************************************)
(* cleanup_loop and cleanup_expired                                        *)
(***************************************************************************)

\* Only the cleanup thread moves.
CGoto(pc) ==
  /\ cpc' = pc
  /\ UNCHANGED <<now, fileVars, issued, hVars, csid, mustSee, maySee, stopped, main,
                 loggedOut, cutShort, boundVars>>

\* opendir: the entries of now are returned, unless they are unlinked first; those
\* of files created during the scan may be.
ScanStart ==
  /\ cpc = "start"
  /\ cpc' = "next"
  /\ mustSee' = linked /\ maySee' = linked
  /\ UNCHANGED <<now, fileVars, issued, hVars, csid, stopped, main, loggedOut, cutShort,
                 boundVars>>

\* readdir returns s, which is opened if it is still there.
ScanEntry(s) ==
  /\ cpc = "next"
  /\ s \in maySee
  /\ mustSee' = mustSee \ {s}
  /\ maySee' = maySee \ {s}
  /\ IF s \in linked
     THEN cpc' = "read" /\ csid' = s
     ELSE UNCHANGED <<cpc, csid>>
  /\ UNCHANGED <<now, fileVars, issued, hVars, stopped, main, loggedOut, cutShort, boundVars>>

\* A file that does not parse is skipped.
DoomedIfExpired(s) == s \in written /\ Expired(s)

\* What the cleanup thread unlinks, from what it has read: a file that does not
\* parse, or one that has expired.
Doomed(s) == s \notin written \/ Expired(s)

ScanRead ==
  /\ cpc = "read"
  /\ cutShort' = cutShort \cup ({csid} \ written)
  /\ IF Doomed(csid)
     THEN cpc' = "drop" /\ UNCHANGED csid
     ELSE cpc' = "next" /\ csid' = NoSid
  /\ UNCHANGED <<now, fileVars, issued, hVars, mustSee, maySee, stopped, main, loggedOut,
                 boundVars>>

ScanDrop ==
  /\ cpc = "drop"
  /\ Unlink(csid)
  /\ cpc' = "next"
  /\ csid' = NoSid
  /\ UNCHANGED <<now, written, expires, issued, hVars, maySee, stopped, main, loggedOut,
                 cutShort, boundVars>>

\* readdir returns NULL; the thread goes for the mutex.
ScanEnd ==
  /\ cpc = "next"
  /\ mustSee = {}
  /\ cpc' = "lock"
  /\ maySee' = {}
  /\ UNCHANGED <<now, fileVars, issued, hVars, csid, mustSee, stopped, main, loggedOut,
                 cutShort, boundVars>>

\* while (!stop_cleanup_), with the mutex, which is kept until the thread waits.
TestStop ==
  /\ cpc = "lock"
  /\ CGoto(IF stopped THEN "exited" ELSE "about")

WaitFor ==
  /\ cpc = "about"
  /\ CGoto("waiting")

\* cleanup_interval_min has passed, or the thread wakes for no reason.
WaitEnds ==
  /\ cpc = "waiting"
  /\ CGoto("woken")

\* The mutex is taken again: stop, or another scan.
AfterWait ==
  /\ cpc = "woken"
  /\ CGoto(IF stopped THEN "exited" ELSE "start")
-----------------------------------------------------------------------------
(***************************************************************************)
(* The process                                                             *)
(***************************************************************************)

\* Nothing but the main thread moves.
MainGoto(from, to) ==
  /\ main = from
  /\ main' = to
  /\ UNCHANGED <<now, fileVars, issued, hVars, csid, mustSee, maySee, loggedOut, cutShort,
                 faults>>

\* A signal: no more requests.
Signal ==
  /\ stops < MaxStops
  /\ stops' = stops + 1
  /\ MainGoto("serving", "draining")
  /\ UNCHANGED <<cpc, stopped>>

\* stop_cleanup_ is set without the mutex.
StopWithoutLock ==
  /\ \A h \in Handlers : hpc[h] = "idle"
  /\ MainGoto("draining", "notifying")
  /\ stopped' = TRUE
  /\ UNCHANGED <<cpc, stops>>

\* The requests have ended: shutdown sets stop_cleanup_ under cleanup_mutex_ ...
SetStop ==
  /\ \A h \in Handlers : hpc[h] = "idle"
  /\ cpc # "about"
  /\ MainGoto("draining", "notifying")
  /\ stopped' = TRUE
  /\ UNCHANGED <<cpc, stops>>

\* ... and notifies ...
NotifyCleanup ==
  /\ MainGoto("notifying", "joining")
  /\ cpc' = IF cpc = "waiting" THEN "woken" ELSE cpc
  /\ UNCHANGED <<stopped, stops>>

\* ... and joins the thread.
Join ==
  /\ cpc = "exited"
  /\ MainGoto("joining", "down")
  /\ UNCHANGED <<cpc, stopped, stops>>

\* The process dies; a file that was being written stays as it is.
Crash ==
  /\ main # "down"
  /\ stops < MaxStops
  /\ stops' = stops + 1
  /\ main' = "down"
  /\ hpc' = [h \in Handlers |-> "idle"]
  /\ hsid' = [h \in Handlers |-> NoSid]
  /\ admitted' = [h \in Handlers |-> "none"]
  /\ late' = {}
  /\ cpc' = "exited" /\ csid' = NoSid
  /\ mustSee' = {} /\ maySee' = {}
  /\ UNCHANGED <<now, fileVars, issued, stopped, loggedOut, cutShort, faults>>

\* init: the cleanup thread is started. The sessions of the last process are valid.
Start ==
  /\ main = "down"
  /\ main' = "serving"
  /\ stopped' = FALSE
  /\ cpc' = "start"
  /\ UNCHANGED <<now, fileVars, issued, hVars, csid, mustSee, maySee, loggedOut, cutShort,
                 boundVars>>
-----------------------------------------------------------------------------
Request(h) ==
  \E s \in Sids : LoginOpen(h, s) \/ Logout(h, s) \/ AuthOpen(h, s)

HandlerStep(h) == LoginClose(h) \/ AuthRead(h) \/ AuthDrop(h)

CleanupStep ==
  \/ ScanStart \/ (\E s \in Sids : ScanEntry(s)) \/ ScanRead \/ ScanDrop \/ ScanEnd
  \/ TestStop \/ WaitFor \/ WaitEnds \/ AfterWait

MainStep == SetStop \/ NotifyCleanup \/ Join

SessNext ==
  \/ Tick
  \/ \E h \in Handlers : Request(h) \/ HandlerStep(h)
  \/ CleanupStep \/ MainStep
  \/ Signal \/ Crash \/ Start

SessSpec == SessInit /\ [][SessNext]_sessVars

\* Threads run on and the interval of the cleanup passes. A scan ends: readdir
\* returns each entry once, and a directory that grows does not hold it for ever.
FairSessSpec ==
  /\ SessSpec
  /\ WF_sessVars(CleanupStep)
  /\ WF_sessVars(NotifyCleanup \/ Join) /\ SF_sessVars(SetStop)
  /\ \A h \in Handlers : WF_sessVars(HandlerStep(h))
-----------------------------------------------------------------------------
(***************************************************************************)
(* Properties                                                              *)
(***************************************************************************)

\* The type invariant of the sessions.
SessTypeOK ==
  /\ now \in 1..MaxTime
  /\ linked \subseteq Sids /\ written \subseteq Sids /\ issued \subseteq Sids
  /\ expires \in [Sids -> 0..(MaxTime + Lifetime)]
  /\ hpc \in [Handlers -> {"idle", "write", "read", "drop"}]
  /\ hsid \in [Handlers -> Sids \cup {NoSid}]
  /\ \A h \in Handlers : hsid[h] = NoSid <=> hpc[h] = "idle"
  /\ admitted \in [Handlers -> {"none", "yes", "no"}]
  /\ late \subseteq Handlers
  /\ cpc \in {"start", "next", "read", "drop", "lock", "about", "waiting", "woken", "exited"}
  /\ csid \in Sids \cup {NoSid}
  /\ csid # NoSid <=> cpc \in {"read", "drop"}
  /\ mustSee \subseteq maySee /\ maySee \subseteq Sids
  /\ stopped \in BOOLEAN
  /\ main \in {"serving", "draining", "notifying", "joining", "down"}
  /\ loggedOut \subseteq Sids /\ cutShort \subseteq Sids
  /\ stops \in 0..MaxStops /\ faults \in 0..MaxFaults

\* A request that begins after a logout has returned is not admitted with that
\* session, whatever the cleanup thread, other requests and restarts do.
LogoutIsFinal == \A h \in Handlers : h \in late => admitted[h] # "yes"

\* A session is good up to and including the second of its expiry.
Current(s) == now <= expires[s]

\* The session of a user who has logged in and not out stays until it expires, if
\* it was written before the cleanup thread read it: neither a scan nor a request
\* removes it, and a restart keeps it. SPEC.md:226 asks for more of the scan: to wipe
\* all files, live sessions included, when their total size passes a threshold. The
\* code has no such wipe, so the property says what the code gives, not the SPEC.
LiveSessionKept ==
  \A s \in issued \ (loggedOut \cup cutShort) : Current(s) => s \in linked \cap written

\* SPEC: a user who has logged in has a session.
LoginGivesSession ==
  \A s \in issued \ loggedOut : faults = 0 /\ Current(s) => s \in linked

\* Once shutdown has notified, the cleanup thread does not wait: the process never
\* stays for an interval of the cleanup (30 minutes) after a signal.
StopNotMissed == main = "joining" => cpc \notin {"about", "waiting"}

\* What a thread looks at, what is in the directory and what has been issued stems
\* from a login; only what has been issued is logged out.
SessionsKnown ==
  /\ \A s \in linked \cup issued : ~Unused(s)
  /\ \A h \in Handlers : hsid[h] # NoSid => ~Unused(hsid[h])
  /\ csid # NoSid => ~Unused(csid)
  /\ loggedOut \subseteq issued

\* A logout leaves no file, so a request that begins later opens none.
LoggedOutGone ==
  /\ loggedOut \cap linked = {}
  /\ \A h \in late : hpc[h] \notin {"read", "drop"}

\* What a thread is about to unlink has expired, or was read before it was written.
DropsAreDue ==
  /\ \A h \in Handlers : hpc[h] = "drop" => Expired(hsid[h])
  /\ cpc = "drop" => csid \in cutShort \/ Expired(csid)

\* A file that is gone has a cause, and so has one without content after its login.
FilesAccounted ==
  /\ \A s \in Sids : ~Unused(s) => s \in linked \cup loggedOut \cup cutShort \/ Expired(s)
  /\ issued \subseteq written \cup cutShort

\* From the moment stop_cleanup_ is set, the cleanup thread does not go and wait, and
\* it has ended when the process is down.
StopSeen ==
  /\ main \in {"notifying", "joining"} => stopped /\ cpc # "about"
  /\ main = "down" => cpc = "exited"

\* The inductive invariant of the sessions.
SessInv ==
  /\ SessTypeOK /\ LogoutIsFinal /\ StopNotMissed
  /\ SessionsKnown /\ LoggedOutGone /\ DropsAreDue /\ FilesAccounted /\ StopSeen

\* A session file that has expired or will never be completed is removed, by the
\* cleanup thread of this process if not by a request; a crash in the middle of a
\* login leaves such a file for the next process.
StaleFilesRemoved ==
  \A s \in Sids :
    main = "serving" /\ s \in linked /\ (s \in written => ~Current(s))
      ~> s \notin linked \/ (s \in written /\ Current(s)) \/ main # "serving"

\* A signal ends the process.
StopCompletes == main = "draining" ~> main = "down"
=============================================================================
