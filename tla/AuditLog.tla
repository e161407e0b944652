------------------------------ MODULE AuditLog ------------------------------
(***************************************************************************)
(* The sidecar's audit log: Writer (Open, Record, rotate), VerifyDir and   *)
(* Prune, which main() runs in the background at every start, and the      *)
(* files they share.  The process may crash at any step.                   *)
(*                                                                         *)
(* An event is a number, given in the order of recording; it stands for    *)
(* the event's hash as well, so hashes never collide and nobody forges     *)
(* one.  A line of a file holds an event, or the bytes of a write that was *)
(* cut short.  Two rotations never fall in the same second.                *)
(***************************************************************************)
EXTENDS Naturals, Sequences, SequencesExt, FiniteSets

CONSTANTS
  MaxRecords,      \* bound: events recorded
  MaxRestarts,     \* bound: starts of the sidecar
  Faults,          \* which of "write", "sync", "rotate" may fail
  CutLines,        \* what a crash in a write may leave: some of LineKinds
  ArchivesExpire   \* TRUE if archives may get older than the retention

LineKinds == {"entry", "unended", "partial", "junk"}

ASSUME ConstantsAssumption ==
  /\ MaxRecords \in Nat /\ MaxRestarts \in Nat
  /\ Faults \subseteq {"write", "sync", "rotate"}
  /\ CutLines \subseteq LineKinds \ {"junk"}
  /\ ArchivesExpire \in BOOLEAN

VARIABLES
  archives,   \* audit-<timestamp>.log files, oldest first
  active,     \* the lines of audit.log
  exists,     \* audit.log exists
  pc,         \* "down", "ready", or a step of rotate
  file,       \* Writer.f: "nil", "open" or "closed"
  lastSeq, lastHash,   \* of the Writer
  due,        \* openedAt or bytesWritten asks for a rotation
  events,     \* events recorded so far, whether they reached the disk or not
  restarts,   \* starts so far
  checker,    \* the background goroutine: "off", "list", "read", "prune"
  listed,     \* its view after listChainFiles and the archives
  alarm,      \* it logged that the chain is broken
  acked,      \* readable events for which Record returned nil
  welded,     \* events for which Record returned nil, on an unreadable line
  causes      \* history: what has happened that may break the chain

diskVars    == <<archives, active, exists>>
writerVars  == <<file, lastSeq, lastHash, due>>
checkerVars == <<checker, listed, alarm>>
boundVars   == <<events, restarts>>
ghostVars   == <<acked, welded, causes>>
auditVars == <<diskVars, pc, writerVars, checkerVars, boundVars, ghostVars>>

Genesis == 0

Line(k, s, p, h) == [kind |-> k, seq |-> s, prev |-> p, hash |-> h]

Ended(l)    == l.kind \in {"entry", "junk"}
Parsable(l) == l.kind \in {"entry", "unended"}

\* Slip: the active file sorts before its archives.
SlipDir == IF exists THEN <<active>> \o archives ELSE archives

\* listChainFiles.
Dir == IF exists THEN Append(archives, active) ELSE archives

Readable(lines) ==
  LET good == SelectSeq(lines, Parsable) IN [i \in DOMAIN good |-> good[i].hash]

ReadEntries == Readable(FlattenSeq(Dir))

-----------------------------------------------------------------------------
(* Slips: an action below as a plausible mistake would have it.  No        *)
(* specification uses them.                                                *)

\* rotate renames the file without closing it.
SlipNoClose ==
  /\ pc = "close"
  /\ pc' = "rename"
  /\ UNCHANGED <<diskVars, writerVars, checkerVars, boundVars, ghostVars>>

\* A file that could not be renamed is truncated when it is opened again.
SlipTruncateOnReopen ==
  /\ pc = "rename" /\ "rotate" \in Faults
  /\ pc' = "ready"
  /\ file' \in {"open", "closed"}
  /\ active' = <<>>
  /\ UNCHANGED <<archives, exists, lastSeq, lastHash, due, checkerVars, boundVars, ghostVars>>

\* A new file starts a new chain.
SlipNewChain ==
  /\ pc = "reopen"
  /\ pc' = "ready"
  /\ exists' = TRUE
  /\ file' = "open" /\ lastSeq' = 0 /\ lastHash' = Genesis /\ due' = FALSE
  /\ UNCHANGED <<archives, active, checkerVars, boundVars, ghostVars>>

\* A new file goes on counting.
SlipKeepSeq ==
  /\ pc = "reopen"
  /\ pc' = "ready"
  /\ exists' = TRUE
  /\ file' = "open" /\ due' = FALSE
  /\ UNCHANGED <<archives, active, lastSeq, lastHash, checkerVars, boundVars, ghostVars>>

-----------------------------------------------------------------------------
(* verifyFile and VerifyDir.                                               *)

\* An unparsable last line is tolerated.
Verified(f) == IF f # <<>> /\ ~Parsable(Last(f)) THEN Front(f) ELSE f

ChainOK(lines, start) ==
  \A i \in DOMAIN lines :
    /\ Parsable(lines[i])
    /\ lines[i].prev = IF i = 1 THEN start ELSE lines[i - 1].hash

EndHash(lines, start) == IF lines = <<>> THEN start ELSE Last(lines).hash

Chain(files) == FlattenSeq([i \in DOMAIN files |-> Verified(files[i])])

VerifyDir == ChainOK(Chain(Dir), Genesis)

-----------------------------------------------------------------------------
(* Open: readTail stops at the first line it cannot parse, and             *)
(* truncatePartialTail drops what follows the last newline.                *)

Decoded(f) ==
  LET bad == {i \in DOMAIN f : ~Parsable(f[i])}
  IN IF bad = {} THEN f
     ELSE SubSeq(f, 1, (CHOOSE i \in bad : \A j \in bad : i <= j) - 1)

TailSeq(f)  == IF Decoded(f) = <<>> THEN 0 ELSE Last(Decoded(f)).seq
TailHash(f) == EndHash(Decoded(f), Genesis)

Repaired(f) == IF f # <<>> /\ ~Ended(Last(f)) THEN Front(f) ELSE f

\* O_APPEND: the bytes of a line follow those of an unended one.
AppendTo(f, l) ==
  IF f = <<>> \/ Ended(Last(f)) THEN Append(f, l)
  ELSE Append(Front(f), [l EXCEPT !.kind = IF l.kind = "entry" THEN "junk" ELSE "partial"])

Welds(f) == f # <<>> /\ ~Ended(Last(f))

-----------------------------------------------------------------------------
AuditInit ==
  /\ archives = <<>> /\ active = <<>> /\ exists = FALSE
  /\ pc = "down" /\ file = "nil"
  /\ lastSeq = 0 /\ lastHash = Genesis /\ due = FALSE
  /\ events = 0 /\ restarts = 0
  /\ checker = "off" /\ alarm = FALSE
  /\ listed = [ok |-> TRUE, hash |-> Genesis, active |-> FALSE]
  /\ acked = {} /\ welded = {} /\ causes = {}

Restart ==
  /\ pc = "down" /\ restarts < MaxRestarts
  /\ restarts' = restarts + 1
  /\ pc' = "ready"
  /\ checker' = "list"
  /\ alarm' = FALSE

OpenWriter ==
  /\ Restart
  /\ file' = "open"
  /\ lastSeq' = TailSeq(active) /\ lastHash' = TailHash(active)
  /\ active' = Repaired(active) /\ exists' = TRUE
  /\ due' = (due /\ Decoded(active) # <<>>)
  /\ causes' = causes
       \cup (IF TailHash(active) = Genesis /\ Chain(archives) # <<>> THEN {"rotated"} ELSE {})
       \cup (IF Welds(active) /\ Parsable(Last(active)) THEN {"unended"} ELSE {})
  /\ UNCHANGED <<archives, listed, events, acked, welded>>

\* Open fails: NewNoop, and no trail until the next start.
OpenNoop ==
  /\ Restart
  /\ file' = "nil"
  /\ UNCHANGED <<diskVars, lastSeq, lastHash, due, listed, events, ghostVars>>

Crash ==
  /\ pc # "down"
  /\ pc' = "down" /\ file' = "nil" /\ checker' = "off"
  /\ UNCHANGED <<diskVars, lastSeq, lastHash, due, listed, alarm, boundVars, ghostVars>>

-----------------------------------------------------------------------------
(* Record, under Writer.mu.  Without an open file it returns an error and  *)
(* changes nothing.                                                        *)

Recording ==
  /\ pc = "ready" /\ file = "open" /\ events < MaxRecords
  /\ events' = events + 1

NewLine(k) == Line(k, lastSeq + 1, lastHash, events + 1)

RecordEvent ==
  /\ Recording
  /\ active' = AppendTo(active, NewLine("entry"))
  /\ lastSeq' = lastSeq + 1 /\ lastHash' = events + 1
  /\ pc' = IF due THEN "close" ELSE "ready"
  /\ IF Welds(active)
     THEN welded' = welded \cup {events + 1} /\ causes' = causes \cup {"welded"}
          /\ UNCHANGED acked
     ELSE acked' = acked \cup {events + 1} /\ UNCHANGED <<welded, causes>>
  /\ UNCHANGED <<archives, exists, file, due, checkerVars, restarts>>

\* The disk takes none or only some of the bytes.
WriteFails ==
  /\ "write" \in Faults /\ Recording
  /\ active' \in {active, AppendTo(active, NewLine("partial"))}
  /\ UNCHANGED <<archives, exists, pc, writerVars, checkerVars, restarts, ghostVars>>

\* The line is in the file, but seq and hash are not advanced.
SyncFails ==
  /\ "sync" \in Faults /\ Recording
  /\ active' = AppendTo(active, NewLine("entry"))
  /\ causes' = causes \cup {"unsynced"}
  /\ UNCHANGED <<archives, exists, pc, writerVars, checkerVars, restarts, acked, welded>>

CrashInWrite ==
  /\ Recording
  /\ \E k \in CutLines : active' = AppendTo(active, NewLine(k))
  /\ pc' = "down" /\ file' = "nil" /\ checker' = "off"
  /\ causes' = IF Welds(active) THEN causes \cup {"welded"} ELSE causes
  /\ UNCHANGED <<archives, exists, lastSeq, lastHash, due, listed, alarm, restarts,
                 acked, welded>>

\* The file gets 30 days old or 50 MB large.
GrowOld ==
  /\ pc = "ready" /\ ~due
  /\ due' = TRUE
  /\ UNCHANGED <<diskVars, pc, file, lastSeq, lastHash, checkerVars, boundVars, ghostVars>>

-----------------------------------------------------------------------------
(* rotate.                                                                 *)

Close ==
  /\ pc = "close"
  /\ file' = "closed"
  /\ pc' \in {"rename"} \cup (IF "rotate" \in Faults THEN {"ready"} ELSE {})
  /\ UNCHANGED <<diskVars, lastSeq, lastHash, due, checkerVars, boundVars, ghostVars>>

Rename ==
  /\ pc = "rename"
  /\ pc' = "reopen"
  /\ archives' = Append(archives, active)
  /\ active' = <<>> /\ exists' = FALSE
  /\ causes' = IF checker = "read" /\ listed.active THEN causes \cup {"overlap"} ELSE causes
  /\ UNCHANGED <<writerVars, checkerVars, boundVars, acked, welded>>

\* The old file is opened again, unless that fails too.
RenameFails ==
  /\ pc = "rename" /\ "rotate" \in Faults
  /\ pc' = "ready"
  /\ file' \in {"open", "closed"}
  /\ UNCHANGED <<diskVars, lastSeq, lastHash, due, checkerVars, boundVars, ghostVars>>

Reopen ==
  /\ pc = "reopen"
  /\ pc' = "ready"
  /\ exists' = TRUE
  /\ file' = "open" /\ lastSeq' = 0 /\ due' = FALSE
  /\ UNCHANGED <<archives, active, lastHash, checkerVars, boundVars, ghostVars>>

ReopenFails ==
  /\ pc = "reopen" /\ "rotate" \in Faults
  /\ pc' = "ready"
  /\ UNCHANGED <<diskVars, writerVars, checkerVars, boundVars, ghostVars>>

-----------------------------------------------------------------------------
(* The goroutine of main(): VerifyDir, then Prune.  An archive does not    *)
(* change once it is listed; the active file is read when its turn comes.  *)

ListFiles ==
  /\ checker = "list"
  /\ checker' = "read"
  /\ listed' = [ok     |-> ChainOK(Chain(archives), Genesis),
                hash   |-> EndHash(Chain(archives), Genesis),
                active |-> exists]
  /\ UNCHANGED <<diskVars, pc, writerVars, alarm, boundVars, ghostVars>>

\* Slip: the active file is checked on its own, as Verify does.
SlipVerifyAlone ==
  /\ checker = "read"
  /\ checker' = "prune"
  /\ alarm' = ~ (listed.ok /\ (listed.active => ChainOK(Verified(active), Genesis)))
  /\ UNCHANGED <<diskVars, pc, writerVars, listed, boundVars, ghostVars>>

\* The active file is verified from where the archives ended when listed.
ReadActive ==
  /\ checker = "read"
  /\ checker' = "prune"
  /\ alarm' = ~ /\ listed.ok
                /\ listed.active => ChainOK(Verified(active), listed.hash)
  /\ UNCHANGED <<diskVars, pc, writerVars, listed, boundVars, ghostVars>>

\* Old archives go, oldest first, except those that cannot be deleted.
Prune ==
  /\ checker = "prune"
  /\ checker' = "off"
  /\ \E gone \in SUBSET (IF ArchivesExpire THEN DOMAIN archives ELSE {}) :
       /\ archives' = [i \in 1 .. Len(archives) - Cardinality(gone) |->
            archives[CHOOSE j \in DOMAIN archives \ gone :
                       Cardinality({h \in DOMAIN archives \ gone : h < j}) = i - 1]]
       /\ acked' = acked \ UNION {ToSet(Readable(archives[i])) : i \in gone}
       /\ causes' = IF gone = {} THEN causes ELSE causes \cup {"pruned"}
  /\ UNCHANGED <<active, exists, pc, writerVars, listed, alarm, boundVars, welded>>

-----------------------------------------------------------------------------
Rotate == Close \/ Rename \/ RenameFails \/ Reopen \/ ReopenFails

AuditNext ==
  \/ OpenWriter \/ OpenNoop \/ Crash
  \/ RecordEvent \/ WriteFails \/ SyncFails \/ CrashInWrite \/ GrowOld
  \/ Rotate
  \/ ListFiles \/ ReadActive \/ Prune

AuditSpec == AuditInit /\ [][AuditNext]_auditVars

-----------------------------------------------------------------------------
Lines == [kind : LineKinds, seq : Nat, prev : Nat, hash : Nat]

AuditTypeOK ==
  /\ archives \in Seq(Seq(Lines)) /\ active \in Seq(Lines)
  /\ exists \in BOOLEAN
  /\ pc \in {"down", "ready", "close", "rename", "reopen"}
  /\ file \in {"nil", "open", "closed"}
  /\ lastSeq \in Nat /\ lastHash \in Nat /\ due \in BOOLEAN
  /\ events \in Nat /\ restarts \in Nat
  /\ checker \in {"off", "list", "read", "prune"}
  /\ listed \in [ok : BOOLEAN, hash : Nat, active : BOOLEAN]
  /\ alarm \in BOOLEAN
  /\ acked \subseteq 1 .. events /\ welded \subseteq 1 .. events
  /\ causes \subseteq {"rotated", "unended", "welded", "unsynced", "overlap", "pruned"}
  /\ ~exists => active = <<>>
  /\ file = "open" => exists

-----------------------------------------------------------------------------
(* Properties.                                                             *)

Trail == INSTANCE AuditTrail
           WITH Events <- 1 .. MaxRecords, trail <- ReadEntries, acked <- acked

\* What ReadEntries returns changes as AuditTrail says: no rotation, crash,
\* repair or failed write loses, duplicates or reorders an event that Record
\* reported (one welded to a torn line excepted, which is never readable).
ImplementsTrail == Trail!Spec

\* Everything Record reported can be read back until it expires, and no event
\* is in the files twice.
NothingLost == Trail!Kept

\* VerifyDir accepts the log of a sidecar that crashed, restarted and rotated,
\* unless one of the known causes occurred: a start right after a rotation, an
\* expired archive, a crash that left all but a newline, a torn or unsynced
\* write.
ChainVerifies == causes \subseteq {"overlap"} => VerifyDir

\* The background check warns of tampering only for one of those causes, or if
\* a rotation renamed the file between its listing and its reading.
AlarmExplained == alarm => causes # {}

\* The seq of a line is its position in its file.
SeqIsPosition ==
  causes \cap {"unended", "welded", "unsynced"} = {} =>
    \A i \in DOMAIN Dir : \A j \in DOMAIN Verified(Dir[i]) : Dir[i][j].seq = j

\* The state of the writer and what it says of its files.
WriterSound == AuditTypeOK /\ NothingLost /\ SeqIsPosition

\* What must be true of the log at any time.
AuditTrue == WriterSound /\ ChainVerifies /\ AlarmExplained

\* audit.go, rotate: "the hash chain stays continuous across the rotation
\* boundary (see VerifyDir)".
ChainContinuous == VerifyDir

=============================================================================
