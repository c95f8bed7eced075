------------------------------- MODULE LogTail -------------------------------
(***************************************************************************)
(* Streamer.Follow (internal/logs/stream.go) on a log file that grows by   *)
(* whole and partial lines, is truncated, removed and created again while  *)
(* it is followed.  Follow looks at the file in two steps, a stat and a    *)
(* read, and anything may happen to the file between them.                 *)
(*                                                                         *)
(* A line is Width characters, the last of which is its newline; a         *)
(* character says which line it belongs to.  What Follow emits is recorded *)
(* in out (the way from there to the browser is LogHub's).  Snapshot is    *)
(* tailFile (internal/http/logs.go), which reads the end of the same file  *)
(* for GET /api/logs/{which} and for the backfill of a stream.             *)
(***************************************************************************)
EXTENDS Naturals, Sequences, SequencesExt

CONSTANTS
  Width,      \* characters of a line
  MaxLines,   \* bound: lines ever written
  Events,     \* what else happens to the file: "remove", "truncate"
  MaxEvents,  \* bound: how often
  Budget,     \* characters a snapshot reads at most (512 KiB)
  MaxTail,    \* lines a snapshot returns at most
  None        \* there is no such file

\* A character is one of the line's, its newline the last of them.
Char == [line : 1..MaxLines, part : 1..Width]

\* The constants that make sense (assumed where they get their values).
TailAssumption ==
  /\ Width \in Nat \ {0, 1} /\ MaxLines \in Nat /\ MaxEvents \in Nat
  /\ Budget \in Nat \ {0} /\ MaxTail \in Nat \ {0}
  /\ Events \subseteq {"remove", "truncate"}
  /\ None \notin Seq(Char)

VARIABLES
  file,     \* what the path holds, or None
  inode,    \* its inode; a new file gets a new one
  written,  \* characters xray has written so far, to whichever file
  events,   \* the removals and truncations so far
  pc,       \* "start", "tick" (about to stat) or "read"
  pos,      \* Follow's cursor
  ino,      \* the inode it saw last
  opened,   \* it has seen the file since it was last gone
  size,     \* the size its last stat returned
  carry,    \* the partial line it carries
  out,      \* the lines it has emitted
  skipped   \* history: the last character it seeked past

vars == <<file, inode, written, events, pc, pos, ino, opened, size, carry, out, skipped>>
disk == <<file, inode, written, events>>
seen == <<pos, ino, opened, carry>>

\* The n-th character xray writes.
Nth(n) == [line |-> ((n - 1) \div Width) + 1, part |-> ((n - 1) % Width) + 1]

Number(c) == (c.line - 1) * Width + c.part

\* Line k as Follow emits it, without its newline.
Whole(k) == [i \in 1..(Width - 1) |-> [line |-> k, part |-> i]]

TypeOK ==
  /\ file = None \/ file \in Seq(Char)
  /\ inode \in Nat /\ written \in 0..(MaxLines * Width) /\ events \in Seq(Events)
  /\ pc \in {"start", "tick", "read"}
  /\ pos \in Nat /\ ino \in Nat /\ size \in Nat /\ skipped \in Nat
  /\ opened \in BOOLEAN /\ (~opened => pos = 0)
  /\ carry \in Seq(Char) /\ out \in Seq(Seq(Char))

Init ==
  /\ file \in {None, <<>>}
  /\ inode = 1
  /\ written = 0 /\ events = <<>>
  /\ pc = "start"
  /\ pos = 0 /\ ino = 0 /\ opened = FALSE /\ size = 0
  /\ carry = <<>> /\ out = <<>>
  /\ skipped = 0

-----------------------------------------------------------------------------
(* The file (external: xray, its init script, an operator's shell).        *)

\* xray appends the rest of a line or a part of it.
Write ==
  /\ file # None
  /\ written < MaxLines * Width
  /\ \E n \in 1..(Width - (written % Width)) :
       /\ file' = file \o [i \in 1..n |-> Nth(written + i)]
       /\ written' = written + n
  /\ UNCHANGED <<inode, events, pc, seen, size, out, skipped>>

\* Bound: the file is disturbed between two lines, at most MaxEvents times.
Disturb(e) ==
  /\ e \in Events
  /\ file # None
  /\ written % Width = 0
  /\ Len(events) < MaxEvents
  /\ events' = Append(events, e)
  /\ UNCHANGED <<inode, written, pc, seen, size, out, skipped>>

Unlink == Disturb("remove") /\ file' = None

\* `> /tmp/xray-error.log`.
Truncate == Disturb("truncate") /\ file' = <<>>

\* A new file at the same path.
Create ==
  /\ file = None
  /\ file' = <<>>
  /\ inode' = inode + 1
  /\ UNCHANGED <<written, events, pc, seen, size, out, skipped>>

-----------------------------------------------------------------------------
(* Follow.                                                                 *)

\* The initial stat: seek to the end of what is there.
SeekEnd ==
  /\ pc = "start"
  /\ pc' = "tick"
  /\ IF file = None
     THEN UNCHANGED <<pos, ino, opened, skipped>>
     ELSE /\ pos' = Len(file) /\ ino' = inode /\ opened' = TRUE
          /\ skipped' = written
  /\ UNCHANGED <<disk, size, carry, out>>

\* Mutant: the cursor survives the file.
GoneKeepsPos ==
  /\ pc = "tick"
  /\ file = None
  /\ carry' = <<>> /\ opened' = FALSE
  /\ UNCHANGED <<disk, pc, pos, ino, size, out, skipped>>

\* A tick, and the file is gone: start over when it comes back.
Gone ==
  /\ pc = "tick"
  /\ file = None
  /\ pos' = 0 /\ carry' = <<>> /\ opened' = FALSE
  /\ UNCHANGED <<disk, pc, ino, size, out, skipped>>

\* Mutant: only a file that shrank counts as another file.
RotatedIfShorter == ~opened \/ Len(file) < pos

\* Mutant: a file that has not grown counts as another file.
RotatedIfNotLonger == ~opened \/ Len(file) <= pos \/ (ino # 0 /\ inode # ino)

\* The stat tells that this is not the file that was read so far.
Rotated == ~opened \/ Len(file) < pos \/ (ino # 0 /\ inode # ino)

\* A tick: decide where to read from, and read if there is more.
Stat ==
  /\ pc = "tick"
  /\ file # None
  /\ IF Rotated THEN pos' = 0 /\ carry' = <<>> ELSE UNCHANGED <<pos, carry>>
  /\ opened' = TRUE /\ ino' = inode /\ size' = Len(file)
  /\ pc' = IF size' > pos' THEN "read" ELSE "tick"
  /\ UNCHANGED <<disk, out, skipped>>

\* A character ends the line it belongs to or is carried.
Feed(acc, c) ==
  IF c.part = Width
  THEN [lines |-> Append(acc.lines, acc.carry), carry |-> <<>>]
  ELSE [acc EXCEPT !.carry = Append(@, c)]

Split(partial, buf) == FoldLeft(Feed, [lines |-> <<>>, carry |-> partial], buf)

\* What ReadAt returns: at most size - pos characters, fewer if the file has
\* become shorter, none if it cannot be opened.
Chunk ==
  IF file = None THEN <<>>
  ELSE SubSeq(file, pos + 1, IF size <= Len(file) THEN size ELSE Len(file))

\* Mutant: what was carried is not prepended.
ReadNewForgets ==
  /\ pc = "read"
  /\ pc' = "tick"
  /\ pos' = pos + Len(Chunk)
  /\ LET split == Split(<<>>, Chunk)
     IN  out' = out \o split.lines /\ carry' = split.carry
  /\ UNCHANGED <<disk, ino, opened, size, skipped>>

\* The new part is read and split into lines.
ReadNew ==
  /\ pc = "read"
  /\ pc' = "tick"
  /\ pos' = pos + Len(Chunk)
  /\ LET split == Split(carry, Chunk)
     IN  out' = out \o split.lines /\ carry' = split.carry
  /\ UNCHANGED <<disk, ino, opened, size, skipped>>

-----------------------------------------------------------------------------
(* tailFile.                                                               *)

\* The lines a scanner finds in content: an unfinished last one counts.
Scanned(content) ==
  LET split == Split(<<>>, content)
  IN  split.lines \o (IF split.carry = <<>> THEN <<>> ELSE <<split.carry>>)

LastOf(lines, n) == IF Len(lines) <= n THEN lines ELSE SubSeq(lines, Len(lines) - n + 1, Len(lines))

\* Mutant: the line the window begins in is kept.
SnapshotKeepsFirst(content, length) ==
  LET offset == IF length > Budget THEN length - Budget ELSE 0
      text   == SubSeq(content, offset + 1, Len(content))
  IN  LastOf(Scanned(text), MaxTail)

\* What tailFile returns when its stat returned length and the file holds
\* content when it is read: it is read to its end, from Budget characters
\* before the end that was, and if that is not its beginning the first line
\* found is dropped.
Snapshot(content, length) ==
  LET offset == IF length > Budget THEN length - Budget ELSE 0
      text   == SubSeq(content, offset + 1, Len(content))
      found  == Scanned(text)
  IN  LastOf(IF length > Budget /\ found # <<>> THEN Tail(found) ELSE found, MaxTail)

-----------------------------------------------------------------------------
FollowStep == SeekEnd \/ Gone \/ Stat \/ ReadNew

Next == Write \/ Unlink \/ Truncate \/ Create \/ FollowStep

Spec == Init /\ [][Next]_vars

\* Follow runs; nothing is said of whoever writes, except that a log that was
\* removed is created again.
FairSpec == Spec /\ WF_vars(FollowStep) /\ WF_vars(Create)

-----------------------------------------------------------------------------
(* What Follow promises.                                                   *)

\* While the file only grows, reading it chunk by chunk emits exactly the
\* lines a single read of it would: none lost, repeated, cut in two or glued
\* to another, wherever the chunks end (stream.go:97-134).
ChunksDoNotMatter ==
  file # None /\ events = <<>> =>
    LET read == Split(<<>>, SubSeq(file, skipped + 1, pos))
    IN  out = read.lines /\ carry = read.carry

\* Lines that show the characters in the order they were written.
Ordered(lines) ==
  \A i \in DOMAIN lines : \A j \in DOMAIN lines :
    \A a \in DOMAIN lines[i] : \A b \in DOMAIN lines[j] :
      i < j \/ (i = j /\ a < b) => Number(lines[i][a]) < Number(lines[j][b])

\* Truncation never makes Follow show something twice or out of order, even a
\* truncation between its stat and its read, or one it does not notice
\* (stream.go:82-107).  (A file replaced between the stat and the read may be
\* shown twice: its inode is compared at the next tick only.)
InOrder ==
  "remove" \notin ToSet(events) =>
    Ordered(Append(out, carry))

\* A snapshot is a run of the file's last lines, none of them cut at its front
\* or skipped, also when the file grew or was truncated between the stat and
\* the read; if the file is small, all of it up to MaxTail lines
\* (logs.go:81-136).
SnapshotIsSuffix ==
  file # None =>
    \A length \in 0..(MaxLines * Width) :
      LET snapshot == Snapshot(file, length)
          lines    == Scanned(file)
      IN  /\ snapshot = LastOf(lines, Len(snapshot))
          /\ length <= Budget => snapshot = LastOf(lines, MaxTail)

\* Line k is complete in the file, behind what Follow seeked past.
InFile(k) ==
  /\ file # None
  /\ Number([line |-> k, part |-> 1]) > skipped
  /\ [line |-> k, part |-> Width] \in ToSet(file)

\* "so it survives ... procd-style rotation" (stream.go:15-18): unless the
\* file is truncated in place, a line that stays in it is emitted whole, also
\* when the file is removed between the stat and the read, or is away for so
\* short a time that no tick finds it missing.
EveryLineIsShown ==
  \A k \in 1..MaxLines :
    pc # "start" /\ InFile(k) ~>
      \/ ~InFile(k)
      \/ "truncate" \in ToSet(events)
      \/ Whole(k) \in ToSet(out)

=============================================================================
