-------------------------- MODULE CredentialStore --------------------------
(***************************************************************************)
(* A service's key on disk (lib/credential-fs.mjs): commands that replace  *)
(* or remove it, and a daemon that reads it for each call and keeps the    *)
(* answer of `icacls` (lib/credential-acl-cache.mjs) but never the key.    *)
(*                                                                         *)
(* The volume folds case: references that differ only in case name one     *)
(* file, and the file kept here is that one.  A file's ACL cannot change   *)
(* without its change time moving, which `stamp` numbers.  Windows only;   *)
(* elsewhere the mode comes with the same lstat.                           *)
(***************************************************************************)
EXTENDS Naturals

CONSTANTS Savers,    \* commands that store a key
          Readers,    \* the daemon's reads under way at once
          Spellings,  \* references that differ only in case
          Values,     \* keys
          MaxStamps,  \* changes of the file
          MaxSnags    \* failures of a command, a lockdown or a crash

None == "none"

\* The sentinel is no command, no spelling of a reference and no key.
CredAssumption == None \notin Savers /\ None \notin Spellings /\ None \notin Values

NoFile == [name |-> None, key |-> None, acl |-> None, by |-> None, node |-> 0, stamp |-> 0]
NoTemp == [key |-> None, acl |-> None]
Quiet == [stage |-> "idle", ref |-> None, key |-> None, saw |-> None]
Unread == [stage |-> "idle", env |-> None, node |-> 0, stamp |-> 0, asks |-> None, text |-> None, key |-> None]
NoEntry == [node |-> 0, stamp |-> 0, by |-> None, text |-> None]

VARIABLES
  root,      \* the directory's ACL: "absent", "wide" or "private"
  keyFile,   \* the file under the folded name
  temps,     \* the file each writer has staged
  writer,    \* where each writer is, and what it saw when it looked for collisions
  reader,    \* where each read is
  entry,     \* the daemon's one cache entry
  clock,     \* nodes and stamps given out
  snags,
  privates   \* (history) the stamps at which the file was private

storeVars == <<root, keyFile, temps, writer, reader, entry, clock, snags, privates>>

StoreInit ==
  /\ root \in {"absent", "wide"}
  /\ keyFile = NoFile
  /\ temps = [w \in Savers |-> NoTemp]
  /\ writer = [w \in Savers |-> Quiet]
  /\ reader = [r \in Readers |-> Unread]
  /\ entry = NoEntry
  /\ clock = 0 /\ snags = 0 /\ privates = {}

\* Nobody but the owner and the system may read it.
IsPrivate(acl) == acl = "private"

\* The file as it is from now on.
Becomes(f) ==
  /\ clock < MaxStamps
  /\ clock' = clock + 1
  /\ keyFile' = [f EXCEPT !.stamp = clock + 1]
  /\ privates' = IF IsPrivate(f.acl) THEN privates \cup {clock + 1} ELSE privates

Slip == snags < MaxSnags /\ snags' = snags + 1
ToStage(w, stage) == writer' = [writer EXCEPT ![w].stage = stage]
readSide == <<reader, entry>>

----------------------------------------------------------------------------
(* Storing a key. *)

\* The directory is made and locked down, and what it became is read back: a
\* lockdown that reports success is not the proof.
RootProven(acl) == IsPrivate(acl)

\* A command is given a reference and a key.
EnsuresRoot(w) ==
  /\ writer[w].stage = "idle"
  /\ \/ root' = "private" /\ UNCHANGED snags
     \/ Slip /\ root' = IF root = "private" THEN root ELSE "wide"
  /\ IF RootProven(root')
     THEN \E s \in Spellings, v \in Values : writer' = [writer EXCEPT ![w] = [Quiet EXCEPT !.stage = "scan", !.ref = s, !.key = v]]
     ELSE UNCHANGED writer
  /\ UNCHANGED <<keyFile, temps, clock, privates, readSide>>

\* A file whose name differs only in case is another service's key.
\* (Mutant: the lookup by name is taken for the listing.)
CollidesNever(f, ref) == FALSE
Collides(f, ref) == f # NoFile /\ f.name # ref

Scans(w) ==
  /\ writer[w].stage = "scan"
  /\ writer' = [writer EXCEPT ![w] = IF Collides(keyFile, @.ref) THEN Quiet ELSE [@ EXCEPT !.stage = "stage", !.saw = keyFile.name]]
  /\ UNCHANGED <<root, keyFile, temps, clock, snags, privates, readSide>>

\* The key is written and flushed under another name, with the entries a new
\* file gets, and locked down there; a lockdown may report success and leave
\* an entry.
Stages(w) ==
  /\ writer[w].stage = "stage"
  /\ \/ temps' = [temps EXCEPT ![w] = [key |-> writer[w].key, acl |-> "private"]] /\ UNCHANGED snags
     \/ Slip /\ temps' = [temps EXCEPT ![w] = [key |-> writer[w].key, acl |-> "wide"]]
  /\ ToStage(w, "rename")
  /\ UNCHANGED <<root, keyFile, clock, privates, readSide>>

\* Custody first, then the bytes, through the reader's own check.
StagedIsGood(t, key) == IsPrivate(t.acl) /\ t.key = key

\* Proven, the staged file takes the name: one that is there already may keep
\* its spelling, and the reading back that follows changes nothing.  Not
\* proven, it is removed.
Renames(w) ==
  /\ writer[w].stage = "rename"
  /\ IF StagedIsGood(temps[w], writer[w].key)
     THEN \E name \in {writer[w].ref} \cup (IF keyFile = NoFile THEN {} ELSE {keyFile.name}) :
            Becomes([name |-> name, key |-> temps[w].key, acl |-> temps[w].acl, by |-> w, node |-> clock + 1, stamp |-> 0])
     ELSE UNCHANGED <<keyFile, clock, privates>>
  /\ temps' = [temps EXCEPT ![w] = NoTemp]
  /\ writer' = [writer EXCEPT ![w] = Quiet]
  /\ UNCHANGED <<root, snags, readSide>>

\* Any step before the rename fails: what was staged is removed, if it can be.
Abandons(w) ==
  /\ writer[w].stage \in {"stage", "rename"} /\ Slip
  /\ \E left \in {NoTemp, temps[w]} : temps' = [temps EXCEPT ![w] = left]
  /\ writer' = [writer EXCEPT ![w] = Quiet]
  /\ UNCHANGED <<root, keyFile, clock, privates, readSide>>

\* `credential remove`: the file goes whatever its spelling.
Removes ==
  /\ keyFile # NoFile
  /\ keyFile' = NoFile
  /\ UNCHANGED <<root, temps, writer, clock, snags, privates, readSide>>

\* Somebody changes the ACL, or puts a file there by hand.
Others ==
  /\ \/ /\ keyFile # NoFile
        /\ \E acl \in {"wide", "private"} \ {keyFile.acl} : Becomes([keyFile EXCEPT !.acl = acl, !.by = None])
     \/ /\ root # "absent"
        /\ \E v \in Values, s \in Spellings :
             Becomes([name |-> s, key |-> v, acl |-> "wide", by |-> None, node |-> clock + 1, stamp |-> 0])
  /\ UNCHANGED <<root, temps, writer, snags, readSide>>

----------------------------------------------------------------------------
(* Reading it. *)

writeSide == <<root, keyFile, temps, writer, clock, privates>>

\* A call needs the key, and the operator may have exported one too: the file
\* is looked at under its true name.  No file, or another spelling, is a fault.
Stats(r) ==
  /\ reader[r].stage = "idle"
  /\ \E s \in Spellings, e \in Values \cup {None} :
       reader' = [reader EXCEPT ![r] = IF keyFile.name = s
                                         THEN [Unread EXCEPT !.stage = "acl", !.env = e, !.node = keyFile.node, !.stamp = keyFile.stamp]
                                         ELSE Unread]
  /\ UNCHANGED <<writeSide, entry, snags>>

\* The kept answer serves the file it was asked for, unchanged since.
Serves(e, n, s) == e.node = n /\ e.stamp = s

AsksAcl(r) ==
  /\ reader[r].stage = "acl"
  /\ IF entry # NoEntry /\ Serves(entry, reader[r].node, reader[r].stamp)
     THEN /\ reader' = [reader EXCEPT ![r].stage = IF entry.text = None THEN "waits" ELSE "judge",
                                      ![r].asks = entry.by, ![r].text = entry.text]
          /\ UNCHANGED entry
     ELSE /\ entry' = [node |-> reader[r].node, stamp |-> reader[r].stamp, by |-> r, text |-> None]
          /\ reader' = [reader EXCEPT ![r].stage = "waits", ![r].asks = r]
  /\ UNCHANGED <<writeSide, snags>>

\* icacls answers for the file as it is now, to every read that waits on this
\* question; an answer that is nothing refuses them and is not kept.
Keeps(text) == text # "unknown"

IcaclsAnswers(r) ==
  /\ reader[r].stage = "waits" /\ reader[r].asks = r
  /\ \E text \in {"unknown", keyFile.acl} \ {None} :
       /\ IF text = "unknown" /\ keyFile # NoFile THEN Slip ELSE UNCHANGED snags
       /\ reader' = [q \in Readers |-> IF reader[q].stage = "waits" /\ reader[q].asks = r
                                         THEN [reader[q] EXCEPT !.stage = "judge", !.text = text] ELSE reader[q]]
       /\ entry' = IF entry.by = r /\ entry.text = None
                   THEN (IF Keeps(text) THEN [entry EXCEPT !.text = text] ELSE NoEntry)
                   ELSE entry
  /\ UNCHANGED writeSide

\* A minute passes over the kept answer.
Expires ==
  /\ entry.text \notin {None}
  /\ entry' = NoEntry
  /\ UNCHANGED <<writeSide, reader, snags>>

\* The key to present: the file's, unless the environment names another.  A
\* fault of the file is never answered with the environment's key.
Presents(env, ok, key) == IF ok /\ env \in {None, key} THEN key ELSE None

\* Custody was judged; the bytes are read now, of whatever file is there now.
Judges(r) ==
  /\ reader[r].stage = "judge"
  /\ reader' = [reader EXCEPT ![r].stage = "idle", ![r].key = Presents(reader[r].env, IsPrivate(reader[r].text) /\ keyFile # NoFile, keyFile.key)]
  /\ UNCHANGED <<writeSide, entry, snags>>

StoreNext ==
  \/ \E w \in Savers :
       EnsuresRoot(w) \/ Scans(w) \/ Stages(w) \/ Renames(w) \/ Abandons(w)
  \/ Removes \/ Others
  \/ \E r \in Readers : Stats(r) \/ AsksAcl(r) \/ IcaclsAnswers(r) \/ Judges(r)
  \/ Expires

StoreSpec == StoreInit /\ [][StoreNext]_storeVars

----------------------------------------------------------------------------
(* Properties. *)

\* No command's key is on disk outside a private directory, and under the
\* service's name it is private from its first moment.
KeysStayPrivate ==
  /\ \A w \in Savers : temps[w] # NoTemp => root = "private"
  /\ keyFile.by \in Savers => keyFile.acl = "private"

\* A key is presented only for a file that was private when it was looked at,
\* or has been since; and never against what the environment says, nor in
\* place of a file that cannot be used.
PresentedWasPrivate ==
  \A r \in Readers :
    reader[r].key # None =>
      /\ \E s \in privates : s >= reader[r].stamp
      /\ reader[r].stamp > 0 /\ reader[r].env \in {None, reader[r].key}

\* A question that was not answered does not refuse the reads that ask later.
RefusalsPass == entry.text # "unknown"

\* A command replaces another service's key only if that key was stored after
\* it looked.
OthersKeysSurvive ==
  \A w \in Savers :
    keyFile # NoFile /\ keyFile'.by = w /\ keyFile'.node # keyFile.node /\ keyFile.name # writer[w].ref
      => writer[w].saw # keyFile.name

CredentialsAreKept == [][KeysStayPrivate' /\ PresentedWasPrivate' /\ RefusalsPass' /\ OthersKeysSurvive]_storeVars
=============================================================================
