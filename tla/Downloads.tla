------------------------------ MODULE Downloads ------------------------------
(***************************************************************************)
(* The HTTP downloader of the on-device models: a call streams a model     *)
(* into <dest>.partial, resumes what an earlier call or an earlier life of *)
(* the process left there, and renames it onto dest when it is complete.   *)
(*                                                                         *)
(* A model is a file of chunks; a build is one release of it at the URL.   *)
(* A digest is the sequence of chunks that went into the hasher.  Names    *)
(* and inodes are apart: an open handle follows the inode through a        *)
(* rename.  The server and the manager's registry are the host's.          *)
(***************************************************************************)
EXTENDS Naturals, Sequences, FiniteSetsExt

CONSTANTS
    Threads,      \* threads in download_model, all for one destination
    Builds,       \* releases that the URL may serve
    Length,       \* chunks of a build
    Attempts,     \* HTTP_MODEL_DOWNLOAD_RETRY_ATTEMPTS
    Inodes,       \* bound: files that exist at a time
    MaxFaults     \* bound: failures, crashes and new releases

ASSUME DownloadsAssumption ==
    /\ Length \in [Builds -> Nat \ {0}] /\ Attempts \in Nat \ {0}
    /\ Inodes \subseteq Nat \ {0} /\ MaxFaults \in Nat

VARIABLES
    served,       \* the build at the URL
    content,      \* content[f]: the chunks of a file
    synced,       \* the files that a power cut leaves alone
    partial, dest,    \* the files under the two names
    call,         \* call[t]: locals of download_model and run_attempt
    artifact,     \* artifact[t]: the digest that the last call returned
    faults

files == <<content, synced, partial, dest>>
vars == <<served, files, call, artifact, faults>>

NoFile == 0
Chunks == [build : Builds \cup {"none"}, index : Nat]
\* What a write past the end of a file leaves in between.
Hole == [build |-> "none", index |-> 0]

NoCall == [at |-> "idle", attempt |-> 0, existing |-> 0, hashed |-> <<>>,
           file |-> NoFile, mode |-> "append", build |-> "none", next |-> 1]
NoArtifact == <<>>

At(t, where) == call[t].at = where
Goto(t, where) == call' = [call EXCEPT ![t].at = where]

\* Mutant: one attempt too many.
RetryOnceMore(t) ==
    call' = [call EXCEPT ![t] =
        IF call[t].attempt < Attempts
        THEN [NoCall EXCEPT !.at = "stat", !.attempt = call[t].attempt + 1]
        ELSE NoCall]

\* run_attempt's error: retried while attempts are left, else returned.
Retry(t) ==
    call' = [call EXCEPT ![t] =
        IF call[t].attempt + 1 < Attempts
        THEN [NoCall EXCEPT !.at = "stat", !.attempt = call[t].attempt + 1]
        ELSE NoCall]
GiveUp(t) == call' = [call EXCEPT ![t] = NoCall]

Fault == faults < MaxFaults /\ faults' = faults + 1

-----------------------------------------------------------------------------
(* download_model and run_attempt.                                          *)

Begin(t) ==
    /\ At(t, "idle") /\ Goto(t, "stat")
    /\ artifact' = [artifact EXCEPT ![t] = NoArtifact]
    /\ UNCHANGED <<served, files, faults>>

Stat(t) ==
    /\ At(t, "stat")
    /\ LET size == IF partial = NoFile THEN 0 ELSE Len(content[partial]) IN
       call' = [call EXCEPT ![t].existing = size,
                            ![t].at = IF size = 0 THEN "send" ELSE "prime"]
    /\ UNCHANGED <<served, files, artifact, faults>>

\* Mutant: the hasher sees only what this attempt receives.
PrimeNothing(t) ==
    /\ At(t, "prime")
    /\ IF partial = NoFile THEN GiveUp(t) ELSE Goto(t, "send")
    /\ UNCHANGED <<served, files, artifact, faults>>

\* The hasher reads what is there; a partial that has gone is an error.
Prime(t) ==
    /\ At(t, "prime")
    /\ IF partial = NoFile THEN GiveUp(t)
       ELSE call' = [call EXCEPT ![t].at = "send", ![t].hashed = content[partial]]
    /\ UNCHANGED <<served, files, artifact, faults>>

\* 206, with the range that was asked for.
Resume(t) ==
    /\ At(t, "send") /\ 0 < call[t].existing /\ call[t].existing < Length[served]
    /\ call' = [call EXCEPT ![t].at = "open", ![t].mode = "append", ![t].build = served,
                            ![t].next = call[t].existing + 1]
    /\ UNCHANGED <<served, files, artifact, faults>>

\* 200: there was nothing to resume, or the server knows no ranges.
Restart(t) ==
    /\ At(t, "send")
    /\ call' = [call EXCEPT ![t].at = "open", ![t].build = served, ![t].next = 1,
          ![t].mode = IF call[t].existing > 0 THEN "truncate" ELSE "append",
          ![t].hashed = IF call[t].existing > 0 THEN <<>> ELSE @]
    /\ UNCHANGED <<served, files, artifact, faults>>

\* Mutant: the stale partial stays.
UnsatisfiableKeepsPartial(t) ==
    /\ At(t, "send") /\ call[t].existing >= Length[served]
    /\ Retry(t)
    /\ UNCHANGED <<served, files, artifact, faults>>

\* 416: the partial does not fit what is served now, and is deleted.
Unsatisfiable(t) ==
    /\ At(t, "send") /\ call[t].existing >= Length[served]
    /\ partial' = NoFile
    /\ Retry(t)
    /\ UNCHANGED <<served, content, synced, dest, artifact, faults>>

\* Network errors, 429 and 5xx are tried again; other statuses, a range that
\* was not asked for and a failing file system are not.
RequestFails(t) ==
    /\ At(t, "send") /\ Fault
    /\ Retry(t) \/ GiveUp(t)
    /\ UNCHANGED <<served, files, artifact>>

Free == Inodes \ ({partial, dest} \cup {call[t].file : t \in Threads})

\* The handle: append to the partial, or cut it to nothing; created if need be.
Open(t) ==
    /\ At(t, "open")
    /\ \E f \in IF partial = NoFile THEN Free ELSE {partial} :
        /\ partial = NoFile => \A g \in Free : f <= g
        /\ content' = IF partial = NoFile \/ call[t].mode = "truncate"
                      THEN [content EXCEPT ![f] = <<>>] ELSE content
        /\ synced' = synced \ {f}
        /\ partial' = f
        /\ call' = [call EXCEPT ![t].at = "body", ![t].file = f]
    /\ UNCHANGED <<served, dest, artifact, faults>>

\* A write at an offset of its own, past the end if the file was cut meanwhile.
Put(s, at, chunk) ==
    [i \in 1..Max({Len(s), at}) |-> IF i = at THEN chunk ELSE IF i <= Len(s) THEN s[i] ELSE Hole]

Receive(t) ==
    LET chunk == [build |-> call[t].build, index |-> call[t].next]
        file == call[t].file
    IN  /\ At(t, "body") /\ call[t].next <= Length[call[t].build]
        /\ content' = [content EXCEPT ![file] =
              IF call[t].mode = "append" THEN Append(@, chunk) ELSE Put(@, call[t].next, chunk)]
        /\ synced' = synced \ {file}
        /\ call' = [call EXCEPT ![t].hashed = Append(@, chunk), ![t].next = @ + 1]
        /\ UNCHANGED <<served, partial, dest, artifact, faults>>

\* The connection breaks, or the disk is full.
BodyBreaks(t) ==
    /\ At(t, "body") /\ Fault
    /\ Retry(t) \/ GiveUp(t)
    /\ UNCHANGED <<served, files, artifact>>

\* Mutant: no fsync before the rename.
EndBodyUnsynced(t) ==
    /\ At(t, "body") /\ call[t].next > Length[call[t].build]
    /\ Goto(t, "rename")
    /\ UNCHANGED <<served, files, artifact, faults>>

\* The end of the body, and the fsync.
EndBody(t) ==
    /\ At(t, "body") /\ call[t].next > Length[call[t].build]
    /\ synced' = synced \cup {call[t].file}
    /\ Goto(t, "rename")
    /\ UNCHANGED <<served, content, partial, dest, artifact, faults>>

\* Whatever is under the partial's name becomes the model.
Rename(t) ==
    /\ At(t, "rename") /\ GiveUp(t)
    /\ IF partial = NoFile THEN UNCHANGED <<partial, dest, artifact>>
       ELSE /\ dest' = partial /\ partial' = NoFile
            /\ artifact' = [artifact EXCEPT ![t] = call[t].hashed]
    /\ UNCHANGED <<served, content, synced, faults>>

-----------------------------------------------------------------------------
(* The world.                                                               *)

Release ==
    /\ Fault /\ served' \in Builds \ {served}
    /\ UNCHANGED <<files, call, artifact>>

Beginnings(s) == {SubSeq(s, 1, n) : n \in 0..Len(s)}

\* The process dies, or the power goes: what was not synced may be cut.
Crash ==
    /\ Fault
    /\ call' = [t \in Threads |-> NoCall]
    /\ artifact' = [t \in Threads |-> NoArtifact]
    /\ content' \in [Inodes -> UNION {Beginnings(content[f]) : f \in Inodes}]
    /\ \A f \in Inodes : content'[f] \in IF f \in synced THEN {content[f]}
                                         ELSE Beginnings(content[f])
    /\ synced' = Inodes
    /\ UNCHANGED <<served, partial, dest>>

Init ==
    /\ served \in Builds
    /\ content = [f \in Inodes |-> <<>>] /\ synced = Inodes
    /\ partial = NoFile /\ dest = NoFile
    /\ call = [t \in Threads |-> NoCall]
    /\ artifact = [t \in Threads |-> NoArtifact]
    /\ faults = 0

\* What a call does when nothing goes wrong.
Step(t) ==
    \/ Stat(t) \/ Prime(t) \/ Resume(t) \/ Restart(t) \/ Unsatisfiable(t)
    \/ Open(t) \/ Receive(t) \/ EndBody(t) \/ Rename(t)

Next ==
    \/ \E t \in Threads : Begin(t) \/ Step(t) \/ RequestFails(t) \/ BodyBreaks(t)
    \/ Release \/ Crash

Spec == Init /\ [][Next]_vars

\* A request is answered or times out, and a call runs to its end while the
\* process lives.  Nobody has to call.
FairSpec == Spec /\ \A t \in Threads : WF_vars(Step(t))

-----------------------------------------------------------------------------
(* Properties.                                                              *)

Bytes == Seq(Chunks)

Places == {"idle", "stat", "prime", "send", "open", "body", "rename"}
Calls ==
    [at : Places, attempt : 0..(Attempts - 1), existing : Nat, hashed : Bytes,
     file : Inodes \cup {NoFile}, mode : {"append", "truncate"},
     build : Builds \cup {"none"}, next : Nat \ {0}]

\* Every variable holds a value of its kind, and no call makes more attempts
\* than it may.
DownloadTypeOK ==
    /\ served \in Builds
    /\ content \in [Inodes -> Bytes] /\ synced \subseteq Inodes
    /\ partial \in Inodes \cup {NoFile} /\ dest \in Inodes \cup {NoFile}
    /\ call \in [Threads -> Calls] /\ artifact \in [Threads -> Bytes]
    /\ faults \in 0..MaxFaults

\* All chunks in their places, and none missing at the end.
Whole(s) ==
    /\ s # <<>>
    /\ \A i \in DOMAIN s : s[i].index = i
    /\ Len(s) = Length[s[Len(s)].build]

\* Whoever opens dest sees a fully written file, never a truncated one
\* (http_downloader.rs, Atomic replacement): through breaks, retries, resumes
\* of what an earlier process left, releases in between and power cuts.
DestIsWhole == dest # NoFile => Whole(content[dest])

\* The digest that a call returns is the digest of the file (the integrity
\* contract), however many attempts, resumes and restarts it was put together
\* in.
ArtifactMatchesFile ==
    \A t \in Threads : artifact[t] # NoArtifact =>
        dest # NoFile /\ artifact[t] = content[dest]

\* No leftover can wedge the model: if the host does not stop calling for
\* good, a model arrives.
ModelArrives ==
    <>[](\A t \in Threads : At(t, "idle")) \/ <>(dest # NoFile)
====
