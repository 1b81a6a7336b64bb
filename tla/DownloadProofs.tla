---------------------------- MODULE DownloadProofs ----------------------------
(* What the downloader leaves at dest and returns, for any builds, lengths,  *)
(* attempts and faults: the types for any number of calls at a time, the     *)
(* file and its digest for one.                                              *)
EXTENDS Downloads, SequenceTheorems, TLAPS

-----------------------------------------------------------------------------
(* Types.                                                                   *)

LEMMA NoCallTyped == NoCall \in Calls
BY DownloadsAssumption DEF NoCall, Calls, Places, Bytes

\* The step of a call keeps its record typed.
LEMMA GotoTyped ==
    ASSUME NEW c \in Calls, NEW where \in Places
    PROVE  /\ [c EXCEPT !.at = where] \in Calls
           /\ [c EXCEPT !.at = where].at = where
           /\ [c EXCEPT !.at = where].existing = c.existing
           /\ [c EXCEPT !.at = where].hashed = c.hashed
           /\ [c EXCEPT !.at = where].file = c.file
           /\ [c EXCEPT !.at = where].mode = c.mode
           /\ [c EXCEPT !.at = where].build = c.build
           /\ [c EXCEPT !.at = where].next = c.next
BY DEF Calls

LEMMA RetryTyped ==
    ASSUME DownloadTypeOK, NEW t \in Threads, Retry(t) \/ GiveUp(t)
    PROVE  /\ call' \in [Threads -> Calls]
           /\ call'[t].at \in {"idle", "stat"} /\ call'[t].existing = 0
           /\ call'[t].hashed = <<>> /\ call'[t].file = NoFile
           /\ \A u \in Threads : u # t => call'[u] = call[u]
<1> USE DEF DownloadTypeOK
<1>1. NoCall \in Calls
  BY NoCallTyped
<1>2. call[t].attempt \in 0..(Attempts - 1)
  BY DEF Calls
<1>3. CASE Retry(t) /\ call[t].attempt + 1 < Attempts
  <2> DEFINE c == [NoCall EXCEPT !.at = "stat", !.attempt = call[t].attempt + 1]
  <2>1. call' = [call EXCEPT ![t] = c]
    BY <1>3 DEF Retry
  <2>2. call[t].attempt + 1 \in 0..(Attempts - 1)
    BY <1>2, <1>3, DownloadsAssumption
  <2>3. c \in Calls
    BY <1>1, <2>2 DEF Calls, Places
  <2>4. c.at = "stat" /\ c.existing = 0 /\ c.hashed = <<>> /\ c.file = NoFile
    BY DEF NoCall
  <2> HIDE DEF c
  <2>5. QED
    BY <2>1, <2>3, <2>4
<1>4. CASE call' = [call EXCEPT ![t] = NoCall]
  <2>1. NoCall.at = "idle" /\ NoCall.existing = 0 /\ NoCall.hashed = <<>> /\ NoCall.file = NoFile
    BY DEF NoCall
  <2>2. QED
    BY <1>1, <1>4, <2>1
<1>5. QED
  BY <1>3, <1>4 DEF Retry, GiveUp

LEMMA MaxOfTwo ==
    ASSUME NEW m \in Nat, NEW n \in Nat
    PROVE  Max({m, n}) = IF m <= n THEN n ELSE m
BY DEF Max

LEMMA PutTyped ==
    ASSUME NEW s \in Bytes, NEW at \in Nat \ {0}, NEW chunk \in Chunks
    PROVE  Put(s, at, chunk) \in Bytes
<1> DEFINE n == Max({Len(s), at})
<1>1. n \in Nat
  BY MaxOfTwo, LenProperties DEF Bytes
<1> HIDE DEF n
<1>2. \A i \in 1..n : (IF i = at THEN chunk ELSE IF i <= Len(s) THEN s[i] ELSE Hole)
                         \in Chunks
  <2>1. Hole \in Chunks
    BY DEF Hole, Chunks
  <2>2. \A i \in 1..n : i <= Len(s) => s[i] \in Chunks
    BY <1>1, ElementOfSeq, LenProperties DEF Bytes
  <2>3. QED
    BY <2>1, <2>2
<1>3. Put(s, at, chunk) =
        [i \in 1..n |-> IF i = at THEN chunk ELSE IF i <= Len(s) THEN s[i] ELSE Hole]
  BY DEF Put, n
<1>4. QED
  BY <1>1, <1>2, <1>3 DEF Bytes

\* Where bytes arrive there is a handle.
HandleInv == \A t \in Threads : call[t].at \in {"body", "rename"} => call[t].file \in Inodes

TypeInv == DownloadTypeOK /\ HandleInv

LEMMA TypesInit == Init => TypeInv
BY NoCallTyped, DownloadsAssumption DEF Init, TypeInv, HandleInv, DownloadTypeOK, Bytes, NoArtifact, NoFile, NoCall

LEMMA TypesAsk ==
    ASSUME DownloadTypeOK, NEW t \in Threads,
           Begin(t) \/ Stat(t) \/ Prime(t) \/ Resume(t) \/ Restart(t)
    PROVE  DownloadTypeOK'
<1> DEFINE c == call[t]
<1>1. c \in Calls /\ c.hashed \in Bytes /\ c.existing \in Nat
  BY DEF DownloadTypeOK, Calls
<1>2. <<>> \in Bytes
  BY DEF Bytes
<1>3. UNCHANGED <<served, content, synced, partial, dest, faults>>
  BY DEF Begin, Stat, Prime, Resume, Restart, files
<1>4. artifact' \in [Threads -> Bytes]
  BY <1>2 DEF DownloadTypeOK, Begin, Stat, Prime, Resume, Restart, NoArtifact
<1>5. \E r \in Calls : call' = [call EXCEPT ![t] = r]
  <2>1. CASE Begin(t)
    BY <1>1, <2>1, GotoTyped DEF Begin, Goto, Places
  <2>2. CASE Stat(t)
    <3> DEFINE size == IF partial = NoFile THEN 0 ELSE Len(content[partial])
               where == IF size = 0 THEN "send" ELSE "prime"
    <3>1. size \in Nat
      BY LenProperties DEF DownloadTypeOK, Bytes
    <3>2. call' = [call EXCEPT ![t] = [c EXCEPT !.existing = size, !.at = where]]
      BY <2>2 DEF Stat
    <3>3. where \in Places
      BY DEF Places
    <3> HIDE DEF size, where
    <3>4. [c EXCEPT !.existing = size, !.at = where] \in Calls
      BY <1>1, <3>1, <3>3 DEF Calls
    <3>5. QED
      BY <3>2, <3>4
  <2>3. CASE Prime(t)
    <3>1. CASE partial = NoFile
      BY <2>3, <3>1, NoCallTyped DEF Prime, GiveUp
    <3>2. CASE partial # NoFile
      <4>1. content[partial] \in Bytes
        BY <3>2 DEF DownloadTypeOK
      <4>2. call' = [call EXCEPT ![t] = [c EXCEPT !.at = "send", !.hashed = content[partial]]]
        BY <2>3, <3>2 DEF Prime
      <4>3. [c EXCEPT !.at = "send", !.hashed = content[partial]] \in Calls
        BY <1>1, <4>1 DEF Calls, Places
      <4>4. QED
        BY <4>2, <4>3
    <3>3. QED
      BY <3>1, <3>2
  <2>4. CASE Resume(t)
    <3>1. call' = [call EXCEPT ![t] = [c EXCEPT !.at = "open", !.mode = "append",
                                                !.build = served, !.next = c.existing + 1]]
      BY <2>4 DEF Resume
    <3>2. [c EXCEPT !.at = "open", !.mode = "append", !.build = served,
                    !.next = c.existing + 1] \in Calls
      <4>1. served \in Builds /\ c.existing + 1 \in Nat \ {0} /\ "open" \in Places
        BY <1>1 DEF DownloadTypeOK, Places
      <4> HIDE DEF c
      <4>2. QED
        BY <1>1, <4>1 DEF Calls
    <3>3. QED
      BY <3>1, <3>2
  <2>5. CASE Restart(t)
    <3> DEFINE mode == IF c.existing > 0 THEN "truncate" ELSE "append"
               hashed == IF c.existing > 0 THEN <<>> ELSE c.hashed
    <3>1. call' = [call EXCEPT ![t] = [c EXCEPT !.at = "open", !.build = served, !.next = 1,
                                                !.mode = mode, !.hashed = hashed]]
      BY <2>5 DEF Restart
    <3>2. mode \in {"append", "truncate"} /\ hashed \in Bytes
      BY <1>1, <1>2
    <3> HIDE DEF mode, hashed
    <3>3. [c EXCEPT !.at = "open", !.build = served, !.next = 1,
                    !.mode = mode, !.hashed = hashed] \in Calls
      <4>1. served \in Builds /\ 1 \in Nat \ {0} /\ "open" \in Places
        BY DEF DownloadTypeOK, Places
      <4> HIDE DEF c
      <4>2. QED
        BY <1>1, <3>2, <4>1 DEF Calls
    <3>4. QED
      BY <3>1, <3>3
  <2>6. QED
    BY <2>1, <2>2, <2>3, <2>4, <2>5
<1> HIDE DEF c
<1>6. call' \in [Threads -> Calls]
  BY <1>5 DEF DownloadTypeOK
<1>7. QED
  BY <1>3, <1>4, <1>6 DEF DownloadTypeOK

LEMMA TypesBody ==
    ASSUME TypeInv, NEW t \in Threads, Open(t) \/ Receive(t) \/ EndBody(t) \/ Rename(t)
    PROVE  DownloadTypeOK'
<1> DEFINE c == call[t]
<1> USE DEF TypeInv
<1>1. c \in Calls
  BY DEF DownloadTypeOK
<1>2. <<>> \in Bytes
  BY DEF Bytes
<1>3. CASE Open(t)
  <2>1. PICK f \in Inodes :
          /\ content' = content \/ content' = [content EXCEPT ![f] = <<>>]
          /\ synced' = synced \ {f} /\ partial' = f
          /\ call' = [call EXCEPT ![t].at = "body", ![t].file = f]
    BY <1>3 DEF Open, Free, DownloadTypeOK
  <2>2. call' = [call EXCEPT ![t] = [c EXCEPT !.at = "body", !.file = f]]
    BY <2>1
  <2>3. [c EXCEPT !.at = "body", !.file = f] \in Calls
    BY <1>1 DEF Calls, Places
  <2> HIDE DEF c
  <2>4. call' \in [Threads -> Calls]
    BY <2>2, <2>3 DEF DownloadTypeOK
  <2>5. UNCHANGED <<served, dest, artifact, faults>>
    BY <1>3 DEF Open
  <2>6. QED
    BY <1>2, <2>1, <2>4, <2>5 DEF DownloadTypeOK
<1>4. CASE Receive(t)
  <2> DEFINE chunk == [build |-> c.build, index |-> c.next]
             file == c.file
             written == IF c.mode = "append" THEN Append(content[file], chunk)
                                             ELSE Put(content[file], c.next, chunk)
  <2>1. /\ content' = [content EXCEPT ![file] = written] /\ synced' = synced \ {file}
        /\ call' = [call EXCEPT ![t] = [c EXCEPT !.hashed = Append(c.hashed, chunk),
                                                 !.next = c.next + 1]]
        /\ UNCHANGED <<served, partial, dest, artifact, faults>>
    BY <1>4 DEF Receive
  <2>2. /\ c.next \in Nat \ {0} /\ c.hashed \in Bytes
        /\ chunk \in Chunks
    BY <1>1 DEF Calls, Chunks
  <2>3. file \in Inodes => written \in Bytes
    <3>1. ASSUME file \in Inodes PROVE content[file] \in Bytes
      BY <3>1 DEF DownloadTypeOK
    <3> HIDE DEF c, chunk, file
    <3>2. QED
      BY <2>2, <3>1, PutTyped, AppendProperties DEF Bytes
  <2>4. Append(c.hashed, chunk) \in Bytes /\ c.next + 1 \in Nat \ {0}
    BY <2>2, AppendProperties DEF Bytes
  <2> HIDE DEF chunk, file, written, c
  <2>5. [c EXCEPT !.hashed = Append(c.hashed, chunk), !.next = c.next + 1] \in Calls
    BY <1>1, <2>4 DEF Calls
  <2>6. content' \in [Inodes -> Bytes] /\ call' \in [Threads -> Calls]
    BY <2>1, <2>3, <2>5 DEF DownloadTypeOK
  <2>7. QED
    BY <2>1, <2>6 DEF DownloadTypeOK
<1>5. CASE EndBody(t)
  <2>1. call' = [call EXCEPT ![t] = [c EXCEPT !.at = "rename"]]
    BY <1>5 DEF EndBody, Goto
  <2>2. [c EXCEPT !.at = "rename"] \in Calls
    BY <1>1, GotoTyped DEF Places
  <2>3. synced' \subseteq Inodes
    BY <1>5 DEF EndBody, DownloadTypeOK, HandleInv, At
  <2> HIDE DEF c
  <2>4. QED
    BY <1>5, <2>1, <2>2, <2>3 DEF EndBody, DownloadTypeOK
<1>6. CASE Rename(t)
  <2>1. call' \in [Threads -> Calls]
    BY <1>6, RetryTyped DEF Rename
  <2>2. artifact' \in [Threads -> Bytes]
    BY <1>1, <1>6 DEF Rename, DownloadTypeOK, Calls
  <2>3. partial' \in Inodes \cup {NoFile} /\ dest' \in Inodes \cup {NoFile}
    BY <1>6 DEF Rename, DownloadTypeOK
  <2>4. UNCHANGED <<served, content, synced, faults>>
    BY <1>6 DEF Rename
  <2>5. served \in Builds /\ content \in [Inodes -> Bytes] /\ synced \subseteq Inodes
        /\ faults \in 0..MaxFaults
    BY DEF DownloadTypeOK
  <2>6. QED
    BY ONLY <2>1, <2>2, <2>3, <2>4, <2>5 DEF DownloadTypeOK
<1>7. QED
  BY <1>3, <1>4, <1>5, <1>6

\* What a power cut leaves of a file is its beginning.
LEMMA BeginningTyped ==
    ASSUME NEW s \in Bytes, NEW b \in Beginnings(s)
    PROVE  b \in Bytes /\ Len(b) <= Len(s) /\ \A i \in 1..Len(b) : b[i] = s[i]
<1>1. Len(s) \in Nat
  BY LenProperties DEF Bytes
<1>2. PICK n \in 0..Len(s) : b = SubSeq(s, 1, n)
  BY DEF Beginnings
<1>3. \A i \in 1..n : s[i] \in Chunks
  BY <1>1, ElementOfSeq DEF Bytes
<1>4. b \in Bytes /\ Len(b) = n /\ \A i \in 1..n : b[i] = s[i]
  BY <1>1, <1>2, <1>3, SubSeqProperties DEF Bytes
<1>5. QED
  BY <1>1, <1>4

LEMMA TypesWorld ==
    ASSUME DownloadTypeOK, Release \/ Crash \/ \E t \in Threads :
              Unsatisfiable(t) \/ RequestFails(t) \/ BodyBreaks(t)
    PROVE  DownloadTypeOK'
<1>1. Fault => faults' \in 0..MaxFaults
  BY DownloadsAssumption DEF Fault, DownloadTypeOK
<1>2. ASSUME NEW t \in Threads, Unsatisfiable(t) \/ RequestFails(t) \/ BodyBreaks(t)
      PROVE  DownloadTypeOK'
  <2>1. call' \in [Threads -> Calls]
    BY <1>2, RetryTyped DEF Unsatisfiable, RequestFails, BodyBreaks
  <2>2. QED
    BY <1>1, <1>2, <2>1 DEF Unsatisfiable, RequestFails, BodyBreaks, DownloadTypeOK, files
<1>3. CASE Release
  BY <1>1, <1>3 DEF Release, DownloadTypeOK, files
<1>4. CASE Crash
  <2>1. call' \in [Threads -> Calls] /\ artifact' \in [Threads -> Bytes]
    BY <1>4, NoCallTyped DEF Crash, NoArtifact, Bytes
  <2>2. /\ \E F : content' \in [Inodes -> F]
        /\ \A f \in Inodes : content'[f] \in IF f \in synced THEN {content[f]}
                                             ELSE Beginnings(content[f])
    BY <1>4 DEF Crash
  <2>3. \A f \in Inodes : content'[f] \in Bytes
    BY <2>2, BeginningTyped DEF DownloadTypeOK
  <2>4. content' \in [Inodes -> Bytes]
    BY <2>2, <2>3
  <2>5. synced' \subseteq Inodes /\ UNCHANGED <<served, partial, dest>>
    BY <1>4 DEF Crash
  <2>6. faults' \in 0..MaxFaults
    BY <1>1, <1>4 DEF Crash
  <2>7. QED
    BY <2>1, <2>4, <2>5, <2>6 DEF DownloadTypeOK
<1>5. QED
  BY <1>2, <1>3, <1>4

LEMMA HandleStep == TypeInv /\ [Next]_vars => HandleInv'
<1> SUFFICES ASSUME TypeInv, [Next]_vars PROVE HandleInv'
  OBVIOUS
<1> USE DEF TypeInv, HandleInv
<1>1. ASSUME NEW t \in Threads, call' = [call EXCEPT ![t] = call'[t]],
             call'[t].at \in {"body", "rename"} => call'[t].file \in Inodes
      PROVE  HandleInv'
  BY <1>1 DEF DownloadTypeOK
<1>2. ASSUME NEW t \in Threads, Begin(t) \/ Stat(t) \/ Prime(t) \/ Resume(t) \/ Restart(t)
      PROVE  HandleInv'
  <2>1. call[t] \in Calls /\ call \in [Threads -> Calls]
    BY DEF DownloadTypeOK
  <2>2. call'[t].at \notin {"body", "rename"} /\ \E c : call' = [call EXCEPT ![t] = c]
    BY <1>2, <2>1 DEF Begin, Stat, Prime, Resume, Restart, Goto, GiveUp, NoCall, Calls
  <2>3. QED
    BY <1>1, <2>1, <2>2
<1>3. ASSUME NEW t \in Threads, Unsatisfiable(t) \/ RequestFails(t) \/ BodyBreaks(t) \/ Rename(t)
      PROVE  HandleInv'
  <2>1. Retry(t) \/ GiveUp(t)
    BY <1>3 DEF Unsatisfiable, RequestFails, BodyBreaks, Rename
  <2>2. QED
    BY <2>1, RetryTyped
<1>4. ASSUME NEW t \in Threads, Open(t) \/ Receive(t) \/ EndBody(t)
      PROVE  HandleInv'
  <2>1. call[t] \in Calls /\ call \in [Threads -> Calls]
    BY DEF DownloadTypeOK
  <2>2. CASE Open(t)
    <3>1. PICK f \in Inodes : call' = [call EXCEPT ![t].at = "body", ![t].file = f]
      BY <2>2 DEF Open, Free, DownloadTypeOK
    <3>2. call'[t].file = f /\ call' = [call EXCEPT ![t] = call'[t]]
      BY <2>1, <3>1 DEF Calls
    <3>3. QED
      BY <1>1, <3>2
  <2>3. CASE Receive(t) \/ EndBody(t)
    <3>1. call[t].file \in Inodes
      BY <2>3 DEF Receive, EndBody, At
    <3>2. call'[t].file = call[t].file /\ call' = [call EXCEPT ![t] = call'[t]]
      BY <2>1, <2>3 DEF Receive, EndBody, Goto, Calls
    <3>3. QED
      BY <1>1, <3>1, <3>2
  <2>4. QED
    BY <1>4, <2>2, <2>3
<1>5. CASE Crash
  BY <1>5 DEF Crash, NoCall
<1>6. CASE Release \/ UNCHANGED vars
  BY <1>6 DEF Release, vars
<1>7. QED
  BY <1>2, <1>3, <1>4, <1>5, <1>6 DEF Next, Step

LEMMA TypesStep == TypeInv /\ [Next]_vars => TypeInv'
<1> SUFFICES ASSUME TypeInv, [Next]_vars PROVE DownloadTypeOK'
  BY HandleStep DEF TypeInv
<1>1. CASE UNCHANGED vars
  BY <1>1 DEF vars, files, DownloadTypeOK, TypeInv
<1>2. CASE Next
  BY <1>2, TypesAsk, TypesBody, TypesWorld DEF Next, Step, TypeInv
<1>3. QED
  BY <1>1, <1>2

\* Type correctness, and the bound on attempts, for any number of calls at a
\* time.
THEOREM DownloadTypesCorrect == Spec => []DownloadTypeOK
<1>1. TypeInv => DownloadTypeOK
  BY DEF TypeInv
<1>2. QED
  BY <1>1, TypesInit, TypesStep, PTL DEF Spec

-----------------------------------------------------------------------------
(* One call at a time: the file and its digest.                             *)

InPlace(s) == \A i \in DOMAIN s : s[i].index = i
Left == IF partial = NoFile THEN <<>> ELSE content[partial]

FilesInv ==
    /\ \A f \in Inodes : InPlace(content[f])
    /\ partial # NoFile => partial # dest
    /\ dest # NoFile => dest \in synced /\ Whole(content[dest])

\* A chunk of the body is still to come, or the last one is of this build.
FromThisBuild(c) ==
    /\ c.build \in Builds /\ c.next = Len(c.hashed) + 1 /\ c.next <= Length[c.build] + 1
    /\ c.next = Length[c.build] + 1 => c.hashed[Len(c.hashed)].build = c.build

\* The hasher has seen the file that the call writes, and its size is known.
HasherInv(t) ==
    /\ At(t, "prime") => call[t].existing = Len(Left)
    /\ At(t, "idle") \/ At(t, "stat") => call[t].hashed = <<>>
    /\ At(t, "send") => call[t].existing = Len(Left) /\ call[t].hashed = Left
    /\ At(t, "open") =>
          /\ call[t].mode = "truncate" => call[t].hashed = <<>>
          /\ call[t].mode = "append" => call[t].hashed = Left
          /\ FromThisBuild(call[t]) /\ call[t].next <= Length[call[t].build]
    /\ At(t, "body") \/ At(t, "rename") =>
          /\ partial = call[t].file /\ content[partial] = call[t].hashed
          /\ FromThisBuild(call[t])
    /\ At(t, "rename") => partial \in synced /\ Whole(call[t].hashed)

DigestInv(t) ==
    artifact[t] # NoArtifact => dest # NoFile /\ artifact[t] = content[dest]

Inv == TypeInv /\ FilesInv /\ \A t \in Threads : HasherInv(t) /\ DigestInv(t)

OneCall == \A t, u \in Threads : t = u

LEMMA OnlyCall ==
    ASSUME OneCall, NEW t \in Threads, HasherInv(t)', DigestInv(t)'
    PROVE  \A u \in Threads : HasherInv(u)' /\ DigestInv(u)'
BY DEF OneCall

LEMMA InvInit == Init => Inv
<1> SUFFICES ASSUME Init PROVE Inv
  OBVIOUS
<1>1. TypeInv
  BY TypesInit
<1>2. FilesInv
  BY DEF Init, FilesInv, InPlace
<1>3. \A t \in Threads : HasherInv(t) /\ DigestInv(t)
  BY DEF Init, HasherInv, DigestInv, At, NoCall, Left
<1>4. QED
  BY <1>1, <1>2, <1>3 DEF Inv

\* A call that starts over, or ends, owes nothing.
LEMMA Afresh ==
    ASSUME DownloadTypeOK, NEW t \in Threads, Retry(t) \/ GiveUp(t)
    PROVE  HasherInv(t)'
<1>1. call'[t].at \in {"idle", "stat"} /\ call'[t].hashed = <<>>
  BY RetryTyped
<1>2. QED
  BY <1>1 DEF HasherInv, At

LEMMA InvAsk ==
    ASSUME Inv, OneCall, NEW t \in Threads,
           Begin(t) \/ Stat(t) \/ Prime(t) \/ Resume(t) \/ Restart(t)
    PROVE  FilesInv' /\ HasherInv(t)' /\ DigestInv(t)'
<1>1. UNCHANGED <<content, synced, partial, dest>> /\ artifact'[t] \in {artifact[t], NoArtifact}
  BY DEF Begin, Stat, Prime, Resume, Restart, files, Inv, TypeInv, DownloadTypeOK
<1>2. FilesInv' /\ DigestInv(t)' /\ Left' = Left
  BY <1>1 DEF FilesInv, DigestInv, Inv, Left
<1>3. /\ call \in [Threads -> Calls] /\ call[t] \in Calls /\ HasherInv(t) /\ call[t].existing \in Nat
      /\ served \in Builds /\ Length[served] \in Nat \ {0}
  BY DownloadsAssumption DEF Inv, TypeInv, DownloadTypeOK, Calls
<1>4. Left \in Bytes /\ Len(Left) \in Nat /\ (Len(Left) = 0 <=> Left = <<>>)
  <2>1. Left \in Bytes
    BY DEF Left, Inv, TypeInv, DownloadTypeOK, Bytes
  <2>2. QED
    BY <2>1, EmptySeq, LenProperties DEF Bytes
<1>5. CASE Begin(t)
  <2>1. call'[t].at = "stat" /\ call'[t].hashed = call[t].hashed
    BY <1>3, <1>5 DEF Begin, Goto, Calls
  <2>2. call[t].hashed = <<>>
    BY <1>3, <1>5 DEF Begin, HasherInv
  <2>3. QED
    BY <1>2, <2>1, <2>2 DEF HasherInv, At
<1>6. CASE Stat(t)
  <2>1. /\ call'[t].at = IF Len(Left) = 0 THEN "send" ELSE "prime"
        /\ call'[t].existing = Len(Left) /\ call'[t].hashed = call[t].hashed
    BY <1>3, <1>6 DEF Stat, Left, Calls
  <2>2. call[t].hashed = <<>>
    BY <1>3, <1>6 DEF Stat, HasherInv
  <2>3. QED
    BY <1>2, <1>4, <2>1, <2>2 DEF HasherInv, At
<1>7. CASE Prime(t)
  <2>1. CASE partial = NoFile
    <3>1. GiveUp(t)
      BY <1>7, <2>1 DEF Prime
    <3>2. QED
      BY <1>2, <3>1, Afresh DEF Inv, TypeInv
  <2>2. CASE partial # NoFile
    <3>1. call'[t].at = "send" /\ call'[t].existing = call[t].existing /\ call'[t].hashed = Left
      BY <1>3, <1>7, <2>2 DEF Prime, Left, Calls
    <3>2. call[t].existing = Len(Left)
      BY <1>3, <1>7 DEF Prime, HasherInv
    <3>3. QED
      BY <1>2, <3>1, <3>2 DEF HasherInv, At
  <2>3. QED
    BY <2>1, <2>2
<1>8. CASE Resume(t)
  <2>1. /\ call'[t].at = "open" /\ call'[t].mode = "append" /\ call'[t].build = served
        /\ call'[t].next = call[t].existing + 1 /\ call'[t].hashed = call[t].hashed
        /\ call[t].existing < Length[served]
    BY <1>3, <1>8 DEF Resume, Calls
  <2>2. call[t].existing = Len(Left) /\ call[t].hashed = Left
    BY <1>3, <1>8 DEF Resume, HasherInv
  <2>3. FromThisBuild(call'[t]) /\ call'[t].next <= Length[served]
    BY <1>3, <2>1, <2>2 DEF FromThisBuild
  <2>4. QED
    BY <1>2, <2>1, <2>2, <2>3 DEF HasherInv, At
<1>9. CASE Restart(t)
  <2>1. /\ call'[t].at = "open" /\ call'[t].build = served /\ call'[t].next = 1
        /\ call'[t].mode = IF call[t].existing > 0 THEN "truncate" ELSE "append"
        /\ call'[t].hashed = IF call[t].existing > 0 THEN <<>> ELSE call[t].hashed
    BY <1>3, <1>9 DEF Restart, Calls
  <2>2. call[t].existing = Len(Left) /\ call[t].hashed = Left
    BY <1>3, <1>9 DEF Restart, HasherInv
  <2>3. call'[t].hashed = <<>>
    BY <1>3, <1>4, <2>1, <2>2
  <2>4. FromThisBuild(call'[t]) /\ call'[t].next <= Length[served]
    BY <1>3, <2>1, <2>3 DEF FromThisBuild
  <2>5. call'[t].mode = "append" => Left = <<>>
    BY <1>3, <1>4, <2>1, <2>2
  <2>6. QED
    BY <1>2, <2>1, <2>3, <2>4, <2>5 DEF HasherInv, At
<1>10. QED
  BY <1>5, <1>6, <1>7, <1>8, <1>9

LEMMA InvOpen ==
    ASSUME Inv, OneCall, NEW t \in Threads, Open(t)
    PROVE  FilesInv' /\ HasherInv(t)' /\ DigestInv(t)'
<1>1. /\ call \in [Threads -> Calls] /\ call[t] \in Calls /\ HasherInv(t) /\ At(t, "open")
      /\ content \in [Inodes -> Bytes] /\ NoFile \notin Inodes
  BY DownloadsAssumption DEF Inv, TypeInv, DownloadTypeOK, Open, NoFile
<1>2. PICK f \in Inodes :
        /\ f \in IF partial = NoFile THEN Free ELSE {partial}
        /\ content' = IF partial = NoFile \/ call[t].mode = "truncate"
                      THEN [content EXCEPT ![f] = <<>>] ELSE content
        /\ synced' = synced \ {f} /\ partial' = f
        /\ call' = [call EXCEPT ![t].at = "body", ![t].file = f]
  BY DEF Open, Free, Inv, TypeInv, DownloadTypeOK
<1>3. f # dest /\ dest' = dest /\ artifact' = artifact /\ f # NoFile
  BY <1>1, <1>2 DEF Free, Open, Inv, FilesInv
<1>4. /\ call'[t].at = "body" /\ call'[t].file = f /\ call'[t].hashed = call[t].hashed
      /\ call'[t].build = call[t].build /\ call'[t].next = call[t].next
  BY <1>1, <1>2 DEF Calls
<1>5. content'[f] = call[t].hashed
  <2>1. call[t].mode \in {"append", "truncate"}
    BY <1>1 DEF Calls
  <2>2. CASE call[t].mode = "truncate"
    BY <1>1, <1>2, <2>2 DEF HasherInv
  <2>3. CASE call[t].mode = "append"
    BY <1>1, <1>2, <1>3, <2>3 DEF HasherInv, Left
  <2>4. QED
    BY <2>1, <2>2, <2>3
<1>6. FilesInv'
  <2>1. \A g \in Inodes : content'[g] = content[g] \/ content'[g] = <<>>
    BY <1>1, <1>2
  <2>2. \A g \in Inodes : InPlace(content'[g])
    BY <2>1 DEF Inv, FilesInv, InPlace
  <2>3. dest # NoFile => dest \in Inodes /\ content'[dest] = content[dest]
    BY <1>1, <1>2, <1>3 DEF Inv, TypeInv, DownloadTypeOK
  <2>4. QED
    BY <1>2, <1>3, <2>2, <2>3 DEF Inv, FilesInv
<1>7. DigestInv(t)'
  <2>1. dest # NoFile => content'[dest] = content[dest]
    BY <1>1, <1>2, <1>3 DEF Inv, TypeInv, DownloadTypeOK
  <2>2. QED
    BY <1>3, <2>1 DEF Inv, DigestInv
<1>8. FromThisBuild(call'[t])
  BY <1>1, <1>4 DEF HasherInv, FromThisBuild
<1>9. QED
  BY <1>2, <1>4, <1>5, <1>6, <1>7, <1>8 DEF HasherInv, At

\* A write right behind the end is an append.
LEMMA PutAtEnd ==
    ASSUME NEW s \in Bytes, NEW chunk \in Chunks
    PROVE  Put(s, Len(s) + 1, chunk) = Append(s, chunk)
<1>1. Len(s) \in Nat
  BY LenProperties DEF Bytes
<1>2. Max({Len(s), Len(s) + 1}) = Len(s) + 1
  BY <1>1, MaxOfTwo
<1> DEFINE longer == Append(s, chunk)
<1>3. /\ longer \in Bytes /\ Len(longer) = Len(s) + 1 /\ longer[Len(s) + 1] = chunk
      /\ \A i \in 1..Len(s) : longer[i] = s[i]
  BY AppendProperties DEF Bytes
<1>4. Put(s, Len(s) + 1, chunk) =
        [i \in 1..(Len(s) + 1) |->
            IF i = Len(s) + 1 THEN chunk ELSE IF i <= Len(s) THEN s[i] ELSE Hole]
  BY <1>2 DEF Put
<1> HIDE DEF longer
<1>5. longer = [i \in 1..(Len(s) + 1) |-> longer[i]]
  BY <1>1, <1>3, LenProperties DEF Bytes
<1>6. \A i \in 1..(Len(s) + 1) :
        longer[i] = IF i = Len(s) + 1 THEN chunk ELSE IF i <= Len(s) THEN s[i] ELSE Hole
  BY <1>1, <1>3
<1>7. QED
  BY <1>4, <1>5, <1>6 DEF longer

LEMMA InvReceive ==
    ASSUME Inv, OneCall, NEW t \in Threads, Receive(t)
    PROVE  FilesInv' /\ HasherInv(t)' /\ DigestInv(t)'
<1> DEFINE c == call[t]
           chunk == [build |-> c.build, index |-> c.next]
<1>1. /\ call \in [Threads -> Calls] /\ c \in Calls /\ c.at = "body"
      /\ content \in [Inodes -> Bytes] /\ c.file \in Inodes /\ c.hashed \in Bytes
      /\ NoFile \notin Inodes
  BY DownloadsAssumption
     DEF Inv, TypeInv, HandleInv, DownloadTypeOK, Receive, At, NoFile, Calls
<1>2. partial = c.file /\ content[partial] = c.hashed /\ FromThisBuild(c)
  BY <1>1 DEF Inv, HasherInv, At
<1>3. /\ c.build \in Builds /\ c.next = Len(c.hashed) + 1 /\ c.next <= Length[c.build]
      /\ Len(c.hashed) \in Nat /\ Length[c.build] \in Nat
  BY <1>1, <1>2, LenProperties, DownloadsAssumption DEF FromThisBuild, Receive, Bytes
<1>4. chunk \in Chunks
  BY <1>3 DEF Chunks
<1>5. /\ content' = [content EXCEPT ![partial] = Append(c.hashed, chunk)]
      /\ synced' = synced \ {partial}
      /\ call' = [call EXCEPT ![t] = [c EXCEPT !.hashed = Append(c.hashed, chunk),
                                               !.next = c.next + 1]]
      /\ UNCHANGED <<partial, dest, artifact>>
  <2>1. Put(c.hashed, c.next, chunk) = Append(c.hashed, chunk)
    BY <1>1, <1>3, <1>4, PutAtEnd
  <2>2. /\ content' = [content EXCEPT ![c.file] =
              IF c.mode = "append" THEN Append(content[c.file], chunk)
                                   ELSE Put(content[c.file], c.next, chunk)]
        /\ synced' = synced \ {c.file}
        /\ call' = [call EXCEPT ![t] = [c EXCEPT !.hashed = Append(c.hashed, chunk),
                                                 !.next = c.next + 1]]
        /\ UNCHANGED <<partial, dest, artifact>>
    BY DEF Receive
  <2> HIDE DEF c, chunk
  <2>3. QED
    BY <1>2, <2>1, <2>2
<1>6. /\ chunk.build = c.build /\ chunk.index = Len(c.hashed) + 1
  BY <1>3
<1> DEFINE longer == Append(c.hashed, chunk)
<1>7. /\ Len(longer) = Len(c.hashed) + 1 /\ longer[Len(c.hashed) + 1] = chunk
      /\ \A i \in 1..Len(c.hashed) : longer[i] = c.hashed[i]
      /\ DOMAIN longer = 1..(Len(c.hashed) + 1) /\ DOMAIN c.hashed = 1..Len(c.hashed)
  BY <1>1, <1>3, <1>4, AppendProperties, LenProperties DEF Bytes
<1> HIDE DEF chunk, longer
<1>8. /\ call'[t].at = "body" /\ call'[t].file = c.file /\ call'[t].hashed = longer
      /\ call'[t].build = c.build /\ call'[t].next = c.next + 1
  BY <1>1, <1>5 DEF Calls, longer
<1> HIDE DEF c
<1>9. FromThisBuild(call'[t])
  BY <1>3, <1>6, <1>7, <1>8 DEF FromThisBuild
<1>10. content'[partial] = longer
  BY <1>1, <1>2, <1>5 DEF longer
<1>11. \A g \in Inodes : g # partial => content'[g] = content[g]
  BY <1>1, <1>5
<1>12. InPlace(longer)
  <2>1. InPlace(c.hashed)
    BY <1>1, <1>2 DEF Inv, FilesInv
  <2>2. QED
    BY <1>3, <1>6, <1>7, <2>1 DEF InPlace
<1>13. dest # partial /\ (dest # NoFile => dest \in Inodes)
  BY <1>1, <1>2 DEF Inv, TypeInv, DownloadTypeOK, FilesInv
<1>14. FilesInv'
  <2>1. \A g \in Inodes : InPlace(content'[g])
    BY <1>10, <1>11, <1>12 DEF Inv, FilesInv
  <2>2. dest # NoFile => content'[dest] = content[dest]
    BY <1>11, <1>13
  <2>3. QED
    BY <1>5, <1>13, <2>1, <2>2 DEF Inv, FilesInv
<1>15. DigestInv(t)'
  BY <1>5, <1>11, <1>13 DEF Inv, DigestInv
<1>16. QED
  BY <1>2, <1>5, <1>8, <1>9, <1>10, <1>14, <1>15 DEF HasherInv, At

LEMMA InvEndBody ==
    ASSUME Inv, OneCall, NEW t \in Threads, EndBody(t)
    PROVE  FilesInv' /\ HasherInv(t)' /\ DigestInv(t)'
<1> DEFINE c == call[t]
<1>1. /\ call \in [Threads -> Calls] /\ c \in Calls /\ c.at = "body"
      /\ c.file \in Inodes /\ c.hashed \in Bytes /\ NoFile \notin Inodes
  BY DownloadsAssumption DEF Inv, TypeInv, HandleInv, DownloadTypeOK, EndBody, At, NoFile, Calls
<1>2. partial = c.file /\ content[partial] = c.hashed /\ FromThisBuild(c)
  BY <1>1 DEF Inv, HasherInv, At
<1>3. /\ c.build \in Builds /\ c.next = Len(c.hashed) + 1 /\ c.next = Length[c.build] + 1
      /\ Len(c.hashed) \in Nat /\ Length[c.build] \in Nat \ {0}
  <2>1. /\ c.build \in Builds /\ c.next = Len(c.hashed) + 1 /\ c.next <= Length[c.build] + 1
        /\ c.next > Length[c.build]
    BY <1>2 DEF FromThisBuild, EndBody
  <2>2. Len(c.hashed) \in Nat /\ Length[c.build] \in Nat \ {0}
    BY <1>1, <2>1, LenProperties, DownloadsAssumption DEF Bytes
  <2> HIDE DEF c
  <2>3. QED
    BY <2>1, <2>2
<1>4. /\ synced' = synced \cup {partial}
      /\ call' = [call EXCEPT ![t] = [c EXCEPT !.at = "rename"]]
      /\ UNCHANGED <<content, partial, dest, artifact>>
  BY <1>2 DEF EndBody, Goto
<1>5. /\ call'[t].at = "rename" /\ call'[t].file = c.file /\ call'[t].hashed = c.hashed
      /\ call'[t].build = c.build /\ call'[t].next = c.next
  BY <1>1, <1>4, GotoTyped DEF Places
<1> HIDE DEF c
<1>6. Whole(c.hashed)
  <2>1. InPlace(c.hashed)
    BY <1>1, <1>2 DEF Inv, FilesInv
  <2>2. Len(c.hashed) = Length[c.build] /\ c.hashed # <<>>
    BY <1>1, <1>3, EmptySeq DEF Bytes
  <2>3. c.hashed[Len(c.hashed)].build = c.build
    BY <1>2, <1>3 DEF FromThisBuild
  <2>4. QED
    BY <2>1, <2>2, <2>3 DEF Whole, InPlace
<1>7. FromThisBuild(call'[t])
  BY <1>2, <1>5 DEF FromThisBuild
<1>8. FilesInv' /\ DigestInv(t)'
  BY <1>4 DEF Inv, FilesInv, DigestInv
<1>9. QED
  BY <1>2, <1>4, <1>5, <1>6, <1>7, <1>8 DEF HasherInv, At

LEMMA InvRename ==
    ASSUME Inv, OneCall, NEW t \in Threads, Rename(t)
    PROVE  FilesInv' /\ HasherInv(t)' /\ DigestInv(t)'
<1>1. HasherInv(t)'
  BY Afresh DEF Rename, Inv, TypeInv
<1>2. /\ partial = call[t].file /\ content[partial] = call[t].hashed
      /\ partial \in synced /\ Whole(content[partial]) /\ partial \in Inodes
      /\ NoFile \notin Inodes
  BY DownloadsAssumption DEF Rename, Inv, HasherInv, TypeInv, HandleInv, At, NoFile
<1>3. /\ dest' = partial /\ partial' = NoFile /\ UNCHANGED <<content, synced>>
      /\ artifact' = [artifact EXCEPT ![t] = call[t].hashed]
  BY <1>2 DEF Rename
<1>4. FilesInv'
  BY <1>2, <1>3 DEF Inv, FilesInv
<1>5. DigestInv(t)'
  BY <1>2, <1>3 DEF Inv, TypeInv, DownloadTypeOK, DigestInv
<1>6. QED
  BY <1>1, <1>4, <1>5

LEMMA InvFailure ==
    ASSUME Inv, OneCall, NEW t \in Threads,
           Unsatisfiable(t) \/ RequestFails(t) \/ BodyBreaks(t)
    PROVE  FilesInv' /\ HasherInv(t)' /\ DigestInv(t)'
<1>1. HasherInv(t)'
  BY Afresh DEF Unsatisfiable, RequestFails, BodyBreaks, Inv, TypeInv
<1>2. UNCHANGED <<content, synced, dest, artifact>> /\ partial' \in {partial, NoFile}
  BY DEF Unsatisfiable, RequestFails, BodyBreaks, files
<1>3. QED
  BY <1>1, <1>2 DEF Inv, FilesInv, DigestInv

LEMMA InvCrash ==
    ASSUME Inv, Crash
    PROVE  FilesInv' /\ \A t \in Threads : HasherInv(t)' /\ DigestInv(t)'
<1>1. /\ content \in [Inodes -> Bytes] /\ synced \subseteq Inodes
      /\ partial \in Inodes \cup {NoFile} /\ dest \in Inodes \cup {NoFile}
  BY DEF Inv, TypeInv, DownloadTypeOK
<1>2. /\ \A f \in Inodes : content'[f] \in IF f \in synced THEN {content[f]}
                                           ELSE Beginnings(content[f])
      /\ synced' = Inodes /\ UNCHANGED <<partial, dest>>
  BY DEF Crash
<1>3. ASSUME NEW f \in Inodes PROVE InPlace(content'[f])
  <2>1. InPlace(content[f]) /\ content[f] \in Bytes
    BY <1>1 DEF Inv, FilesInv
  <2>2. CASE f \in synced
    BY <1>2, <2>1, <2>2
  <2>3. CASE content'[f] \in Beginnings(content[f])
    <3>1. /\ content'[f] \in Bytes /\ Len(content'[f]) <= Len(content[f])
          /\ \A i \in 1..Len(content'[f]) : content'[f][i] = content[f][i]
      BY <2>1, <2>3, BeginningTyped
    <3>2. /\ DOMAIN content'[f] = 1..Len(content'[f]) /\ Len(content'[f]) \in Nat
          /\ DOMAIN content[f] = 1..Len(content[f]) /\ Len(content[f]) \in Nat
      BY <2>1, <3>1, LenProperties DEF Bytes
    <3>3. QED
      BY <2>1, <3>1, <3>2 DEF InPlace
  <2>4. QED
    BY <1>2, <2>2, <2>3
<1>4. dest # NoFile => content'[dest] = content[dest] /\ dest \in synced'
  BY <1>1, <1>2 DEF Inv, FilesInv
<1>5. FilesInv'
  BY <1>2, <1>3, <1>4 DEF Inv, FilesInv
<1>6. \A t \in Threads : call'[t].at = "idle" /\ call'[t].hashed = <<>> /\ artifact'[t] = NoArtifact
  BY DEF Crash, NoCall
<1>7. QED
  BY <1>5, <1>6 DEF HasherInv, DigestInv, At

LEMMA InvStep == OneCall /\ Inv /\ [Next]_vars => Inv'
<1> SUFFICES ASSUME OneCall, Inv, [Next]_vars
             PROVE  FilesInv' /\ \A t \in Threads : HasherInv(t)' /\ DigestInv(t)'
  BY TypesStep DEF Inv
<1>1. ASSUME NEW t \in Threads, Begin(t) \/ Step(t) \/ RequestFails(t) \/ BodyBreaks(t)
      PROVE  FilesInv' /\ HasherInv(t)' /\ DigestInv(t)'
  BY <1>1, InvAsk, InvOpen, InvReceive, InvEndBody, InvRename, InvFailure DEF Step
<1>2. CASE Crash
  BY <1>2, InvCrash
<1>3. CASE Release \/ UNCHANGED vars
  <2>1. UNCHANGED <<content, synced, partial, dest, call, artifact>>
    BY <1>3 DEF Release, vars, files
  <2>2. FilesInv' /\ Left' = Left
    BY <2>1 DEF Inv, FilesInv, Left
  <2>3. ASSUME NEW t \in Threads PROVE HasherInv(t)' /\ DigestInv(t)'
    BY <2>1, <2>2 DEF Inv, HasherInv, DigestInv, At, FromThisBuild
  <2>4. QED
    BY <2>2, <2>3
<1>4. QED
  BY <1>1, <1>2, <1>3, OnlyCall DEF Next

\* With one call at a time dest is never a truncated file, whatever breaks.
THEOREM FileIsWhole == OneCall => (Spec => []DestIsWhole)
<1>1. Inv => DestIsWhole
  BY DEF Inv, FilesInv, DestIsWhole
<1>2. ASSUME OneCall PROVE Spec => []DestIsWhole
  <2>1. Inv /\ [Next]_vars => Inv'
    BY <1>2, InvStep
  <2>2. QED
    BY <1>1, <2>1, InvInit, PTL DEF Spec
<1>3. QED
  BY <1>2

\* With one call at a time the digest that it returns is the file's.
THEOREM DigestIsTheFiles == OneCall => (Spec => []ArtifactMatchesFile)
<1>1. Inv => ArtifactMatchesFile
  BY DEF Inv, DigestInv, ArtifactMatchesFile
<1>2. ASSUME OneCall PROVE Spec => []ArtifactMatchesFile
  <2>1. Inv /\ [Next]_vars => Inv'
    BY <1>2, InvStep
  <2>2. QED
    BY <1>1, <2>1, InvInit, PTL DEF Spec
<1>3. QED
  BY <1>2
====
