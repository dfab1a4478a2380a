-------------------------- MODULE AccessPagesProofs --------------------------
(***************************************************************************)
(* The pages of MCAccess, each for every value of its constants: the row   *)
(* of a recording with its badge and its buttons, the player of a          *)
(* recording and the flows of signing in.                                  *)
(***************************************************************************)
EXTENDS Naturals, Sequences, FiniteSets, FiniteSetTheorems, SequenceTheorems, TLAPS

CONSTANTS
  MaxStarts, MaxPolls, MaxPlayers, Accounts, Captcha, Reauth, MaxRequests,
  Grants, Menus, RoleNames, TypeNames, Paths, Methods, Pages, MaxEdits

VARIABLES
  status, recording, running, job, persisted, present, badge, transcoding,
  asking, reqs, load, steps, retried, missed, stored, query, fetching,
  canRead, open, current, late, aborted, made, loading, error, playing,
  duration, hadVideo, configured, mfa, tokens, spent, session, known, auth,
  me, path, mount, username, challenge, captcha, codes, submitting, passkey,
  issued, enrolled, seen, overlap, unloaded, unshown, strayed, record, role,
  edits, location

Row == INSTANCE RecordingRow
Player == INSTANCE RecordingPlayer
Flows == INSTANCE SignIn
Perms == INSTANCE Permissions

-----------------------------------------------------------------------------
(***************************************************************************)
(* The row of a recording, for any number of polls and of starts. What the *)
(* badge shows is seldom the stored state, and the two must meet in the    *)
(* end. The invariant follows the first transcoding of the row: nobody has *)
(* started one yet (Untouched), the page waits for the answer to its start *)
(* (Starting), or it follows the one that was started, and then an end on  *)
(* display is the stored one, or the page loads the row again and will see *)
(* a state it does not know (Following). RowCount says that a number is    *)
(* left for every request that may be sent.                                *)
(***************************************************************************)

RowRequests ==
  [n : 1 .. MaxPolls + MaxStarts, kind : {"poll", "start", "delete"}, phase : {"sent", "read", "served", "refresh"},
   value : Row!Statuses \cup {"error"}, alive : BOOLEAN]

(* What a request can be at, by its kind: only a start waits for its       *)
(* refresh, and only polls are ended before they are answered.             *)
RowShape(r) ==
  /\ r \in RowRequests
  /\ r.phase = "refresh" => r.kind = "start"
  /\ r.phase = "read" => r.kind # "delete"
  /\ r.phase = "sent" => r.value = "none"
  /\ r.value = "error" => r.phase = "served"
  /\ r.kind = "poll" /\ r.alive => Row!Polling

RowTypes ==
  /\ status \in Row!Statuses /\ persisted \in Row!Statuses /\ badge \in Row!Statuses
  /\ job \in {"none", "queued", "processing", "saved"} /\ steps \in 0 .. MaxStarts
  /\ load \in [phase : {"none", "sent", "served"}, status : Row!Statuses, recording : BOOLEAN]
  /\ load.phase = "none" => load = Row!NoLoad
  /\ \A r \in reqs : RowShape(r)

RowFlags ==
  /\ recording \in BOOLEAN /\ running \in BOOLEAN /\ present \in BOOLEAN
  /\ transcoding \in BOOLEAN /\ asking \in BOOLEAN

(* A number is left for every request: each but a poll has cost a step, or *)
(* its question has.                                                       *)
Others == {r \in reqs : r.kind # "poll"}

RowCount ==
  /\ IsFiniteSet(reqs) /\ Cardinality(Row!Polls) <= MaxPolls
  /\ Cardinality(Others) + (IF asking THEN 1 ELSE 0) <= steps

(* The button starts one job at a time. *)
RowStart ==
  /\ transcoding <=> \E r \in reqs : r.kind = "start"
  /\ \A q, r \in reqs : q.kind = "start" /\ r.kind = "start" => q = r

(* Registry, job and stored state go together, and a recording that was    *)
(* deleted has neither.                                                    *)
RowJob ==
  /\ running <=> job # "none"
  /\ job = "queued" => status = "queued"
  /\ job = "processing" => status = "processing"
  /\ job = "saved" => status \in Row!Terminal
  /\ job = "none" => status \notin Row!Active
  /\ ~recording => status = "none" /\ job = "none"

(* A recording that was deleted does not come back, and a page that has    *)
(* its row will load it again.                                             *)
RowGone ==
  /\ \A r \in reqs : r.kind = "delete" /\ r.phase = "served" /\ r.value # "error" => ~recording
  /\ ~present => ~recording /\ (load.phase = "served" => ~load.recording)
  /\ ~load.recording => ~recording
  /\ ~missed /\ ~recording /\ present =>
       \/ \E r \in reqs : r.kind = "delete" /\ r.phase = "served" /\ r.value # "error"
       \/ load.phase = "sent" \/ (load.phase = "served" /\ ~load.recording)

(* A state that was read is not older than the end it tells of.            *)
RowTold(r) ==
  r.kind # "delete" /\ r.phase \in {"read", "served"} =>
    r.value # "none" /\ (r.value \in Row!Terminal => status \in Row!Terminal)

(* Before the first transcoding of the row,                                *)
Untouched ==
  /\ status = persisted /\ badge = persisted /\ job = "none" /\ load = Row!NoLoad
  /\ \A r \in reqs : /\ r.kind # "poll"
                     /\ r.kind = "start" => persisted = "none" /\ (r.phase = "sent" \/ r.value = "error")

(* while the page waits for the answer to its start,                       *)
Starting ==
  /\ persisted = "none" /\ badge = "none" /\ status # "none" /\ load = Row!NoLoad
  /\ \A r \in reqs : r.kind # "poll"
  /\ \E r \in reqs : r.kind = "start" /\ r.phase \in {"read", "served"} /\ r.value # "error"

(* and since then: an end on display is the stored one, or the page loads  *)
(* the row again and will see a state it does not know.                    *)
Following ==
  /\ badge # "none" /\ status # "none"
  /\ \A r \in reqs : r.kind = "start" => r.phase = "refresh" \/ r.value = "error"
  /\ persisted = "none" => load.phase # "none"
  /\ persisted \in Row!Terminal => badge \notin Row!Active
  /\ badge \in Row!Terminal => /\ status \in Row!Terminal
                               /\ badge = status \/ (load.phase # "none" /\ persisted # status)
  /\ load.phase = "served" => /\ load.status # "none"
                              /\ badge \in Row!Terminal \/ load.status \in Row!Terminal => load.status = status

RowFollows ==
  ~retried /\ ~missed /\ recording =>
    /\ \A r \in reqs : r.value # "error" => RowTold(r)
    /\ Untouched \/ Starting \/ Following

RowInv == RowTypes /\ RowFlags /\ RowCount /\ RowStart /\ RowJob /\ RowGone /\ RowFollows

-----------------------------------------------------------------------------
(* Requests that change, or go, are no more than there were.               *)
LEMMA RowImage ==
  ASSUME NEW A, NEW B, NEW f, IsFiniteSet(A), \A t \in B : \E x \in A : t = f[x]
  PROVE  IsFiniteSet(B) /\ Cardinality(B) <= Cardinality(A) /\ Cardinality(B) \in Nat /\ Cardinality(A) \in Nat
<1> DEFINE g == [x \in A |-> f[x]]
           C == {f[x] : x \in A}
<1>1. g \in Surjection(A, C)
  BY DEF Surjection
<1>2. B \subseteq C
  OBVIOUS
<1> HIDE DEF g, C
<1>3. IsFiniteSet(C) /\ Cardinality(C) <= Cardinality(A)
  BY <1>1, FS_Surjection
<1>4. IsFiniteSet(B) /\ Cardinality(B) <= Cardinality(C)
  BY <1>2, <1>3, FS_Subset
<1>5. Cardinality(A) \in Nat /\ Cardinality(B) \in Nat /\ Cardinality(C) \in Nat
  BY <1>3, <1>4, FS_CardinalityType
<1> QED BY <1>3, <1>4, <1>5

(* The requests are counted after a step that asks for nothing new.        *)
LEMMA RowCounted ==
  ASSUME Row!ConstantsOK, RowInv, NEW f, \A x \in reqs : f[x].kind = x.kind,
         \A t \in reqs' : \E x \in reqs : t = f[x],
         steps' >= steps, steps' \in Nat, asking' = asking
  PROVE  RowCount'
<1>1. steps \in Nat /\ MaxPolls \in Nat /\ (IF asking THEN 1 ELSE 0) \in {0, 1}
  BY DEF RowInv, RowTypes, Row!ConstantsOK
<1>2. IsFiniteSet(reqs) /\ Cardinality(Row!Polls) <= MaxPolls /\ Cardinality(Others) + (IF asking THEN 1 ELSE 0) <= steps
  BY DEF RowInv, RowCount
<1>3. Row!Polls \in SUBSET reqs /\ Others \in SUBSET reqs
  BY DEF Row!Polls, Others
<1>4. IsFiniteSet(Row!Polls) /\ IsFiniteSet(Others)
  BY <1>2, <1>3, FS_Subset
<1>5. \A t \in Row!Polls' : \E x \in Row!Polls : t = f[x]
  BY DEF Row!Polls
<1>6. \A t \in Others' : \E x \in Others : t = f[x]
  BY DEF Others
<1>7. IsFiniteSet(reqs')
  BY <1>2, RowImage
<1>8. Cardinality(Row!Polls') <= Cardinality(Row!Polls) /\ Cardinality(Row!Polls') \in Nat /\ Cardinality(Row!Polls) \in Nat
  BY <1>4, <1>5, RowImage
<1>9. Cardinality(Others') <= Cardinality(Others) /\ Cardinality(Others') \in Nat /\ Cardinality(Others) \in Nat
  BY <1>4, <1>6, RowImage
<1> QED BY <1>1, <1>2, <1>7, <1>8, <1>9 DEF RowCount

(* A number is left for a request that may be sent.                        *)
LEMMA RowNumber ==
  ASSUME NEW S, IsFiniteSet(S), NEW N \in Nat, Cardinality(S) < N, \A r \in S : r.n \in 1 .. N
  PROVE  \E n \in 1 .. N : \A r \in S : r.n # n
<1> DEFINE C == {r.n : r \in S}
           g == [r \in S |-> r.n]
<1>1. g \in Surjection(S, C)
  BY DEF Surjection
<1> HIDE DEF g
<1>2. IsFiniteSet(C) /\ Cardinality(C) <= Cardinality(S)
  <2> HIDE DEF C
  <2> QED BY <1>1, FS_Surjection
<1>3. SUFFICES ASSUME \A n \in 1 .. N : n \in C PROVE FALSE
  OBVIOUS
<1>4. IsFiniteSet(1 .. N) /\ Cardinality(1 .. N) = N
  <2>1. 1 \in Int /\ N \in Int
    OBVIOUS
  <2>2. Cardinality(1 .. N) = IF 1 > N THEN 0 ELSE N - 1 + 1
    BY <2>1, FS_Interval
  <2>3. IsFiniteSet(1 .. N)
    BY <2>1, FS_Interval
  <2> QED BY <2>2, <2>3
<1>5. 1 .. N \in SUBSET C
  BY <1>3
<1>6. Cardinality(1 .. N) <= Cardinality(C)
  <2> HIDE DEF C
  <2> QED BY <1>2, <1>5, FS_Subset
<1>7. Cardinality(C) \in Nat /\ Cardinality(S) \in Nat
  <2> HIDE DEF C
  <2> QED BY <1>2, FS_CardinalityType
<1> QED BY <1>2, <1>4, <1>6, <1>7

(* What Send adds.                                                         *)
LEMMA RowSends ==
  ASSUME Row!ConstantsOK, RowInv, NEW kind \in {"poll", "start", "delete"}, Row!Send(kind),
         IF kind = "poll" THEN Cardinality(Row!Polls) < MaxPolls ELSE asking \/ steps < MaxStarts
  PROVE  \E x \in RowRequests :
           /\ reqs' = reqs \cup {x} /\ x.kind = kind /\ x.phase = "sent" /\ x.value = "none"
           /\ x.alive = TRUE
<1> DEFINE N == MaxPolls + MaxStarts
           n == CHOOSE n \in 1 .. N : \A r \in reqs : r.n # n
           x == [n |-> n, kind |-> kind, phase |-> "sent", value |-> "none", alive |-> TRUE]
<1>1. /\ MaxPolls \in Nat /\ MaxStarts \in Nat /\ steps \in 0 .. MaxStarts /\ IsFiniteSet(reqs)
      /\ \A r \in reqs : r.n \in 1 .. N
  BY DEF Row!ConstantsOK, RowInv, RowTypes, RowCount, RowShape, RowRequests
<1>2. Cardinality(reqs) < N
  <2>1. reqs = Row!Polls \cup Others /\ Row!Polls \cap Others = {} /\ Row!Polls \in SUBSET reqs /\ Others \in SUBSET reqs
    BY DEF Row!Polls, Others
  <2>2. IsFiniteSet(Row!Polls) /\ IsFiniteSet(Others)
    BY <1>1, <2>1, FS_Subset
  <2>3. Cardinality(Row!Polls) \in Nat /\ Cardinality(Others) \in Nat /\ Cardinality({}) = 0
    BY <2>2, FS_CardinalityType, FS_EmptySet
  <2>4. Cardinality(reqs) = Cardinality(Row!Polls) + Cardinality(Others)
    <3>1. Cardinality(Row!Polls \cup Others) = Cardinality(Row!Polls) + Cardinality(Others) - Cardinality(Row!Polls \cap Others)
      BY <2>2, FS_Union
    <3>2. Cardinality(reqs) = Cardinality(Row!Polls \cup Others) /\ Cardinality(Row!Polls \cap Others) = 0
      BY <2>1, <2>3, Zenon
    <3> QED BY <2>3, <3>1, <3>2
  <2>5. Cardinality(Row!Polls) <= MaxPolls /\ Cardinality(Others) + (IF asking THEN 1 ELSE 0) <= steps
    BY DEF RowInv, RowCount
  <2> QED BY <1>1, <2>3, <2>4, <2>5
<1>3. N \in Nat
  BY <1>1
<1>4. n \in 1 .. N
  <2> HIDE DEF N
  <2> QED BY <1>1, <1>2, <1>3, RowNumber
<1>5. reqs' = reqs \cup {x}
  BY DEF Row!Send
<1>6. x \in RowRequests
  <2> HIDE DEF n
  <2> QED BY <1>4 DEF RowRequests, Row!Statuses, Row!Active, Row!Terminal
<1> HIDE DEF n
<1> QED BY <1>5, <1>6

(* An effect that ends leaves its requests as they are, but not heard.     *)
LEMMA RowEnded ==
  ASSUME NEW r \in RowRequests
  PROVE  LET x == IF r.kind = "poll" THEN [r EXCEPT !.alive = FALSE] ELSE r IN
           /\ x \in RowRequests /\ x.n = r.n /\ x.kind = r.kind /\ x.phase = r.phase
           /\ x.value = r.value
           /\ x.kind = "poll" => x.alive = FALSE
BY DEF RowRequests

(* A step that asks for nothing new starts nothing either.                 *)
LEMMA RowMaps ==
  ASSUME Row!ConstantsOK, RowInv, NEW f, \A x \in reqs : f[x].kind = x.kind,
         \A t \in reqs' : \E x \in reqs : t = f[x],
         steps' >= steps, steps' \in Nat, asking' = asking
  PROVE  /\ RowCount'
         /\ \A q, r \in reqs' : q.kind = "start" /\ r.kind = "start" => q = r
         /\ (\E r \in reqs' : r.kind = "start") => \E r \in reqs : r.kind = "start"
<1>1. RowCount'
  BY RowCounted
<1>2. \A q, r \in reqs : q.kind = "start" /\ r.kind = "start" => q = r
  BY DEF RowInv, RowStart
<1> QED BY <1>1, <1>2

(* A request is answered, or goes.                                         *)
LEMMA RowReplaces ==
  ASSUME Row!ConstantsOK, RowInv, NEW r \in reqs, NEW x, x.kind = r.kind,
         reqs' = (reqs \ {r}) \cup {x}, UNCHANGED <<steps, asking>>
  PROVE  /\ RowCount'
         /\ \A q, p \in reqs' : q.kind = "start" /\ p.kind = "start" => q = p
         /\ (\E q \in reqs' : q.kind = "start") <=> \E q \in reqs : q.kind = "start"
<1> DEFINE f == [q \in reqs |-> IF q = r THEN x ELSE q]
<1>1. \A q \in reqs : f[q].kind = q.kind
  OBVIOUS
<1>2. \A t \in reqs' : \E q \in reqs : t = f[q]
  OBVIOUS
<1>3. steps \in Nat /\ steps' \in Nat /\ steps' >= steps /\ asking' = asking
  BY DEF RowInv, RowTypes
<1> HIDE DEF f
<1>4. /\ RowCount'
      /\ \A q, p \in reqs' : q.kind = "start" /\ p.kind = "start" => q = p
  BY <1>1, <1>2, <1>3, RowMaps
<1>5. (\E q \in reqs' : q.kind = "start") <=> \E q \in reqs : q.kind = "start"
  OBVIOUS
<1> QED BY <1>4, <1>5

LEMMA RowDrops ==
  ASSUME Row!ConstantsOK, RowInv, NEW r \in reqs, reqs' = reqs \ {r},
         UNCHANGED <<steps, asking>>
  PROVE  /\ RowCount'
         /\ \A q, p \in reqs' : q.kind = "start" /\ p.kind = "start" => q = p
         /\ (\E q \in reqs' : q.kind = "start") <=> r.kind # "start" /\ \E q \in reqs : q.kind = "start"
<1> DEFINE f == [q \in reqs |-> q]
<1>1. \A q \in reqs : f[q].kind = q.kind
  OBVIOUS
<1>2. \A t \in reqs' : \E q \in reqs : t = f[q]
  OBVIOUS
<1>3. steps \in Nat /\ steps' \in Nat /\ steps' >= steps /\ asking' = asking
  BY DEF RowInv, RowTypes
<1> HIDE DEF f
<1>4. /\ RowCount'
      /\ \A q, p \in reqs' : q.kind = "start" /\ p.kind = "start" => q = p
  BY <1>1, <1>2, <1>3, RowMaps
<1>5. (\E q \in reqs' : q.kind = "start") <=> r.kind # "start" /\ \E q \in reqs : q.kind = "start"
  BY DEF RowInv, RowStart
<1> QED BY <1>4, <1>5

(* A badge that is set: the requests that are left, one for one.           *)
Silent(x) == IF x.kind = "poll" THEN [x EXCEPT !.alive = FALSE] ELSE x
Heard(value, R) == [x \in R |-> IF value = badge THEN x ELSE Silent(x)]

LEMMA RowSets ==
  ASSUME NEW R, R \subseteq RowRequests, NEW value, Row!SetTranscodeStatus(value, R)
  PROVE  /\ \A t \in reqs' : \E x \in R : t = Heard(value, R)[x]
         /\ \A x \in R : LET t == Heard(value, R)[x] IN
              /\ t \in reqs' /\ t \in RowRequests /\ t.kind = x.kind /\ t.phase = x.phase
              /\ t.value = x.value /\ t.n = x.n
              /\ t.kind = "poll" /\ t.alive => value = badge /\ x.alive
<1> DEFINE g == Heard(value, R)
<1>1. CASE value = badge
  <2>1. reqs' = R /\ \A x \in R : g[x] = x
    BY <1>1 DEF Row!SetTranscodeStatus, Heard
  <2> HIDE DEF g
  <2> QED BY <1>1, <2>1 DEF g
<1>2. CASE value # badge
  <2>1. reqs' = {Silent(x) : x \in R} /\ \A x \in R : g[x] = Silent(x)
    BY <1>2 DEF Row!SetTranscodeStatus, Row!EndedPolls, Silent, Heard
  <2>2. ASSUME NEW x \in R
        PROVE  /\ Silent(x) \in RowRequests /\ Silent(x).n = x.n /\ Silent(x).kind = x.kind
               /\ Silent(x).phase = x.phase /\ Silent(x).value = x.value
               /\ Silent(x).kind = "poll" => Silent(x).alive = FALSE
    BY RowEnded DEF Silent
  <2> HIDE DEF g
  <2>3. \A t \in reqs' : \E x \in R : t = g[x]
    BY <2>1
  <2>4. ASSUME NEW x \in R
        PROVE  /\ g[x] \in reqs' /\ g[x] \in RowRequests
               /\ g[x].kind = x.kind /\ g[x].phase = x.phase /\ g[x].value = x.value
               /\ g[x].n = x.n
               /\ g[x].kind = "poll" => g[x].alive = FALSE
    <3>1. g[x] = Silent(x) /\ Silent(x) \in reqs'
      BY <2>1
    <3> QED BY <2>2, <3>1
  <2> QED BY <2>3, <2>4 DEF g
<1> QED BY <1>1, <1>2

(* The counts of the page are the ones the library's theorems are about.   *)
LEMMA RowCounts == \A S : Row!Cardinality(S) = Cardinality(S)
BY DEF Cardinality, Row!Cardinality

-----------------------------------------------------------------------------
(* The actions keep the invariant, one by one.                             *)
LEMMA RowPoll == ASSUME Row!ConstantsOK, RowInv, Row!Poll PROVE RowInv'
<1>1. /\ Row!Polling /\ Cardinality(Row!Polls) < MaxPolls /\ Row!Send("poll")
      /\ UNCHANGED <<status, recording, running, job, persisted, present, badge, transcoding, asking, load, steps, retried, missed>>
  BY RowCounts DEF Row!Poll, Row!server, Row!row, Row!history
<1>2. PICK x \in RowRequests :
        reqs' = reqs \cup {x} /\ x.kind = "poll" /\ x.phase = "sent" /\ x.value = "none" /\ x.alive = TRUE
  BY <1>1, RowSends
<1>3. RowTypes' /\ RowFlags'
  BY <1>1, <1>2 DEF RowInv, RowTypes, RowShape, RowFlags, Row!Polling
<1>4. RowCount'
  <2>1. Row!Polls' = Row!Polls \cup {x} /\ Others' = Others
    BY <1>2 DEF Row!Polls, Others
  <2>2. IsFiniteSet(reqs) /\ MaxPolls \in Nat
    BY DEF RowInv, RowCount, Row!ConstantsOK
  <2>3. IsFiniteSet(Row!Polls) /\ Cardinality(Row!Polls) \in Nat
    <3>1. Row!Polls \in SUBSET reqs
      BY DEF Row!Polls
    <3> QED BY <2>2, <3>1, FS_Subset, FS_CardinalityType
  <2>4. IsFiniteSet(reqs')
    BY <1>2, <2>2, FS_AddElement
  <2>5. Cardinality(Row!Polls \cup {x}) <= Cardinality(Row!Polls) + 1 /\ Cardinality(Row!Polls \cup {x}) \in Nat
    <3>1. Cardinality(Row!Polls \cup {x}) = IF x \in Row!Polls THEN Cardinality(Row!Polls) ELSE Cardinality(Row!Polls) + 1
      BY <2>3, FS_AddElement
    <3> QED BY <2>3, <3>1
  <2>6. Cardinality(Row!Polls') <= MaxPolls
    BY <1>1, <2>1, <2>2, <2>3, <2>5
  <2> QED BY <1>1, <2>1, <2>4, <2>6 DEF RowInv, RowCount
<1>5. RowStart' /\ RowJob' /\ RowGone'
  BY <1>1, <1>2 DEF RowInv, RowStart, RowJob, RowGone
<1>6. RowFollows'
  BY <1>1, <1>2 DEF RowInv, RowFollows, Untouched, Starting, Following, RowTold,
    Row!Polling, Row!Active, Row!Terminal, RowJob
<1> QED BY <1>3, <1>4, <1>5, <1>6 DEF RowInv

LEMMA RowTranscodes == ASSUME Row!ConstantsOK, RowInv, Row!TranscodeRecording PROVE RowInv'
<1>1. /\ present /\ ~transcoding /\ ~Row!Polling /\ steps < MaxStarts /\ steps' = steps + 1
      /\ transcoding' = TRUE
      /\ Row!Send("start") /\ retried' = (retried \/ persisted # "none" \/ badge # "none")
      /\ UNCHANGED <<status, recording, running, job, persisted, present, badge, asking, load, missed>>
  BY DEF Row!TranscodeRecording, Row!server
<1>2. PICK x \in RowRequests :
        reqs' = reqs \cup {x} /\ x.kind = "start" /\ x.phase = "sent" /\ x.value = "none" /\ x.alive = TRUE
  BY <1>1, RowSends
<1>3. RowTypes' /\ RowFlags'
  BY <1>1, <1>2 DEF RowInv, RowTypes, RowShape, RowFlags, Row!Polling, Row!ConstantsOK
<1>4. RowCount'
  <2>1. Others' = Others \cup {x} /\ Row!Polls' = Row!Polls
    BY <1>2 DEF Row!Polls, Others
  <2>2. IsFiniteSet(reqs) /\ steps \in Nat
    BY DEF RowInv, RowCount, RowTypes
  <2>3. IsFiniteSet(Others) /\ Cardinality(Others) \in Nat
    <3>1. Others \in SUBSET reqs
      BY DEF Others
    <3> QED BY <2>2, <3>1, FS_Subset, FS_CardinalityType
  <2>4. IsFiniteSet(reqs')
    BY <1>2, <2>2, FS_AddElement
  <2>5. Cardinality(Others \cup {x}) <= Cardinality(Others) + 1 /\ Cardinality(Others \cup {x}) \in Nat
    <3>1. Cardinality(Others \cup {x}) = IF x \in Others THEN Cardinality(Others) ELSE Cardinality(Others) + 1
      BY <2>3, FS_AddElement
    <3> QED BY <2>3, <3>1
  <2>6. Cardinality(Others') + (IF asking' THEN 1 ELSE 0) <= steps'
    BY <1>1, <2>1, <2>2, <2>3, <2>5 DEF RowInv, RowCount
  <2> QED BY <1>1, <2>1, <2>4, <2>6 DEF RowInv, RowCount
<1>5. RowStart' /\ RowJob' /\ RowGone'
  BY <1>1, <1>2 DEF RowInv, RowStart, RowJob, RowGone
<1>6. RowFollows'
  BY <1>1, <1>2 DEF RowInv, RowFollows, Untouched, Starting, Following, RowTold,
    Row!Polling, Row!Active, Row!Terminal, RowJob
<1> QED BY <1>3, <1>4, <1>5, <1>6 DEF RowInv

LEMMA RowAsks == ASSUME Row!ConstantsOK, RowInv, Row!AskDelete PROVE RowInv'
<1>1. /\ ~asking /\ steps < MaxStarts /\ steps' = steps + 1 /\ asking' = TRUE
      /\ UNCHANGED <<status, recording, running, job, persisted, present, badge, transcoding, reqs, load, retried, missed>>
  BY DEF Row!AskDelete, Row!server, Row!history
<1>2. RowTypes' /\ RowFlags' /\ RowStart' /\ RowJob' /\ RowGone'
  BY <1>1 DEF RowInv, RowTypes, RowShape, RowFlags, Row!Polling, Row!ConstantsOK, RowStart,
    RowJob, RowGone
<1>3. RowCount'
  <2>1. IsFiniteSet(reqs) /\ Others \in SUBSET reqs
    BY DEF RowInv, RowCount, Others
  <2>2. Cardinality(Others) \in Nat /\ steps \in Nat
    BY <2>1, FS_Subset, FS_CardinalityType DEF RowInv, RowTypes
  <2>3. Others' = Others /\ Row!Polls' = Row!Polls
    BY <1>1 DEF Others, Row!Polls
  <2> QED BY <1>1, <2>2, <2>3 DEF RowInv, RowCount
<1>4. RowFollows'
  BY <1>1 DEF RowInv, RowFollows, Untouched, Starting, Following, RowTold
<1> QED BY <1>2, <1>3, <1>4 DEF RowInv

LEMMA RowAnswers == ASSUME Row!ConstantsOK, RowInv, NEW yes \in BOOLEAN, Row!AnswerDelete(yes) PROVE RowInv'
<1>1. /\ asking /\ asking' = FALSE /\ IF yes THEN Row!Send("delete") ELSE UNCHANGED reqs
      /\ UNCHANGED <<status, recording, running, job, persisted, present, badge, transcoding, load, steps, retried, missed>>
  BY DEF Row!AnswerDelete, Row!server, Row!history
<1>2. /\ IsFiniteSet(reqs) /\ IsFiniteSet(Others) /\ Cardinality(Others) \in Nat
      /\ steps \in Nat
      /\ Cardinality(Others) + 1 <= steps
  <2>1. IsFiniteSet(reqs) /\ Others \in SUBSET reqs /\ Cardinality(Others) + 1 <= steps
    BY <1>1 DEF RowInv, RowCount, Others
  <2> QED BY <2>1, FS_Subset, FS_CardinalityType DEF RowInv, RowTypes
<1>3. CASE yes
  <2>1. PICK x \in RowRequests :
          reqs' = reqs \cup {x} /\ x.kind = "delete" /\ x.phase = "sent" /\ x.value = "none" /\ x.alive = TRUE
    BY <1>1, <1>3, RowSends
  <2>2. RowTypes' /\ RowFlags'
    BY <1>1, <2>1 DEF RowInv, RowTypes, RowShape, RowFlags, Row!Polling
  <2>3. RowCount'
    <3>1. Others' = Others \cup {x} /\ Row!Polls' = Row!Polls
      BY <2>1 DEF Row!Polls, Others
    <3>2. IsFiniteSet(reqs')
      BY <1>2, <2>1, FS_AddElement
    <3>3. Cardinality(Others \cup {x}) <= Cardinality(Others) + 1 /\ Cardinality(Others \cup {x}) \in Nat
      <4>1. Cardinality(Others \cup {x}) = IF x \in Others THEN Cardinality(Others) ELSE Cardinality(Others) + 1
        BY <1>2, FS_AddElement
      <4> QED BY <1>2, <4>1
    <3> QED BY <1>1, <1>2, <3>1, <3>2, <3>3 DEF RowInv, RowCount
  <2>4. RowStart' /\ RowJob' /\ RowGone'
    BY <1>1, <2>1 DEF RowInv, RowStart, RowJob, RowGone
  <2>5. RowFollows'
    BY <1>1, <2>1 DEF RowInv, RowFollows, Untouched, Starting, Following, RowTold
  <2> QED BY <2>2, <2>3, <2>4, <2>5 DEF RowInv
<1>4. CASE ~yes
  <2>1. reqs' = reqs
    BY <1>1, <1>4
  <2>2. RowTypes' /\ RowFlags' /\ RowStart' /\ RowJob' /\ RowGone'
    BY <1>1, <2>1 DEF RowInv, RowTypes, RowShape, RowFlags, Row!Polling, RowStart, RowJob,
      RowGone
  <2>3. RowCount'
    <3>1. Others' = Others /\ Row!Polls' = Row!Polls
      BY <2>1 DEF Others, Row!Polls
    <3> QED BY <1>1, <1>2, <2>1, <3>1 DEF RowInv, RowCount
  <2>4. RowFollows'
    BY <1>1, <2>1 DEF RowInv, RowFollows, Untouched, Starting, Following, RowTold
  <2> QED BY <2>2, <2>3, <2>4 DEF RowInv
<1> QED BY <1>3, <1>4

(* A request at the server: what changes with its answer.                  *)
LEMMA RowRequest ==
  ASSUME Row!ConstantsOK, RowInv, NEW r \in reqs,
         NEW phase \in {"sent", "read", "served", "refresh"}, NEW value \in Row!Statuses \cup {"error"}, Row!To(r, phase, value)
  PROVE  \E x \in RowRequests :
           /\ x.kind = r.kind /\ x.phase = phase /\ x.value = value /\ x.alive = r.alive
           /\ reqs' = (reqs \ {r}) \cup {x}
<1>1. r \in RowRequests
  BY DEF RowInv, RowTypes, RowShape
<1> DEFINE x == [r EXCEPT !.phase = phase, !.value = value]
<1>2. x \in RowRequests /\ x.kind = r.kind /\ x.phase = phase /\ x.value = value /\ x.alive = r.alive
  BY <1>1 DEF RowRequests
<1>3. reqs' = (reqs \ {r}) \cup {x}
  BY DEF Row!To, Row!Became
<1> HIDE DEF x
<1> QED BY <1>2, <1>3

LEMMA RowReads == ASSUME Row!ConstantsOK, RowInv, NEW r \in reqs, Row!ReadItem(r) PROVE RowInv'
<1>1. /\ r.kind = "poll" /\ r.phase = "sent"
      /\ UNCHANGED <<status, recording, running, job, persisted, present, badge, transcoding, asking, load, steps, retried, missed>>
  BY DEF Row!ReadItem, Row!server, Row!row, Row!history
<1>2. PICK x \in RowRequests :
        /\ x.kind = "poll" /\ x.alive = r.alive /\ reqs' = (reqs \ {r}) \cup {x}
        /\ IF recording THEN x.phase = "read" /\ x.value = status ELSE x.phase = "served" /\ x.value = "error"
  <2>1. status \in Row!Statuses \cup {"error"} /\ "error" \in Row!Statuses \cup {"error"}
    BY DEF RowInv, RowTypes
  <2>2. CASE recording
    BY <1>1, <2>1, <2>2, RowRequest DEF Row!ReadItem
  <2>3. CASE ~recording
    BY <1>1, <2>1, <2>3, RowRequest DEF Row!ReadItem
  <2> QED BY <2>2, <2>3
<1>3. RowTypes' /\ RowFlags'
  BY <1>1, <1>2 DEF RowInv, RowTypes, RowShape, RowFlags, Row!Polling, Row!Statuses,
    Row!Active, Row!Terminal
<1>4. RowCount' /\ RowStart'
  BY <1>1, <1>2, RowReplaces DEF RowInv, RowStart
<1>5. RowJob' /\ RowGone'
  BY <1>1, <1>2 DEF RowInv, RowJob, RowGone
<1>6. RowFollows'
  BY <1>1, <1>2 DEF RowInv, RowFollows, Untouched, Starting, Following, RowTold
<1> QED BY <1>3, <1>4, <1>5, <1>6 DEF RowInv

LEMMA RowStarts == ASSUME Row!ConstantsOK, RowInv, NEW r \in reqs, Row!StartJob(r) PROVE RowInv'
<1>1. /\ r.kind = "start" /\ r.phase = "sent"
      /\ UNCHANGED <<recording, persisted, present, badge, transcoding, asking, load, steps, retried, missed>>
  BY DEF Row!StartJob, Row!row, Row!history
<1>2. PICK x \in RowRequests :
        /\ x.kind = "start" /\ x.alive = r.alive /\ reqs' = (reqs \ {r}) \cup {x}
        /\ IF recording /\ ~running
             THEN running' = TRUE /\ status' = "queued" /\ job' = "queued" /\ x.phase = "read" /\ x.value = "queued"
             ELSE x.phase = "served" /\ x.value = "error" /\ running' = running /\ status' = status /\ job' = job
  <2>1. "queued" \in Row!Statuses \cup {"error"} /\ "error" \in Row!Statuses \cup {"error"}
    BY DEF Row!Statuses, Row!Active
  <2>2. CASE recording /\ ~running
    BY <1>1, <2>1, <2>2, RowRequest DEF Row!StartJob
  <2>3. CASE ~(recording /\ ~running)
    BY <1>1, <2>1, <2>3, RowRequest DEF Row!StartJob
  <2> QED BY <2>2, <2>3
<1>3. RowTypes' /\ RowFlags'
  <2>1. /\ status' \in Row!Statuses /\ running' \in BOOLEAN /\ recording' \in BOOLEAN
        /\ job' \in {"none", "queued", "processing", "saved"}
    BY <1>1, <1>2 DEF RowInv, RowTypes, RowFlags, Row!Statuses, Row!Active
  <2>2. \A q \in reqs' : RowShape(q)'
    BY <1>1, <1>2 DEF RowInv, RowTypes, RowShape, Row!Polling
  <2> QED BY <1>1, <2>1, <2>2 DEF RowInv, RowTypes, RowFlags
<1>4. RowCount' /\ RowStart'
  BY <1>1, <1>2, RowReplaces DEF RowInv, RowStart
<1>5. RowJob' /\ RowGone'
  BY <1>1, <1>2 DEF RowInv, RowJob, RowGone, Row!Active
<1>6. RowFollows'
  <2> SUFFICES ASSUME ~retried, ~missed, recording PROVE RowFollows'
    BY <1>1 DEF RowFollows
  <2>1. r.value = "none" /\ \A q \in reqs : q.kind = "start" => q = r
    BY <1>1 DEF RowInv, RowTypes, RowShape, RowStart
  <2>2. Untouched
    BY <1>1, <2>1 DEF RowInv, RowFollows, Starting, Following
  <2>3. ~running
    BY <2>2 DEF Untouched, RowInv, RowJob
  <2>4. Starting'
    BY <1>1, <1>2, <2>1, <2>2, <2>3 DEF Untouched, Starting
  <2>5. \A q \in reqs' : q.value # "error" => RowTold(q)'
    <3>1. \A q \in reqs' : q = x \/ q.kind = "delete"
      <4>1. \A q \in reqs : q.kind \in {"poll", "start", "delete"} /\ q.kind # "poll"
        BY <2>2 DEF Untouched, RowInv, RowTypes, RowShape, RowRequests
      <4> QED BY <1>2, <2>1, <4>1
    <3>2. x.value = "queued"
      BY <1>2, <2>3
    <3> QED BY <3>1, <3>2 DEF RowTold, Row!Terminal
  <2> QED BY <2>4, <2>5 DEF RowFollows
<1> QED BY <1>3, <1>4, <1>5, <1>6 DEF RowInv

LEMMA RowAnswer == ASSUME Row!ConstantsOK, RowInv, NEW r \in reqs, Row!Answer(r) PROVE RowInv'
<1>1. /\ r.phase = "read"
      /\ UNCHANGED <<status, recording, running, job, persisted, present, badge, transcoding, asking, load, steps, retried, missed>>
  BY DEF Row!Answer, Row!server, Row!row, Row!history
<1>2. r \in RowRequests /\ r.kind # "delete" /\ r.value \in Row!Statuses
  BY <1>1 DEF RowInv, RowTypes, RowShape, RowRequests
<1>3. PICK x \in RowRequests :
        /\ x.kind = r.kind /\ x.alive = r.alive /\ reqs' = (reqs \ {r}) \cup {x}
        /\ x.phase = "served"
        /\ x.value = Row!StatusOf(r.value) /\ x.value \in Row!Statuses
  <2>1. Row!StatusOf(r.value) \in Row!Statuses
    BY <1>2 DEF Row!StatusOf, Row!Statuses, Row!Active, Row!Terminal
  <2> QED BY <2>1, RowRequest DEF Row!Answer
<1>4. RowTypes' /\ RowFlags'
  BY <1>1, <1>2, <1>3 DEF RowInv, RowTypes, RowShape, RowFlags, Row!Polling, Row!Statuses,
    Row!Active, Row!Terminal
<1>5. RowCount' /\ RowStart'
  BY <1>1, <1>3, RowReplaces DEF RowInv, RowStart
<1>6. RowJob' /\ RowGone'
  BY <1>1, <1>2, <1>3 DEF RowInv, RowJob, RowGone
<1>7. RowFollows'
  <2> SUFFICES ASSUME ~retried, ~missed, recording PROVE RowFollows'
    BY <1>1 DEF RowFollows
  <2>1. x.value # "error"
    BY <1>3 DEF Row!Statuses, Row!Active, Row!Terminal
  <2>2. ~Untouched /\ (Starting \/ Following) /\ status # "none" /\ RowTold(r)
    <3>1. r.value # "error" /\ (r.kind = "poll" \/ r.kind = "start")
      BY <1>2 DEF RowRequests, Row!Statuses, Row!Active, Row!Terminal
    <3>2. RowTold(r) /\ (Untouched \/ Starting \/ Following)
      BY <3>1 DEF RowInv, RowFollows
    <3>3. ~Untouched
      BY <1>1, <3>1 DEF Untouched
    <3> QED BY <3>2, <3>3 DEF Starting, Following
  <2>3. RowTold(x)'
    <3>1. job = "none" => status \in Row!Terminal
      BY <2>2 DEF RowInv, RowJob, RowTypes, Row!Statuses
    <3>2. x.value # "none" /\ (x.value \in Row!Terminal => status \in Row!Terminal)
      <4>1. CASE running
        BY <1>3, <4>1 DEF Row!StatusOf, Row!Terminal
      <4>2. CASE ~running
        BY <1>1, <1>2, <1>3, <2>2, <3>1, <4>2 DEF Row!StatusOf, RowTold, RowInv, RowJob
      <4> QED BY <4>1, <4>2
    <3> QED BY <1>1, <3>2 DEF RowTold
  <2>4. \A q \in reqs' : q.value # "error" => RowTold(q)'
    BY <1>1, <1>3, <2>3 DEF RowInv, RowFollows, RowTold
  <2>5. CASE Starting
    <3>1. \A q \in reqs' : q.kind # "poll"
      BY <1>3, <2>5 DEF Starting
    <3>2. \E q \in reqs' : q.kind = "start" /\ q.phase \in {"read", "served"} /\ q.value # "error"
      BY <1>3, <2>1, <2>5 DEF Starting
    <3>3. Starting'
      BY <1>1, <2>5, <3>1, <3>2 DEF Starting
    <3> QED BY <2>4, <3>3 DEF RowFollows
  <2>6. CASE Following
    <3>1. \A q \in reqs' : q.kind = "start" => q.phase = "refresh" \/ q.value = "error"
      <4>1. r.kind # "start"
        BY <1>1, <1>2, <2>6 DEF Following, Row!Statuses, Row!Active, Row!Terminal
      <4> QED BY <1>3, <2>6, <4>1 DEF Following
    <3>2. Following'
      BY <1>1, <2>6, <3>1 DEF Following
    <3> QED BY <2>4, <3>2 DEF RowFollows
  <2> QED BY <2>2, <2>5, <2>6
<1> QED BY <1>4, <1>5, <1>6, <1>7 DEF RowInv

LEMMA RowDeletes == ASSUME Row!ConstantsOK, RowInv, NEW r \in reqs, Row!DeleteServed(r) PROVE RowInv'
<1>1. /\ r.kind = "delete" /\ r.phase = "sent"
      /\ UNCHANGED <<running, job, persisted, present, badge, transcoding, asking, load, steps, retried, missed>>
  BY DEF Row!DeleteServed, Row!row, Row!history
<1>2. PICK x \in RowRequests :
        /\ x.kind = "delete" /\ x.alive = r.alive /\ reqs' = (reqs \ {r}) \cup {x}
        /\ x.phase = "served"
        /\ IF recording /\ ~running
             THEN recording' = FALSE /\ status' = "none" /\ x.value = "none"
             ELSE x.value = "error" /\ recording' = recording /\ status' = status
  <2>1. "none" \in Row!Statuses \cup {"error"} /\ "error" \in Row!Statuses \cup {"error"}
    BY DEF Row!Statuses
  <2>2. CASE recording /\ ~running
    BY <1>1, <2>1, <2>2, RowRequest DEF Row!DeleteServed
  <2>3. CASE ~(recording /\ ~running)
    BY <1>1, <2>1, <2>3, RowRequest DEF Row!DeleteServed
  <2> QED BY <2>2, <2>3
<1>3. RowTypes' /\ RowFlags'
  <2>1. /\ status' \in Row!Statuses /\ running' \in BOOLEAN /\ recording' \in BOOLEAN
        /\ job' \in {"none", "queued", "processing", "saved"}
    BY <1>1, <1>2 DEF RowInv, RowTypes, RowFlags, Row!Statuses, Row!Active
  <2>2. \A q \in reqs' : RowShape(q)'
    BY <1>1, <1>2 DEF RowInv, RowTypes, RowShape, Row!Polling
  <2> QED BY <1>1, <2>1, <2>2 DEF RowInv, RowTypes, RowFlags
<1>4. RowCount' /\ RowStart'
  BY <1>1, <1>2, RowReplaces DEF RowInv, RowStart
<1>5. RowJob'
  BY <1>1, <1>2 DEF RowInv, RowJob, Row!Active
<1>6. RowGone'
  BY <1>1, <1>2 DEF RowInv, RowGone, RowFlags
<1>7. RowFollows'
  BY <1>1, <1>2 DEF RowInv, RowFollows, Untouched, Starting, Following, RowTold
<1> QED BY <1>3, <1>4, <1>5, <1>6, <1>7 DEF RowInv

LEMMA RowLoses == ASSUME Row!ConstantsOK, RowInv, NEW r \in reqs, Row!Lost(r) PROVE RowInv'
<1>1. /\ r.phase \in {"sent", "served"} /\ r.value # "error"
      /\ missed' = (missed \/ (r.phase = "served" /\ r.kind # "poll"))
      /\ UNCHANGED <<status, recording, running, job, persisted, present, badge, transcoding, asking, load, steps, retried>>
  BY DEF Row!Lost, Row!server, Row!row
<1>2. PICK x \in RowRequests :
        /\ x.kind = r.kind /\ x.alive = r.alive /\ reqs' = (reqs \ {r}) \cup {x}
        /\ x.phase = "served" /\ x.value = "error"
  <2>1. "error" \in Row!Statuses \cup {"error"}
    OBVIOUS
  <2> QED BY <2>1, RowRequest DEF Row!Lost
<1>3. RowTypes' /\ RowFlags'
  BY <1>1, <1>2 DEF RowInv, RowTypes, RowShape, RowFlags, Row!Polling
<1>4. RowCount' /\ RowStart'
  BY <1>1, <1>2, RowReplaces DEF RowInv, RowStart
<1>5. RowJob' /\ RowGone'
  BY <1>1, <1>2 DEF RowInv, RowJob, RowGone
<1>6. RowFollows'
  BY <1>1, <1>2 DEF RowInv, RowFollows, Untouched, Starting, Following, RowTold
<1> QED BY <1>3, <1>4, <1>5, <1>6 DEF RowInv

(* A step that leaves page and requests alone keeps what is said of them.  *)
LEMMA RowStill ==
  ASSUME Row!ConstantsOK, RowInv, UNCHANGED <<reqs, transcoding, asking>>, steps' >= steps,
         steps' \in 0 .. MaxStarts
  PROVE  RowCount' /\ RowStart'
<1>1. Row!Polls' = Row!Polls /\ Others' = Others /\ IsFiniteSet(Others) /\ steps \in Nat /\ steps' \in Nat
  <2>1. IsFiniteSet(reqs) /\ Others \in SUBSET reqs
    BY DEF RowInv, RowCount, Others
  <2>2. steps \in Nat /\ steps' \in Nat
    BY DEF Row!ConstantsOK, RowInv, RowTypes
  <2> QED BY <2>1, <2>2, FS_Subset DEF Row!Polls, Others
<1>2. Cardinality(Others) \in Nat
  BY <1>1, FS_CardinalityType
<1> QED BY <1>1, <1>2 DEF RowInv, RowCount, RowStart

LEMMA RowJobSteps == ASSUME Row!ConstantsOK, RowInv, Row!JobStep PROVE RowInv'
<1>1. /\ UNCHANGED <<recording, persisted, present, badge, transcoding, asking, reqs, load, steps, retried, missed>>
      /\ \/ job = "queued" /\ job' = "processing" /\ status' = "processing" /\ running' = running
         \/ job = "processing" /\ job' = "saved" /\ status' \in Row!Terminal /\ running' = running
         \/ job = "saved" /\ job' = "none" /\ running' = FALSE /\ status' = status
  BY DEF Row!JobStep, Row!JobBegin, Row!JobEnd, Row!JobFinish, Row!row, Row!history
<1>2. steps' >= steps /\ steps' \in 0 .. MaxStarts
  BY <1>1 DEF RowInv, RowTypes, Row!ConstantsOK
<1>3. RowTypes' /\ RowFlags'
  <2>1. status' \in Row!Statuses /\ running' \in BOOLEAN
    BY <1>1 DEF RowInv, RowTypes, RowFlags, Row!Statuses, Row!Active
  <2>2. job' \in {"none", "queued", "processing", "saved"}
    BY <1>1
  <2>3. \A q \in reqs' : RowShape(q)'
    BY <1>1 DEF RowInv, RowTypes, RowShape, Row!Polling
  <2> QED BY <1>1, <2>1, <2>2, <2>3 DEF RowInv, RowTypes, RowFlags
<1>4. RowCount' /\ RowStart'
  BY <1>1, <1>2, RowStill
<1>5. RowJob'
  BY <1>1 DEF RowInv, RowJob, RowFlags, Row!Active, Row!Terminal
<1>6. RowGone'
  BY <1>1 DEF RowInv, RowGone
<1>7. RowFollows'
  <2> SUFFICES ASSUME ~retried, ~missed, recording PROVE RowFollows'
    BY <1>1 DEF RowFollows
  <2>1. job # "none" /\ (Starting \/ Following) /\ \A q \in reqs : q.value # "error" => RowTold(q)
    BY <1>1 DEF RowInv, RowFollows, Untouched
  <2>2. status' # "none" /\ (status \in Row!Terminal => status' = status)
    BY <1>1 DEF RowInv, RowJob, Row!Terminal
  <2>3. \A q \in reqs' : q.value # "error" => RowTold(q)'
    BY <1>1, <2>1, <2>2 DEF RowTold
  <2>4. Starting => Starting'
    BY <1>1, <2>2 DEF Starting
  <2>5. Following => Following'
    BY <1>1, <2>2 DEF Following
  <2> QED BY <2>1, <2>3, <2>4, <2>5 DEF RowFollows
<1> QED BY <1>3, <1>4, <1>5, <1>6, <1>7 DEF RowInv

LEMMA RowOthers == ASSUME Row!ConstantsOK, RowInv, Row!OtherStarts PROVE RowInv'
<1>1. /\ recording /\ ~running /\ steps < MaxStarts /\ steps' = steps + 1
      /\ running' = TRUE /\ status' = "queued" /\ job' = "queued" /\ missed' = TRUE
      /\ UNCHANGED <<recording, persisted, present, badge, transcoding, asking, reqs, load, retried>>
  BY DEF Row!OtherStarts, Row!row
<1>2. steps' >= steps /\ steps' \in 0 .. MaxStarts
  BY <1>1 DEF RowInv, RowTypes, Row!ConstantsOK
<1>3. RowTypes' /\ RowFlags'
  <2>1. \A q \in reqs' : RowShape(q)'
    BY <1>1 DEF RowInv, RowTypes, RowShape, Row!Polling
  <2> QED BY <1>1, <1>2, <2>1 DEF RowInv, RowTypes, RowFlags, Row!Statuses, Row!Active
<1>4. RowCount' /\ RowStart'
  BY <1>1, <1>2, RowStill
<1>5. RowJob' /\ RowGone' /\ RowFollows'
  BY <1>1 DEF RowInv, RowJob, RowGone, RowFollows, RowFlags, Row!Active
<1> QED BY <1>3, <1>4, <1>5 DEF RowInv

LEMMA RowRestarts == ASSUME Row!ConstantsOK, RowInv, Row!Restart PROVE RowInv'
<1> DEFINE e(r) == IF r.phase = "served" THEN r ELSE [r EXCEPT !.phase = "served", !.value = "error"]
           f == [r \in reqs |-> e(r)]
<1>1. /\ steps < MaxStarts /\ steps' = steps + 1 /\ running' = FALSE /\ job' = "none"
      /\ status' = IF status \in Row!Active THEN "failed" ELSE status
      /\ reqs' = {e(r) : r \in reqs}
      /\ missed' = (missed \/ (\E r \in reqs : r.kind = "start" /\ r.phase = "read"))
      /\ UNCHANGED <<recording, persisted, present, badge, transcoding, asking, load, retried>>
  BY DEF Row!Restart, Row!row
<1>2. ASSUME NEW r \in reqs
      PROVE  /\ e(r) \in RowRequests /\ e(r).kind = r.kind /\ e(r).alive = r.alive
             /\ e(r).phase = "served"
             /\ IF r.phase = "served" THEN e(r) = r ELSE e(r).value = "error"
  BY DEF RowInv, RowTypes, RowShape, RowRequests
<1> HIDE DEF e
<1>3. steps \in Nat /\ steps' \in 0 .. MaxStarts /\ steps' \in Nat /\ steps' >= steps /\ asking' = asking
  BY <1>1 DEF RowInv, RowTypes, Row!ConstantsOK
<1>4. RowTypes' /\ RowFlags'
  <2>1. \A q \in reqs' : RowShape(q)'
    BY <1>1, <1>2 DEF RowInv, RowTypes, RowShape, Row!Polling
  <2>2. status' \in Row!Statuses
    BY <1>1 DEF RowInv, RowTypes, Row!Statuses, Row!Terminal
  <2> QED BY <1>1, <1>3, <2>1, <2>2 DEF RowInv, RowTypes, RowFlags
<1>5. RowCount' /\ \A q, r \in reqs' : q.kind = "start" /\ r.kind = "start" => q = r
  <2>1. \A x \in reqs : f[x].kind = x.kind
    BY <1>2
  <2>2. \A t \in reqs' : \E x \in reqs : t = f[x]
    BY <1>1
  <2> HIDE DEF f
  <2> QED BY <1>3, <2>1, <2>2, RowMaps
<1>6. (\E q \in reqs' : q.kind = "start") <=> \E q \in reqs : q.kind = "start"
  BY <1>1, <1>2
<1>7. RowStart'
  BY <1>1, <1>5, <1>6 DEF RowInv, RowStart
<1>8. RowJob'
  BY <1>1 DEF RowInv, RowJob, Row!Active
<1>9. RowGone'
  <2>1. (\E r \in reqs : r.kind = "delete" /\ r.phase = "served" /\ r.value # "error") =>
        \E r \in reqs' : r.kind = "delete" /\ r.phase = "served" /\ r.value # "error"
    BY <1>1, <1>2
  <2>2. \A r \in reqs' : r.value # "error" => r \in reqs
    BY <1>1, <1>2
  <2>3. missed => missed'
    BY <1>1
  <2> QED BY <1>1, <2>1, <2>2, <2>3 DEF RowInv, RowGone
<1>10. RowFollows'
  <2> SUFFICES ASSUME ~retried, ~missed', recording PROVE RowFollows'
    BY <1>1 DEF RowFollows
  <2>1. ~missed /\ \A r \in reqs : ~(r.kind = "start" /\ r.phase = "read")
    BY <1>1
  <2>2. (Untouched \/ Starting \/ Following) /\ \A q \in reqs : q.value # "error" => RowTold(q)
    BY <2>1 DEF RowInv, RowFollows
  <2>3. \A r \in reqs' : r.value # "error" => r \in reqs
    BY <1>1, <1>2
  <2>4. (status = "none" <=> status' = "none") /\ (status \in Row!Terminal => status' = status)
    BY <1>1 DEF Row!Active, Row!Terminal
  <2>5. \A q \in reqs' : q.value # "error" => RowTold(q)'
    BY <2>2, <2>3, <2>4 DEF RowTold
  <2>6. CASE Untouched
    <3>1. status' = status
      BY <1>1, <2>6 DEF Untouched, RowInv, RowJob
    <3>2. \A r \in reqs' : r.kind # "poll" /\ (r.kind = "start" => persisted = "none" /\ (r.phase = "sent" \/ r.value = "error"))
      <4>1. ASSUME NEW r \in reqs PROVE r.kind # "poll" /\ (r.kind = "start" => persisted = "none" /\ e(r).value = "error")
        BY <1>2, <2>6 DEF Untouched
      <4> QED BY <1>1, <1>2, <4>1
    <3>3. Untouched'
      BY <1>1, <2>6, <3>1, <3>2 DEF Untouched
    <3> QED BY <2>5, <3>3 DEF RowFollows
  <2>7. CASE Starting
    <3>1. \A r \in reqs' : r.kind # "poll"
      BY <1>1, <1>2, <2>7 DEF Starting
    <3>2. \E r \in reqs' : r.kind = "start" /\ r.phase \in {"read", "served"} /\ r.value # "error"
      <4>1. PICK r \in reqs : r.kind = "start" /\ r.phase = "served" /\ r.value # "error"
        BY <2>1, <2>7 DEF Starting
      <4> QED BY <1>1, <1>2, <4>1
    <3>3. Starting'
      BY <1>1, <2>4, <2>7, <3>1, <3>2 DEF Starting
    <3> QED BY <2>5, <3>3 DEF RowFollows
  <2>8. CASE Following
    <3>1. \A r \in reqs' : r.kind = "start" => r.phase = "refresh" \/ r.value = "error"
      BY <1>1, <1>2, <2>8 DEF Following
    <3>2. Following'
      BY <1>1, <2>4, <2>8, <3>1 DEF Following
    <3> QED BY <2>5, <3>2 DEF RowFollows
  <2> QED BY <2>2, <2>6, <2>7, <2>8
<1> QED BY <1>4, <1>5, <1>7, <1>8, <1>9, <1>10 DEF RowInv

LEMMA RowServes == ASSUME Row!ConstantsOK, RowInv, Row!ServeLoad PROVE RowInv'
<1>1. /\ load.phase = "sent"
      /\ load' = [phase |-> "served", status |-> status, recording |-> recording]
      /\ UNCHANGED <<status, recording, running, job, persisted, present, badge, transcoding, asking, reqs, steps, retried, missed>>
  BY DEF Row!ServeLoad, Row!server, Row!row, Row!history
<1>2. steps' >= steps /\ steps' \in 0 .. MaxStarts
  BY <1>1 DEF RowInv, RowTypes, Row!ConstantsOK
<1>3. RowTypes' /\ RowFlags'
  <2>1. \A q \in reqs' : RowShape(q)'
    BY <1>1 DEF RowInv, RowTypes, RowShape, Row!Polling
  <2> QED BY <1>1, <2>1 DEF RowInv, RowTypes, RowFlags
<1>4. RowCount' /\ RowStart'
  BY <1>1, <1>2, RowStill
<1>5. RowJob' /\ RowGone'
  BY <1>1 DEF RowInv, RowJob, RowGone
<1>6. RowFollows'
  <2> SUFFICES ASSUME ~retried, ~missed, recording PROVE RowFollows'
    BY <1>1 DEF RowFollows
  <2>1. Following /\ \A q \in reqs : q.value # "error" => RowTold(q)
    BY <1>1 DEF RowInv, RowFollows, Untouched, Starting, Row!NoLoad
  <2>2. Following'
    BY <1>1, <2>1 DEF Following
  <2> QED BY <1>1, <2>1, <2>2 DEF RowFollows, RowTold
<1> QED BY <1>3, <1>4, <1>5, <1>6 DEF RowInv

(* A request that goes with no effect but a refresh, perhaps.              *)
LEMMA RowRefreshes ==
  ASSUME Row!ConstantsOK, RowInv, NEW r \in reqs, reqs' = reqs \ {r},
         load' = load \/ Row!Refresh,
         UNCHANGED <<status, recording, running, job, persisted, present, badge, asking, steps, retried, missed>>,
         transcoding' = (transcoding /\ r.kind # "start")
  PROVE  /\ RowTypes' /\ RowFlags' /\ RowCount' /\ RowStart' /\ RowJob'
         /\ RowFollows => \A q \in reqs' : ~retried' /\ ~missed' /\ recording' /\ q.value # "error" => RowTold(q)'
<1>1. RowTypes' /\ RowFlags'
  <2>1. \A q \in reqs' : RowShape(q)'
    BY DEF RowInv, RowTypes, RowShape, Row!Polling
  <2>2. load' \in [phase : {"none", "sent", "served"}, status : Row!Statuses, recording : BOOLEAN]
    BY DEF RowInv, RowTypes, Row!Refresh, Row!NoLoad, Row!Statuses
  <2>3. load'.phase = "none" => load' = Row!NoLoad
    BY DEF RowInv, RowTypes, Row!Refresh, Row!NoLoad
  <2> QED BY <2>1, <2>2, <2>3 DEF RowInv, RowTypes, RowFlags
<1>2. RowCount' /\ RowStart'
  BY RowDrops DEF RowInv, RowStart, RowFlags
<1>3. RowJob'
  BY DEF RowInv, RowJob
<1> QED BY <1>1, <1>2, <1>3 DEF RowFollows, RowTold

LEMMA RowDeleteAnswered == ASSUME Row!ConstantsOK, RowInv, NEW r \in reqs, Row!DeleteAnswered(r) PROVE RowInv'
<1>1. /\ r.kind = "delete" /\ r.phase = "served" /\ reqs' = reqs \ {r}
      /\ IF r.value = "error" THEN load' = load ELSE Row!Refresh
      /\ UNCHANGED <<status, recording, running, job, persisted, present, badge, transcoding, asking, steps, retried, missed>>
  BY DEF Row!DeleteAnswered, Row!server, Row!row, Row!history
<1>2. transcoding' = (transcoding /\ r.kind # "start")
  BY <1>1 DEF RowInv, RowFlags
<1>3. /\ RowTypes' /\ RowFlags' /\ RowCount' /\ RowStart' /\ RowJob'
      /\ \A q \in reqs' : ~retried' /\ ~missed' /\ recording' /\ q.value # "error" => RowTold(q)'
  BY <1>1, <1>2, RowRefreshes DEF RowInv
<1>4. RowGone'
  BY <1>1 DEF RowInv, RowGone, Row!Refresh, Row!NoLoad
<1>5. RowFollows'
  <2> SUFFICES ASSUME ~retried, ~missed, recording PROVE RowFollows'
    BY <1>1 DEF RowFollows
  <2>1. load' = load
    BY <1>1 DEF RowInv, RowGone
  <2>2. Untouched \/ Starting \/ Following
    BY DEF RowInv, RowFollows
  <2>3. Untouched => Untouched'
    BY <1>1, <2>1 DEF Untouched
  <2>4. Starting => Starting'
    BY <1>1, <2>1 DEF Starting
  <2>5. Following => Following'
    BY <1>1, <2>1 DEF Following
  <2> QED BY <1>3, <2>2, <2>3, <2>4, <2>5 DEF RowFollows
<1> QED BY <1>3, <1>4, <1>5 DEF RowInv

LEMMA RowPollAnswered == ASSUME Row!ConstantsOK, RowInv, NEW r \in reqs, Row!PollAnswered(r) PROVE RowInv'
<1>1. /\ r.kind = "poll" /\ r.phase = "served"
      /\ UNCHANGED <<status, recording, running, job, persisted, present, transcoding, asking, steps, retried, missed>>
  BY DEF Row!PollAnswered, Row!server, Row!history
<1>2. r \in RowRequests /\ steps \in Nat /\ steps' \in Nat /\ steps' >= steps /\ asking' = asking
  BY <1>1 DEF RowInv, RowTypes, RowShape
<1>3. CASE ~(r.alive /\ r.value # "error")
  <2>1. reqs' = reqs \ {r} /\ badge' = badge /\ load' = load
    BY <1>3 DEF Row!PollAnswered
  <2>2. transcoding' = (transcoding /\ r.kind # "start")
    BY <1>1 DEF RowInv, RowFlags
  <2>3. /\ RowTypes' /\ RowFlags' /\ RowCount' /\ RowStart' /\ RowJob'
        /\ \A q \in reqs' : ~retried' /\ ~missed' /\ recording' /\ q.value # "error" => RowTold(q)'
    BY <1>1, <2>1, <2>2, RowRefreshes DEF RowInv
  <2>4. RowGone'
    BY <1>1, <2>1 DEF RowInv, RowGone
  <2>5. RowFollows'
    <3>1. (Untouched => Untouched') /\ (Starting => Starting') /\ (Following => Following')
      BY <1>1, <2>1 DEF Untouched, Starting, Following
    <3> QED BY <1>1, <2>3, <3>1 DEF RowInv, RowFollows
  <2> QED BY <2>3, <2>4, <2>5 DEF RowInv
<1>4. CASE r.alive /\ r.value # "error"
  <2> DEFINE R == reqs \ {r}
             h == Heard(r.value, R)
             f == [x \in reqs |-> IF x = r THEN x ELSE h[x]]
  <2>1. /\ Row!SetTranscodeStatus(r.value, R) /\ badge' = r.value
        /\ IF r.value \in Row!Terminal THEN Row!Refresh ELSE load' = load
    BY <1>4 DEF Row!PollAnswered, Row!SetTranscodeStatus
  <2>2. R \subseteq RowRequests
    BY DEF RowInv, RowTypes, RowShape
  <2>3. /\ \A t \in reqs' : \E x \in R : t = h[x]
        /\ \A x \in R : LET t == h[x] IN
             /\ t \in reqs' /\ t \in RowRequests /\ t.kind = x.kind /\ t.phase = x.phase
             /\ t.value = x.value
             /\ t.kind = "poll" /\ t.alive => r.value = badge /\ x.alive
    <3> HIDE DEF R
    <3> QED BY <2>1, <2>2, RowSets
  <2> HIDE DEF h
  <2>4. r.value \in Row!Statuses
    BY <1>2, <1>4 DEF RowRequests
  <2>5. badge \in Row!Active
    BY <1>1, <1>4 DEF RowInv, RowTypes, RowShape, Row!Polling
  <2>6. load' \in [phase : {"none", "sent", "served"}, status : Row!Statuses, recording : BOOLEAN] /\ (load'.phase = "none" => load' = Row!NoLoad)
    BY <2>1 DEF RowInv, RowTypes, Row!Refresh, Row!NoLoad, Row!Statuses
  <2>7. RowTypes' /\ RowFlags'
    <3>1. ASSUME NEW q \in reqs' PROVE RowShape(q)'
      <4>1. PICK x \in R : q = h[x]
        BY <2>3
      <4>2. RowShape(x)
        BY DEF RowInv, RowTypes
      <4>3. q.kind = "poll" /\ q.alive => Row!Polling'
        BY <2>1, <2>3, <2>5, <4>1 DEF Row!Polling
      <4> QED BY <2>3, <4>1, <4>2, <4>3 DEF RowShape
    <3> QED BY <1>1, <2>1, <2>4, <2>6, <3>1 DEF RowInv, RowTypes, RowFlags
  <2>8. RowCount' /\ \A q, p \in reqs' : q.kind = "start" /\ p.kind = "start" => q = p
    <3>1. \A x \in reqs : f[x].kind = x.kind
      BY <2>3
    <3>2. \A t \in reqs' : \E x \in reqs : t = f[x]
      BY <2>3
    <3> HIDE DEF f
    <3> QED BY <1>2, <3>1, <3>2, RowMaps
  <2>9. RowStart'
    <3>1. (\E q \in reqs' : q.kind = "start") <=> \E q \in reqs : q.kind = "start"
      BY <1>1, <2>3
    <3> QED BY <1>1, <2>8, <3>1 DEF RowInv, RowStart
  <2>10. RowJob'
    BY <1>1 DEF RowInv, RowJob
  <2>11. RowGone'
    <3>1. (\E q \in reqs : q.kind = "delete" /\ q.phase = "served" /\ q.value # "error") =>
          \E q \in reqs' : q.kind = "delete" /\ q.phase = "served" /\ q.value # "error"
      BY <1>1, <2>3
    <3>2. \A q \in reqs' : q.kind = "delete" /\ q.phase = "served" /\ q.value # "error" => ~recording
      BY <2>3 DEF RowInv, RowGone
    <3>3. Row!Refresh => load'.phase = "sent" /\ load'.recording = TRUE
      BY DEF Row!Refresh, Row!NoLoad
    <3> QED BY <1>1, <2>1, <3>1, <3>2, <3>3 DEF RowInv, RowGone
  <2>12. RowFollows'
    <3> SUFFICES ASSUME ~retried, ~missed, recording PROVE RowFollows'
      BY <1>1 DEF RowFollows
    <3>1. Following /\ \A q \in reqs : q.value # "error" => RowTold(q)
      BY <1>1 DEF RowInv, RowFollows, Untouched, Starting
    <3>2. r.value # "none" /\ (r.value \in Row!Terminal => status \in Row!Terminal)
      BY <1>1, <1>4, <3>1 DEF RowTold
    <3>3. \A q \in reqs' : q.value # "error" => RowTold(q)'
      BY <1>1, <2>3, <3>1 DEF RowTold
    <3>4. \A q \in reqs' : q.kind = "start" => q.phase = "refresh" \/ q.value = "error"
      BY <2>3, <3>1 DEF Following
    <3>5. persisted \notin Row!Terminal
      BY <2>5, <3>1 DEF Following
    <3>6. Row!Refresh => load'.phase = "sent"
      BY DEF Row!Refresh, Row!NoLoad
    <3>7. badge' # "none" /\ (badge' \in Row!Terminal => status \in Row!Terminal /\ load'.phase = "sent" /\ persisted # status)
      BY <2>1, <3>2, <3>5, <3>6
    <3>8. badge \notin Row!Terminal
      BY <2>5 DEF Row!Active, Row!Terminal
    <3>9. Following'
      BY <1>1, <2>1, <3>1, <3>4, <3>5, <3>6, <3>7, <3>8 DEF Following
    <3> QED BY <3>3, <3>9 DEF RowFollows
  <2> QED BY <2>7, <2>8, <2>9, <2>10, <2>11, <2>12 DEF RowInv
<1> QED BY <1>3, <1>4

LEMMA RowStartAnswered == ASSUME Row!ConstantsOK, RowInv, NEW r \in reqs, Row!StartAnswered(r) PROVE RowInv'
<1>1. /\ r.kind = "start" /\ r.phase = "served"
      /\ UNCHANGED <<status, recording, running, job, persisted, present, asking, steps, retried, missed>>
  BY DEF Row!StartAnswered, Row!server, Row!history
<1>2. r \in RowRequests /\ steps \in Nat /\ steps' \in Nat /\ steps' >= steps /\ asking' = asking
  BY <1>1 DEF RowInv, RowTypes, RowShape
<1>3. CASE r.value = "error"
  <2>1. reqs' = reqs \ {r} /\ badge' = badge /\ load' = load /\ transcoding' = FALSE
    BY <1>3 DEF Row!StartAnswered
  <2>2. transcoding' = (transcoding /\ r.kind # "start")
    BY <1>1, <2>1
  <2>3. /\ RowTypes' /\ RowFlags' /\ RowCount' /\ RowStart' /\ RowJob'
        /\ \A q \in reqs' : ~retried' /\ ~missed' /\ recording' /\ q.value # "error" => RowTold(q)'
    BY <1>1, <2>1, <2>2, RowRefreshes DEF RowInv
  <2>4. RowGone'
    BY <1>1, <2>1 DEF RowInv, RowGone
  <2>5. RowFollows'
    <3>1. (Untouched => Untouched') /\ (Starting => Starting') /\ (Following => Following')
      BY <1>1, <1>3, <2>1 DEF Untouched, Starting, Following
    <3> QED BY <1>1, <2>3, <3>1 DEF RowInv, RowFollows
  <2> QED BY <2>3, <2>4, <2>5 DEF RowInv
<1>4. CASE r.value # "error"
  <2> DEFINE x0 == [r EXCEPT !.phase = "refresh", !.value = r.value]
             R == Row!Became(r, "refresh", r.value)
             h == Heard(r.value, R)
             f == [x \in reqs |-> IF x = r THEN h[x0] ELSE h[x]]
  <2>1. /\ Row!SetTranscodeStatus(r.value, R) /\ badge' = r.value /\ Row!Refresh
        /\ transcoding' = transcoding
    BY <1>4 DEF Row!StartAnswered, Row!SetTranscodeStatus
  <2>2. x0 \in RowRequests /\ x0.kind = "start" /\ x0.phase = "refresh" /\ x0.value = r.value
    BY <1>1, <1>2 DEF RowRequests
  <2>3. R = (reqs \ {r}) \cup {x0}
    BY DEF Row!Became
  <2> HIDE DEF x0
  <2>4. R \subseteq RowRequests
    BY <2>2, <2>3 DEF RowInv, RowTypes, RowShape
  <2> HIDE DEF R
  <2>5. /\ \A t \in reqs' : \E x \in R : t = h[x]
        /\ \A x \in R : LET t == h[x] IN
             /\ t \in reqs' /\ t \in RowRequests /\ t.kind = x.kind /\ t.phase = x.phase
             /\ t.value = x.value
             /\ t.kind = "poll" /\ t.alive => r.value = badge /\ x.alive
    BY <2>1, <2>4, RowSets
  <2> HIDE DEF h
  <2>6. r.value \in Row!Statuses
    BY <1>2, <1>4 DEF RowRequests
  <2>7. load' \in [phase : {"none", "sent", "served"}, status : Row!Statuses, recording : BOOLEAN] /\ load'.phase = "sent"
    BY <2>1 DEF RowInv, RowTypes, Row!Refresh, Row!NoLoad, Row!Statuses
  <2>8. RowTypes' /\ RowFlags'
    <3>1. ASSUME NEW q \in reqs' PROVE RowShape(q)'
      <4>1. PICK x \in R : q = h[x]
        BY <2>5
      <4>2. CASE x = x0
        BY <1>4, <2>2, <2>5, <4>1, <4>2 DEF RowShape
      <4>3. CASE x \in reqs
        <5>1. RowShape(x)
          BY <4>3 DEF RowInv, RowTypes
        <5>2. q.kind = "poll" /\ q.alive => Row!Polling'
          BY <2>1, <2>5, <4>1, <5>1 DEF Row!Polling, RowShape
        <5> QED BY <2>5, <4>1, <5>1, <5>2 DEF RowShape
      <4> QED BY <2>3, <4>1, <4>2, <4>3
    <3> QED BY <1>1, <2>1, <2>6, <2>7, <3>1 DEF RowInv, RowTypes, RowFlags
  <2>9. RowCount' /\ \A q, p \in reqs' : q.kind = "start" /\ p.kind = "start" => q = p
    <3>1. \A x \in reqs : f[x].kind = x.kind
      BY <1>1, <2>2, <2>3, <2>5
    <3>2. \A t \in reqs' : \E x \in reqs : t = f[x]
      BY <2>3, <2>5
    <3> HIDE DEF f
    <3> QED BY <1>2, <3>1, <3>2, RowMaps
  <2>10. RowStart'
    <3>1. \E q \in reqs' : q.kind = "start"
      BY <2>2, <2>3, <2>5
    <3> QED BY <1>1, <2>1, <2>9, <3>1 DEF RowInv, RowStart
  <2>11. RowJob'
    BY <1>1 DEF RowInv, RowJob
  <2>12. RowGone'
    <3>1. \A q \in reqs' : q.kind = "delete" /\ q.phase = "served" /\ q.value # "error" => ~recording
      BY <2>2, <2>3, <2>5 DEF RowInv, RowGone
    <3>2. load'.recording = TRUE
      BY <2>1 DEF Row!Refresh, Row!NoLoad
    <3> QED BY <1>1, <2>7, <3>1, <3>2 DEF RowInv, RowGone
  <2>13. RowFollows'
    <3> SUFFICES ASSUME ~retried, ~missed, recording PROVE RowFollows'
      BY <1>1 DEF RowFollows
    <3>1. Starting /\ \A q \in reqs : q.value # "error" => RowTold(q)
      BY <1>1, <1>4 DEF RowInv, RowFollows, Untouched, Following
    <3>2. r.value # "none" /\ (r.value \in Row!Terminal => status \in Row!Terminal)
      BY <1>1, <1>4, <3>1 DEF RowTold
    <3>3. \A q \in reqs' : q.value # "error" => RowTold(q)'
      <4>1. ASSUME NEW x \in R, x.value # "error" PROVE RowTold(x)
        BY <2>2, <2>3, <3>1, <4>1 DEF RowTold
      <4> QED BY <1>1, <2>5, <4>1 DEF RowTold
    <3>4. \A q \in reqs' : q.kind = "start" => q.phase = "refresh" \/ q.value = "error"
      <4>1. \A q \in reqs : q.kind = "start" => q = r
        BY <1>1 DEF RowInv, RowStart
      <4> QED BY <2>2, <2>3, <2>5, <4>1
    <3>5. Following'
      BY <1>1, <2>1, <2>7, <3>1, <3>2, <3>4 DEF Following, Starting, Row!Terminal
    <3> QED BY <3>3, <3>5 DEF RowFollows
  <2> QED BY <2>8, <2>9, <2>10, <2>11, <2>12, <2>13 DEF RowInv
<1> QED BY <1>3, <1>4

LEMMA RowLoads == ASSUME Row!ConstantsOK, RowInv, Row!Loaded PROVE RowInv'
<1> DEFINE over == {r \in reqs : r.phase = "refresh"}
           R == reqs \ over
           value == Row!BadgeLoaded(load.status)
           h == Heard(value, R)
           f == [x \in reqs |-> IF x \in over THEN x ELSE h[x]]
<1>1. /\ load.phase = "served" /\ load' = Row!NoLoad /\ persisted' = load.status
      /\ present' = load.recording
      /\ Row!SetTranscodeStatus(value, R) /\ badge' = value
      /\ transcoding' = (transcoding /\ over = {})
      /\ UNCHANGED <<status, recording, running, job, asking, steps, retried, missed>>
  BY DEF Row!Loaded, Row!server, Row!history, Row!StillTranscoding, Row!SetTranscodeStatus
<1>2. /\ load.status \in Row!Statuses /\ load.recording \in BOOLEAN /\ value \in Row!Statuses
      /\ value = IF load.status # persisted THEN load.status ELSE badge
  BY DEF RowInv, RowTypes, Row!BadgeLoaded
<1> HIDE DEF value
<1>3. R \subseteq RowRequests /\ R \subseteq reqs /\ \A x \in R : x.phase # "refresh"
  BY DEF RowInv, RowTypes, RowShape
<1>4. \A x \in reqs : x \in R \/ (x.phase = "refresh" /\ x.kind = "start" /\ x \in over)
  BY DEF RowInv, RowTypes, RowShape
<1>5. /\ \A t \in reqs' : \E x \in R : t = h[x]
      /\ \A x \in R : LET t == h[x] IN
           /\ t \in reqs' /\ t \in RowRequests /\ t.kind = x.kind /\ t.phase = x.phase
           /\ t.value = x.value
           /\ t.kind = "poll" /\ t.alive => value = badge /\ x.alive
  <2>1. Row!SetTranscodeStatus(value, R) /\ R \subseteq RowRequests
    BY <1>1, <1>3
  <2> HIDE DEF R
  <2> QED BY <2>1, RowSets
<1> HIDE DEF h
<1>6. RowTypes' /\ RowFlags'
  <2>1. ASSUME NEW q \in reqs' PROVE RowShape(q)'
    <3>1. PICK x \in R : q = h[x]
      BY <1>5
    <3>2. RowShape(x)
      BY <1>3 DEF RowInv, RowTypes
    <3>3. q.kind = "poll" /\ q.alive => Row!Polling'
      BY <1>1, <1>5, <3>1, <3>2 DEF Row!Polling, RowShape
    <3> QED BY <1>5, <3>1, <3>2, <3>3 DEF RowShape
  <2>2. load' \in [phase : {"none", "sent", "served"}, status : Row!Statuses, recording : BOOLEAN]
    BY <1>1 DEF Row!NoLoad, Row!Statuses
  <2>3. transcoding' \in BOOLEAN
    BY <1>1
  <2> QED BY <1>1, <1>2, <2>1, <2>2, <2>3 DEF RowInv, RowTypes, RowFlags
<1>7. RowCount' /\ \A q, p \in reqs' : q.kind = "start" /\ p.kind = "start" => q = p
  <2>1. \A x \in reqs : f[x].kind = x.kind
    BY <1>4, <1>5
  <2>2. \A t \in reqs' : \E x \in reqs : t = f[x]
    BY <1>3, <1>5
  <2>3. steps \in Nat /\ steps' \in Nat /\ steps' >= steps /\ asking' = asking
    BY <1>1 DEF RowInv, RowTypes
  <2> HIDE DEF f
  <2> QED BY <2>1, <2>2, <2>3, RowMaps
<1>8. RowStart'
  <2>1. (\E q \in reqs' : q.kind = "start") <=> \E x \in R : x.kind = "start"
    BY <1>5
  <2>2. (\E x \in R : x.kind = "start") <=> (\E x \in reqs : x.kind = "start") /\ over = {}
    <3>1. CASE over = {}
      BY <3>1
    <3>2. CASE over # {}
      <4>1. PICK y \in over : TRUE
        BY <3>2
      <4>2. y \in reqs /\ y.kind = "start" /\ y \notin R
        BY <1>3, <4>1 DEF RowInv, RowTypes, RowShape
      <4>3. \A x \in reqs : x.kind = "start" => x = y
        BY <4>2 DEF RowInv, RowStart
      <4> QED BY <1>3, <3>2, <4>2, <4>3
    <3> QED BY <3>1, <3>2
  <2> QED BY <1>1, <1>7, <2>1, <2>2 DEF RowInv, RowStart
<1>9. RowJob'
  BY <1>1 DEF RowInv, RowJob
<1>10. RowGone'
  <2>1. \A q \in reqs' : q.kind = "delete" /\ q.phase = "served" /\ q.value # "error" => ~recording
    BY <1>3, <1>5 DEF RowInv, RowGone
  <2>2. (\E q \in reqs : q.kind = "delete" /\ q.phase = "served" /\ q.value # "error") =>
        \E q \in reqs' : q.kind = "delete" /\ q.phase = "served" /\ q.value # "error"
    BY <1>4, <1>5
  <2>3. load'.phase = "none" /\ load'.recording = TRUE
    BY <1>1 DEF Row!NoLoad
  <2> QED BY <1>1, <2>1, <2>2, <2>3 DEF RowInv, RowGone
<1>11. RowFollows'
  <2> SUFFICES ASSUME ~retried, ~missed, recording PROVE RowFollows'
    BY <1>1 DEF RowFollows
  <2>1. Following /\ \A q \in reqs : q.value # "error" => RowTold(q)
    BY <1>1 DEF RowInv, RowFollows, Untouched, Starting, Row!NoLoad
  <2>2. \A q \in reqs' : q.value # "error" => RowTold(q)'
    BY <1>1, <1>3, <1>5, <2>1 DEF RowTold
  <2>3. \A q \in reqs' : q.kind = "start" => q.phase = "refresh" \/ q.value = "error"
    BY <1>3, <1>5, <2>1 DEF Following
  <2>4. load'.phase = "none"
    BY <1>1 DEF Row!NoLoad
  <2>5. load.status # "none" /\ (badge \in Row!Terminal \/ load.status \in Row!Terminal => load.status = status)
    BY <1>1, <2>1 DEF Following
  <2>6. badge' # "none" /\ (badge' \in Row!Terminal => status \in Row!Terminal /\ badge' = status)
    BY <1>1, <1>2, <2>1, <2>5 DEF Following
  <2>7. persisted' \in Row!Terminal => badge' \notin Row!Active
    BY <1>1, <1>2, <2>1 DEF Following, Row!Active, Row!Terminal
  <2>8. Following'
    BY <1>1, <2>1, <2>3, <2>4, <2>5, <2>6, <2>7 DEF Following
  <2> QED BY <2>2, <2>8 DEF RowFollows
<1> QED BY <1>6, <1>7, <1>8, <1>9, <1>10, <1>11 DEF RowInv

-----------------------------------------------------------------------------
(* The row starts with its invariant.                                      *)
LEMMA RowOpens == ASSUME Row!ConstantsOK, Row!Init PROVE RowInv
<1>1. RowTypes /\ RowFlags
  <2>1. load \in [phase : {"none", "sent", "served"}, status : Row!Statuses, recording : BOOLEAN] /\ load = Row!NoLoad
    BY DEF Row!Init, Row!NoLoad, Row!Statuses
  <2>2. status \in Row!Statuses /\ persisted = status /\ badge = status /\ job = "none" /\ steps \in 0 .. MaxStarts /\ reqs = {}
    BY DEF Row!Init, Row!ConstantsOK, Row!Statuses, Row!Terminal
  <2>3. RowFlags
    BY DEF Row!Init, RowFlags
  <2> QED BY <2>1, <2>2, <2>3 DEF RowTypes
<1>2. RowCount
  <2>1. Row!Polls = {} /\ Others = {}
    BY DEF Row!Init, Row!Polls, Others
  <2> QED BY <2>1, FS_EmptySet DEF Row!Init, RowCount, Row!ConstantsOK
<1>3. RowStart /\ RowJob /\ RowFollows
  BY DEF Row!Init, RowStart, RowJob, RowFollows, Untouched, Row!Active, Row!Terminal
<1>4. RowGone
  <2>1. load.phase = "none" /\ load.recording = TRUE
    BY DEF Row!Init, Row!NoLoad
  <2> QED BY <2>1 DEF Row!Init, RowGone
<1> QED BY <1>1, <1>2, <1>3, <1>4 DEF RowInv

(* Every step of the row keeps its invariant.                              *)
LEMMA RowKeeps == ASSUME Row!ConstantsOK, RowInv, [Row!Next]_Row!vars PROVE RowInv'
<1>1. CASE UNCHANGED Row!vars
  <2>1. UNCHANGED <<status, recording, running, job, persisted, present, badge, transcoding, asking, reqs, load, steps, retried, missed>>
    BY <1>1 DEF Row!vars, Row!server, Row!row, Row!history
  <2> QED BY <2>1 DEF RowInv, RowTypes, RowShape, Row!Polling, RowFlags, RowCount,
    Row!Polls, Others, RowStart, RowJob, RowGone,
    RowFollows, RowTold, Untouched, Starting, Following
<1>2. CASE Row!Poll \/ Row!TranscodeRecording \/ Row!AskDelete \/ Row!OtherStarts \/ Row!Restart \/ Row!ServeLoad \/ Row!Loaded \/ Row!JobStep
  BY <1>2, RowPoll, RowTranscodes, RowAsks, RowOthers, RowRestarts, RowServes, RowLoads,
    RowJobSteps
<1>3. CASE \E yes \in BOOLEAN : Row!AnswerDelete(yes)
  BY <1>3, RowAnswers
<1>4. ASSUME NEW r \in reqs, Row!Served(r) \/ Row!Lost(r) PROVE RowInv'
  BY <1>4, RowReads, RowStarts, RowAnswer, RowDeletes, RowLoses, RowPollAnswered,
    RowStartAnswered, RowDeleteAnswered DEF Row!Served
<1> QED BY <1>1, <1>2, <1>3, <1>4 DEF Row!Next

(* What the invariant says of the row.                                     *)
LEMMA RowShows == ASSUME Row!ConstantsOK, RowInv PROVE Row!TypeOK /\ Row!BadgeSettles /\ Row!BusyIsTrue
<1>1. Row!TypeOK
  BY DEF RowInv, RowTypes, RowFlags, RowShape, RowRequests, Row!TypeOK
<1>2. Row!BadgeSettles
  <2> SUFFICES ASSUME reqs = {}, load = Row!NoLoad, job = "none", ~Row!Polling, present,
                      ~retried, ~missed PROVE badge = status
    BY DEF Row!BadgeSettles
  <2>1. load.phase = "none"
    BY DEF Row!NoLoad
  <2>2. recording
    BY <2>1 DEF RowInv, RowGone
  <2>3. Untouched \/ Following
    BY <2>2 DEF RowInv, RowFollows, Starting
  <2>4. Following => badge \in Row!Terminal
    BY DEF RowInv, RowTypes, Row!Polling, Row!Statuses, Following
  <2> QED BY <2>1, <2>3, <2>4 DEF Untouched, Following
<1>3. Row!BusyIsTrue
  BY DEF RowInv, RowStart, RowFlags, Row!BusyIsTrue
<1> QED BY <1>1, <1>2, <1>3

(* A badge at an end goes back only with a loaded state, or while the      *)
(* button's request is under way: a poll that is heard found a job.        *)
LEMMA RowNeverBack == ASSUME Row!ConstantsOK, RowInv, [Row!Next]_Row!vars PROVE Row!NoStepBack
<1> SUFFICES ASSUME badge \in Row!Terminal, badge' \in Row!Active,
                    persisted' = persisted PROVE transcoding
  BY DEF Row!NoStepBack
<1>1. badge' # badge
  BY DEF Row!Active, Row!Terminal
<1>2. CASE \E r \in reqs : Row!PollAnswered(r)
  <2>1. PICK r \in reqs : Row!PollAnswered(r)
    BY <1>2
  <2>2. r.kind = "poll" /\ r.alive
    BY <1>1, <2>1 DEF Row!PollAnswered
  <2>3. badge \in Row!Active
    BY <2>2 DEF RowInv, RowTypes, RowShape, Row!Polling
  <2> QED BY <2>3 DEF Row!Active, Row!Terminal
<1>3. CASE \E r \in reqs : Row!StartAnswered(r)
  BY <1>3 DEF Row!StartAnswered, RowInv, RowStart
<1>4. CASE Row!Loaded
  BY <1>1, <1>4 DEF Row!Loaded, Row!BadgeLoaded, Row!SetTranscodeStatus
<1>5. CASE UNCHANGED badge
  BY <1>1, <1>5
<1> QED BY <1>2, <1>3, <1>4, <1>5 DEF Row!Next, Row!vars, Row!row, Row!Poll,
  Row!TranscodeRecording, Row!AskDelete, Row!OtherStarts, Row!Restart, Row!ServeLoad,
  Row!JobStep, Row!JobBegin, Row!JobEnd, Row!JobFinish, Row!AnswerDelete, Row!Served,
  Row!Lost, Row!ReadItem, Row!StartJob, Row!Answer, Row!DeleteServed, Row!DeleteAnswered

(* The badge of a row (ResourceRowActions) at rest is the stored state, of *)
(* a first transcoding that was followed, and the button's busy flag is    *)
(* true, however polls, loads, restarts and answers overlap.               *)
THEOREM RowsSettle == Row!ConstantsOK /\ Row!Spec => [](Row!TypeOK /\ Row!BadgeSettles /\ Row!BusyIsTrue)
<1> SUFFICES ASSUME Row!ConstantsOK PROVE Row!Spec => [](Row!TypeOK /\ Row!BadgeSettles /\ Row!BusyIsTrue)
  OBVIOUS
<1>1. Row!Init => RowInv
  BY RowOpens
<1>2. RowInv /\ [Row!Next]_Row!vars => RowInv'
  BY RowKeeps
<1>3. RowInv => Row!TypeOK /\ Row!BadgeSettles /\ Row!BusyIsTrue
  BY RowShows
<1> QED BY <1>1, <1>2, <1>3, PTL DEF Row!Spec

(* A badge at an end never goes back to an earlier state because of an     *)
(* answer that comes late (poll in ResourceRowActions).                    *)
THEOREM BadgesGoForward == Row!ConstantsOK /\ Row!Spec => [][Row!NoStepBack]_Row!vars
<1> SUFFICES ASSUME Row!ConstantsOK PROVE Row!Spec => [][Row!NoStepBack]_Row!vars
  OBVIOUS
<1>1. Row!Init => RowInv
  BY RowOpens
<1>2. RowInv /\ [Row!Next]_Row!vars => RowInv'
  BY RowKeeps
<1>3. RowInv /\ [Row!Next]_Row!vars => Row!NoStepBack
  BY RowNeverBack
<1> QED BY <1>1, <1>2, <1>3, PTL DEF Row!Spec

-----------------------------------------------------------------------------
(***************************************************************************)
(* The player of a recording. Players are made by an effect and aborted by *)
(* its clean-up, and an aborted one may still call. The invariant says     *)
(* what the overlays tell while the first player is there (PlayerTold) and *)
(* that the dialog has none while the state of the recording is not known  *)
(* (PlayerPending).                                                        *)
(***************************************************************************)

(* The player in the reference was made.                                   *)
PlayerTypes ==
  /\ Player!TypeOK /\ hadVideo \in BOOLEAN
  /\ current # Player!NoPlayer => current.n \in 1 .. made

(* A video on display has no player and no overlay; it is remembered.      *)
PlayerVideo ==
  /\ query = "completed" => hadVideo
  /\ Player!VideoIsClear

(* Before the state is known there is no player, and the dialog loads.     *)
PlayerPending ==
  query = "pending" => current = Player!NoPlayer /\ made = 0 /\ loading /\ ~playing

(* The overlays of the first player tell of it.                            *)
PlayerTold ==
  ~hadVideo /\ current # Player!NoPlayer =>
    /\ current.phase = "loading" => loading
    /\ current.phase = "error" => error
    /\ playing = current.plays

PlayerInv == PlayerTypes /\ PlayerVideo /\ PlayerPending /\ PlayerTold /\ Player!OnePlayer

-----------------------------------------------------------------------------
(* A player that is made, and what calls and buttons make of one.          *)
LEMMA PlayerMade ==
  ASSUME Player!ConstantsOK, NEW n \in 1 .. MaxPlayers
  PROVE  LET p == Player!Phase(n, "loading") IN p \in Player!Player /\ p # Player!NoPlayer /\ p.n = n /\ p.phase = "loading" /\ p.plays = FALSE
BY DEF Player!ConstantsOK, Player!Phase, Player!Player, Player!NoPlayer

LEMMA PlayerGone == Player!NoPlayer.n = 0 /\ Player!NoPlayer.phase = "none" /\ Player!NoPlayer.plays = FALSE /\ Player!NoPlayer.going = FALSE /\ Player!NoPlayer \notin Player!Player
BY DEF Player!NoPlayer, Player!Phase, Player!Player

LEMMA PlayerPlayed ==
  ASSUME NEW p \in Player!Player, NEW q \in Player!Played(p)
  PROVE  q \in Player!Player /\ q.n = p.n /\ q.phase = p.phase
<1>1. q = p \/ q = [p EXCEPT !.plays = TRUE, !.going = IF p.plays THEN @ ELSE FALSE]
  BY DEF Player!Played
<1> QED BY <1>1 DEF Player!Player

LEMMA PlayerCalledBack ==
  ASSUME NEW p \in Player!Player, NEW q \in Player!CalledBack(p)
  PROVE  q \in Player!Player /\ q.n = p.n /\ q.phase = p.phase
<1> DEFINE done == [p EXCEPT !.seek = "none", !.going = FALSE, !.resume = FALSE]
<1>1. done \in Player!Player /\ done.n = p.n /\ done.phase = p.phase
  BY DEF Player!Player
<1>2. q \in Player!Played(done) \/ q = done
  BY DEF Player!CalledBack
<1> HIDE DEF done
<1> QED BY <1>1, <1>2, PlayerPlayed

(* The reference after a cleanup: every player is aborted or in it.        *)
LEMMA PlayerCleanup ==
  ASSUME Player!ConstantsOK, PlayerTypes, Player!OnePlayer, Player!CleanedUp
  PROVE  /\ late' \subseteq Player!Player /\ aborted' \subseteq 1 .. made
         /\ \A n \in 1 .. made : n \in aborted'
<1>1. CASE current = Player!NoPlayer
  <2>1. late' = late /\ aborted' = aborted /\ current.n = 0
    BY <1>1, PlayerGone DEF Player!CleanedUp, Player!Aborted, Player!Left
  <2>2. made \in Nat
    BY DEF PlayerTypes, Player!TypeOK
  <2> QED BY <2>1, <2>2 DEF PlayerTypes, Player!TypeOK, Player!OnePlayer
<1>2. CASE current # Player!NoPlayer
  <2>1. late' = late \cup {current} /\ aborted' = aborted \cup {current.n}
    BY <1>2 DEF Player!CleanedUp, Player!Aborted, Player!Left
  <2> QED BY <1>2, <2>1 DEF PlayerTypes, Player!TypeOK, Player!OnePlayer
<1> QED BY <1>1, <1>2

(* The effect leaves the player that the state and the permission ask for, *)
(* and over the video no overlay.                                          *)
LEMMA PlayerEffect ==
  ASSUME Player!ConstantsOK, PlayerTypes, Player!OnePlayer,
         NEW state \in Player!States \cup {"pending"}, NEW may \in BOOLEAN,
         Player!Effect(state, may)
  PROVE  /\ current' \in Player!Player \cup {Player!NoPlayer}
         /\ late' \subseteq Player!Player /\ aborted' \subseteq 1 .. made'
         /\ made' \in 0 .. MaxPlayers
         /\ loading' \in BOOLEAN /\ error' \in BOOLEAN
         /\ current' # Player!NoPlayer => current'.n \in 1 .. made' /\ current'.phase = "loading" /\ current'.plays = FALSE /\ loading' = loading
         /\ \A n \in 1 .. made' : n \in aborted' \/ n = current'.n
         /\ (state \notin {"pending", "completed"} /\ may) = (current' # Player!NoPlayer)
         /\ state = "completed" => loading' = FALSE /\ error' = FALSE
         /\ state = "pending" => current' = Player!NoPlayer /\ made' = made /\ loading' = loading /\ error' = error
<1>1. /\ made \in 0 .. MaxPlayers /\ made \in Nat /\ MaxPlayers \in Nat
      /\ loading \in BOOLEAN /\ error \in BOOLEAN
  BY DEF Player!ConstantsOK, PlayerTypes, Player!TypeOK
<1>2. Player!CleanedUp
  BY DEF Player!Effect
<1>3. late' \subseteq Player!Player /\ aborted' \subseteq 1 .. made /\ \A n \in 1 .. made : n \in aborted'
  BY <1>2, PlayerCleanup
<1>4. CASE state \in {"pending", "completed"} \/ ~may
  <2>1. current' = Player!NoPlayer /\ made' = made
    BY <1>4 DEF Player!Effect, Player!Video
  <2>2. loading' \in BOOLEAN /\ error' \in BOOLEAN
    BY <1>1, <1>4 DEF Player!Effect, Player!Video, Player!LoadingWith
  <2>3. state = "completed" => loading' = FALSE /\ error' = FALSE
    BY DEF Player!Effect, Player!Video, Player!LoadingWith
  <2>4. state = "pending" => loading' = loading /\ error' = error
    BY DEF Player!Effect
  <2> QED BY <1>1, <1>3, <1>4, <2>1, <2>2, <2>3, <2>4
<1>5. CASE state \notin {"pending", "completed"} /\ may
  <2>1. made < MaxPlayers /\ made' = made + 1 /\ current' = Player!Phase(made + 1, "loading") /\ loading' = loading /\ error' = error
    BY <1>5 DEF Player!Effect, Player!Video
  <2>2. made + 1 \in 1 .. MaxPlayers
    BY <1>1, <2>1
  <2>3. current' \in Player!Player /\ current' # Player!NoPlayer /\ current'.n = made + 1 /\ current'.phase = "loading" /\ current'.plays = FALSE
    BY <2>1, <2>2, PlayerMade
  <2>4. \A n \in 1 .. made' : n \in 1 .. made \/ n = made + 1
    BY <1>1, <2>1
  <2>5. aborted' \subseteq 1 .. made' /\ made' \in 0 .. MaxPlayers /\ current'.n \in 1 .. made'
    BY <1>1, <1>3, <2>1, <2>3
  <2> QED BY <1>1, <1>3, <1>5, <2>1, <2>3, <2>4, <2>5
<1> QED BY <1>4, <1>5

(* A step that only moves the player in the reference, or its display.     *)
LEMMA PlayerStays ==
  ASSUME Player!ConstantsOK, PlayerInv,
         UNCHANGED <<query, canRead, open, aborted, made, hadVideo>>,
         stored' \in Player!States, fetching' \in Player!States \cup {"no", "sent", "error"}, late' \subseteq late,
         {loading, error, playing, duration}' \subseteq BOOLEAN,
         IF current = Player!NoPlayer THEN current' = Player!NoPlayer ELSE current' \in Player!Player /\ current'.n = current.n,
         current = Player!NoPlayer => loading' = loading /\ error' = error /\ playing' = playing,
         PlayerTold'
  PROVE  PlayerInv'
<1>1. current' # Player!NoPlayer <=> current # Player!NoPlayer
  BY PlayerGone
<1>2. current'.n = current.n
  BY PlayerGone
<1>3. PlayerTypes'
  BY <1>1, <1>2, PlayerGone DEF PlayerInv, PlayerTypes, Player!TypeOK
<1>4. Player!OnePlayer'
  BY <1>1, <1>2 DEF PlayerInv, Player!OnePlayer
<1>5. PlayerPending'
  BY <1>1 DEF PlayerInv, PlayerPending
<1>6. PlayerVideo'
  BY <1>1 DEF PlayerInv, PlayerVideo, Player!VideoIsClear, Player!OnePlayer
<1> QED BY <1>3, <1>4, <1>5, <1>6 DEF PlayerInv

LEMMA PlayerFetched == ASSUME Player!ConstantsOK, PlayerInv, Player!Fetched PROVE PlayerInv'
<1>1. /\ open /\ fetching \in Player!States \cup {"error"} /\ query' = Player!Answered
      /\ fetching' = "no"
      /\ hadVideo' = (hadVideo \/ Player!Video(Player!Answered))
      /\ UNCHANGED <<stored, canRead, open, playing, duration>>
  BY DEF Player!Fetched
<1>2. /\ Player!Answered \in Player!States /\ query \in Player!States \cup {"pending"}
      /\ canRead \in BOOLEAN
      /\ (query # "pending" /\ fetching = "error" => Player!Answered = query)
  BY <1>1 DEF PlayerInv, PlayerTypes, Player!TypeOK, Player!Answered, Player!States
<1>3. hadVideo' \in BOOLEAN /\ (query' = "completed" => hadVideo') /\ (~hadVideo' => ~hadVideo) /\ query' # "pending"
  BY <1>1, <1>2 DEF PlayerInv, PlayerTypes, Player!Video, Player!States
<1>4. CASE query = "pending" \/ Player!Video(query) # Player!Video(Player!Answered)
  <2>1. Player!Effect(Player!Answered, canRead)
    BY <1>4 DEF Player!Fetched
  <2>2. /\ current' \in Player!Player \cup {Player!NoPlayer}
        /\ late' \subseteq Player!Player /\ aborted' \subseteq 1 .. made'
        /\ made' \in 0 .. MaxPlayers
        /\ loading' \in BOOLEAN /\ error' \in BOOLEAN
        /\ current' # Player!NoPlayer => current'.n \in 1 .. made' /\ current'.phase = "loading" /\ current'.plays = FALSE /\ loading' = loading
        /\ \A n \in 1 .. made' : n \in aborted' \/ n = current'.n
        /\ (Player!Answered \notin {"pending", "completed"} /\ canRead) = (current' # Player!NoPlayer)
        /\ Player!Answered = "completed" => loading' = FALSE /\ error' = FALSE
    BY <1>2, <2>1, PlayerEffect DEF PlayerInv
  <2>3. PlayerTypes'
    BY <1>1, <1>2, <1>3, <2>2 DEF PlayerInv, PlayerTypes, Player!TypeOK
  <2>4. PlayerVideo'
    BY <1>1, <1>3, <2>2 DEF PlayerVideo, Player!VideoIsClear
  <2>5. PlayerPending'
    BY <1>3 DEF PlayerPending
  <2>6. PlayerTold'
    <3> SUFFICES ASSUME ~hadVideo',
                        current' # Player!NoPlayer PROVE current'.phase = "loading" /\ loading' /\ playing' = current'.plays
      BY DEF PlayerTold
    <3>1. query = "pending"
      BY <1>1, <1>3, <1>4 DEF PlayerInv, PlayerVideo, Player!Video
    <3>2. loading /\ ~playing
      BY <3>1 DEF PlayerInv, PlayerPending
    <3> QED BY <1>1, <2>2, <3>2 DEF PlayerInv, PlayerTypes, Player!TypeOK
  <2>7. Player!OnePlayer'
    BY <1>1, <1>2, <2>2 DEF Player!OnePlayer
  <2> QED BY <2>3, <2>4, <2>5, <2>6, <2>7 DEF PlayerInv
<1>5. CASE query # "pending" /\ Player!Video(query) = Player!Video(Player!Answered)
  <2>1. UNCHANGED <<current, late, aborted, made, loading, error>>
    BY <1>5 DEF Player!Fetched
  <2>2. query = "completed" <=> query' = "completed"
    BY <1>1, <1>5 DEF Player!Video
  <2>3. PlayerTypes'
    BY <1>1, <1>2, <1>3, <2>1 DEF PlayerInv, PlayerTypes, Player!TypeOK
  <2>4. PlayerVideo' /\ PlayerPending' /\ PlayerTold'
    BY <1>1, <1>3, <2>1, <2>2 DEF PlayerInv, PlayerVideo, Player!VideoIsClear,
      PlayerPending, PlayerTold
  <2>5. Player!OnePlayer'
    BY <1>1, <1>3, <1>5, <2>1, <2>2 DEF PlayerInv, Player!OnePlayer
  <2> QED BY <2>3, <2>4, <2>5 DEF PlayerInv
<1> QED BY <1>4, <1>5

LEMMA PlayerRevoked == ASSUME Player!ConstantsOK, PlayerInv, Player!Revoke PROVE PlayerInv'
<1>1. /\ open /\ canRead /\ canRead' = FALSE /\ Player!Effect(query, FALSE)
      /\ UNCHANGED <<stored, query, fetching, open, playing, duration, hadVideo>>
  BY DEF Player!Revoke
<1>2. /\ current' \in Player!Player \cup {Player!NoPlayer} /\ late' \subseteq Player!Player
      /\ aborted' \subseteq 1 .. made' /\ made' \in 0 .. MaxPlayers
      /\ loading' \in BOOLEAN /\ error' \in BOOLEAN
      /\ \A n \in 1 .. made' : n \in aborted' \/ n = current'.n
      /\ current' = Player!NoPlayer
      /\ query = "completed" => loading' = FALSE /\ error' = FALSE
      /\ query = "pending" => made' = made /\ loading' = loading
  <2>1. query \in Player!States \cup {"pending"} /\ FALSE \in BOOLEAN
    BY DEF PlayerInv, PlayerTypes, Player!TypeOK
  <2> QED BY <1>1, <2>1, PlayerEffect DEF PlayerInv
<1>3. PlayerTypes'
  BY <1>1, <1>2 DEF PlayerInv, PlayerTypes, Player!TypeOK
<1>4. PlayerVideo' /\ PlayerPending' /\ PlayerTold'
  BY <1>1, <1>2 DEF PlayerInv, PlayerVideo, Player!VideoIsClear, PlayerPending, PlayerTold
<1>5. Player!OnePlayer'
  BY <1>1, <1>2 DEF PlayerInv, Player!OnePlayer
<1> QED BY <1>3, <1>4, <1>5 DEF PlayerInv

LEMMA PlayerCloses == ASSUME Player!ConstantsOK, PlayerInv, Player!Close PROVE PlayerInv'
<1>1. /\ open /\ open' = FALSE /\ Player!CleanedUp /\ current' = Player!NoPlayer
      /\ UNCHANGED <<stored, query, fetching, canRead, made, loading, error, playing, duration, hadVideo>>
  BY DEF Player!Close, Player!display
<1>2. late' \subseteq Player!Player /\ aborted' \subseteq 1 .. made /\ \A n \in 1 .. made : n \in aborted'
  BY <1>1, PlayerCleanup DEF PlayerInv
<1>3. PlayerTypes'
  BY <1>1, <1>2 DEF PlayerInv, PlayerTypes, Player!TypeOK
<1>4. PlayerVideo' /\ PlayerPending' /\ PlayerTold' /\ Player!OnePlayer'
  BY <1>1, <1>2 DEF PlayerInv, PlayerVideo, Player!VideoIsClear, PlayerPending, PlayerTold,
    Player!OnePlayer
<1> QED BY <1>3, <1>4 DEF PlayerInv

LEMMA PlayerCalls ==
  ASSUME Player!ConstantsOK, PlayerInv,
         Player!Respond \/ Player!Refetch \/ Player!OnProgress \/ Player!OnLoad \/ Player!OnError \/ Player!Ends \/ (\E state \in Player!States : Player!Job(state)) \/ (\E p \in late : Player!OnLate(p))
  PROVE  PlayerInv'
<1>1. /\ current \in Player!Player \cup {Player!NoPlayer} /\ late \subseteq Player!Player
      /\ stored \in Player!States /\ fetching \in Player!States \cup {"no", "sent", "error"}
      /\ loading \in BOOLEAN /\ error \in BOOLEAN /\ playing \in BOOLEAN /\ duration \in BOOLEAN
  BY DEF PlayerInv, PlayerTypes, Player!TypeOK
<1>2. CASE Player!Respond \/ Player!Refetch \/ \E state \in Player!States : Player!Job(state)
  <2>1. /\ UNCHANGED <<query, canRead, open, aborted, made, hadVideo, late, current, loading, error, playing, duration>>
        /\ stored' \in Player!States /\ fetching' \in Player!States \cup {"no", "sent", "error"}
    BY <1>1, <1>2 DEF Player!Respond, Player!Refetch, Player!Job, Player!dialog,
      Player!players, Player!display
  <2>2. PlayerTold'
    BY <2>1 DEF PlayerInv, PlayerTold
  <2> QED BY <1>1, <2>1, <2>2, PlayerStays
<1>3. CASE Player!OnProgress \/ \E p \in late : Player!OnLate(p)
  <2>1. /\ UNCHANGED <<query, canRead, open, aborted, made, hadVideo, current, loading, error, playing, stored, fetching>>
        /\ late' \subseteq late /\ duration' \in BOOLEAN
    BY <1>1, <1>3 DEF Player!OnProgress, Player!OnLate, Player!LateError, Player!dialog,
      Player!players, Player!display
  <2>2. PlayerTold'
    BY <2>1 DEF PlayerInv, PlayerTold
  <2> QED BY <1>1, <2>1, <2>2, PlayerStays
<1>4. CASE Player!OnLoad \/ Player!OnError \/ Player!Ends
  <2>1. UNCHANGED <<query, canRead, open, aborted, made, hadVideo, late, stored, fetching>>
    BY <1>4 DEF Player!OnLoad, Player!OnError, Player!Ends, Player!dialog
  <2>2. current \in Player!Player
    BY <1>1, <1>4, PlayerGone DEF Player!OnLoad, Player!OnError, Player!Ends
  <2>3. CASE Player!OnLoad
    <3>1. current' = [current EXCEPT !.phase = "ready"] /\ duration' = TRUE /\ loading' = FALSE /\ UNCHANGED <<error, playing>> /\ current.phase = "loading"
      BY <2>3 DEF Player!OnLoad
    <3>2. current' \in Player!Player /\ current'.n = current.n /\ current'.phase = "ready" /\ current'.plays = current.plays
      BY <2>2, <3>1 DEF Player!Player
    <3>3. PlayerTold'
      BY <1>1, <2>1, <2>2, <3>1, <3>2, PlayerGone DEF PlayerInv, PlayerTold
    <3> QED BY <1>1, <2>1, <2>2, <3>1, <3>2, <3>3, PlayerStays, PlayerGone
  <2>4. CASE Player!OnError
    <3>1. current' = [current EXCEPT !.phase = "error"] /\ loading' = FALSE /\ error' = TRUE /\ UNCHANGED <<duration, playing>>
      BY <2>4 DEF Player!OnError
    <3>2. current' \in Player!Player /\ current'.n = current.n /\ current'.phase = "error" /\ current'.plays = current.plays
      BY <2>2, <3>1 DEF Player!Player
    <3>3. PlayerTold'
      BY <1>1, <2>1, <2>2, <3>1, <3>2, PlayerGone DEF PlayerInv, PlayerTold
    <3> QED BY <1>1, <2>1, <2>2, <3>1, <3>2, <3>3, PlayerStays, PlayerGone
  <2>5. CASE Player!Ends
    <3>1. current' = [current EXCEPT !.plays = FALSE, !.going = FALSE] /\ playing' = FALSE /\ UNCHANGED <<duration, loading, error>>
      BY <2>5 DEF Player!Ends
    <3>2. current' \in Player!Player /\ current'.n = current.n /\ current'.phase = current.phase /\ current'.plays = FALSE
      BY <2>2, <3>1 DEF Player!Player
    <3>3. PlayerTold'
      BY <1>1, <2>1, <2>2, <3>1, <3>2, PlayerGone DEF PlayerInv, PlayerTold
    <3> QED BY <1>1, <2>1, <2>2, <3>1, <3>2, <3>3, PlayerStays, PlayerGone
  <2> QED BY <1>4, <2>3, <2>4, <2>5
<1> QED BY <1>2, <1>3, <1>4

(* The buttons move a player and the icon follows.                         *)
LEMMA PlayerButtons ==
  ASSUME Player!ConstantsOK, PlayerInv,
         Player!TogglePlayback \/ Player!SeekDone \/ \E target \in {"start", "slider"} : Player!Seek(target)
  PROVE  PlayerInv'
<1>1. UNCHANGED <<query, canRead, open, aborted, made, hadVideo, late, stored, fetching, loading, error, duration>>
  BY DEF Player!TogglePlayback, Player!SeekDone, Player!Seek, Player!dialog
<1>2. current \in Player!Player
  BY PlayerGone DEF Player!TogglePlayback, Player!SeekDone, Player!Seek, Player!Enabled,
    PlayerInv, PlayerTypes, Player!TypeOK
<1>3. current' \in Player!Player /\ current'.n = current.n /\ current'.phase = current.phase /\ playing' = current'.plays
  <2>1. CASE Player!TogglePlayback
    <3>1. PICK p \in (IF current.plays THEN {[current EXCEPT !.plays = FALSE, !.going = FALSE]} ELSE Player!Played(current)) :
            current' = p /\ playing' = p.plays
      BY <2>1 DEF Player!TogglePlayback, Player!PlayingAfter
    <3>2. CASE current.plays
      BY <1>2, <3>1, <3>2 DEF Player!Player
    <3>3. CASE ~current.plays
      BY <1>2, <3>1, <3>3, PlayerPlayed
    <3> QED BY <3>2, <3>3
  <2>2. CASE Player!SeekDone
    <3>1. PICK p \in Player!CalledBack(current) : current' = p /\ playing' = p.plays
      BY <2>2 DEF Player!SeekDone, Player!PlayingAfter
    <3> QED BY <1>2, <3>1, PlayerCalledBack
  <2>3. ASSUME NEW target \in {"start", "slider"}, Player!Seek(target)
       PROVE  current' \in Player!Player /\ current'.n = current.n /\ current'.phase = current.phase /\ playing' = current'.plays
    <3>1. PICK p \in (IF current.seek = "none" THEN {current} ELSE Player!CalledBack(current)) :
            current' = [p EXCEPT !.plays = FALSE, !.seek = target, !.going = TRUE, !.resume = p.plays]
      BY <2>3 DEF Player!Seek
    <3>2. playing' = current'.plays
      BY <2>3 DEF Player!Seek, Player!PlayingAfter
    <3>3. p \in Player!Player /\ p.n = current.n /\ p.phase = current.phase
      BY <1>2, <3>1, PlayerCalledBack
    <3>4. current' \in Player!Player /\ current'.n = p.n /\ current'.phase = p.phase
      BY <3>1, <3>3 DEF Player!Player
    <3> QED BY <3>2, <3>3, <3>4
  <2> QED BY <2>1, <2>2, <2>3
<1>4. PlayerTold'
  BY <1>1, <1>2, <1>3, PlayerGone DEF PlayerInv, PlayerTold
<1>5. playing' \in BOOLEAN
  BY <1>3 DEF Player!Player
<1>6. /\ stored' \in Player!States /\ fetching' \in Player!States \cup {"no", "sent", "error"}
      /\ loading' \in BOOLEAN /\ error' \in BOOLEAN /\ duration' \in BOOLEAN
  BY <1>1 DEF PlayerInv, PlayerTypes, Player!TypeOK
<1> QED BY <1>1, <1>2, <1>3, <1>4, <1>5, <1>6, PlayerStays, PlayerGone

-----------------------------------------------------------------------------
(* The dialog opens with its invariant.                                    *)
LEMMA PlayerOpens == ASSUME Player!ConstantsOK, Player!Init PROVE PlayerInv
<1>1. PlayerTypes
  <2>1. /\ stored \in Player!States /\ query \in Player!States \cup {"pending"}
        /\ fetching = "sent" /\ late = {} /\ aborted = {}
        /\ canRead = TRUE /\ open = TRUE /\ error = FALSE /\ playing = FALSE /\ duration = FALSE
    BY DEF Player!Init
  <2>2. loading \in BOOLEAN /\ hadVideo \in BOOLEAN
    BY DEF Player!Init, Player!Video
  <2>3. made \in 0 .. MaxPlayers /\ current \in Player!Player \cup {Player!NoPlayer} /\ (current # Player!NoPlayer => current.n \in 1 .. made)
    <3>1. CASE made = 0
      BY <3>1 DEF Player!Init, Player!ConstantsOK
    <3>2. CASE made # 0
      <4>1. made = 1 /\ current = Player!Phase(1, "loading") /\ 1 \in 1 .. MaxPlayers
        BY <3>2 DEF Player!Init, Player!ConstantsOK
      <4>2. current \in Player!Player /\ current.n = 1
        BY <4>1, PlayerMade
      <4> QED BY <4>1, <4>2 DEF Player!ConstantsOK
    <3> QED BY <3>1, <3>2
  <2>4. {canRead, open, loading, error, playing, duration} \subseteq BOOLEAN
    BY <2>1, <2>2
  <2> QED BY <2>1, <2>2, <2>3, <2>4 DEF PlayerTypes, Player!TypeOK
<1>2. PlayerVideo /\ PlayerPending
  BY DEF Player!Init, PlayerVideo, Player!VideoIsClear, PlayerPending, Player!Video
<1>3. PlayerTold
  BY DEF Player!Init, PlayerTold, Player!Phase, Player!NoPlayer, Player!Video
<1>4. Player!OnePlayer
  <2>1. CASE made = 0
    BY <2>1, PlayerGone DEF Player!Init, Player!OnePlayer, Player!Video
  <2>2. CASE made # 0
    <3>1. made = 1 /\ current = Player!Phase(1, "loading") /\ query \notin {"pending", "completed"}
      BY <2>2 DEF Player!Init, Player!Video
    <3>2. current.n = 1 /\ current # Player!NoPlayer
      BY <3>1 DEF Player!Phase, Player!NoPlayer
    <3> QED BY <3>1, <3>2 DEF Player!Init, Player!OnePlayer
  <2> QED BY <2>1, <2>2
<1> QED BY <1>1, <1>2, <1>3, <1>4 DEF PlayerInv

(* Every step of the dialog keeps its invariant.                           *)
LEMMA PlayerKeeps == ASSUME Player!ConstantsOK, PlayerInv, [Player!Next]_Player!vars PROVE PlayerInv'
<1>1. CASE UNCHANGED Player!vars
  BY <1>1 DEF Player!vars, Player!dialog, Player!players, Player!display, PlayerInv,
    PlayerTypes, Player!TypeOK, PlayerVideo, Player!VideoIsClear, PlayerPending, PlayerTold,
    Player!OnePlayer
<1>2. CASE Player!Next
  BY <1>2, PlayerFetched, PlayerRevoked, PlayerCloses, PlayerCalls, PlayerButtons
    DEF Player!Next
<1> QED BY <1>1, <1>2

(* What the invariant says of the dialog.                                  *)
LEMMA PlayerShows == ASSUME PlayerInv PROVE Player!TypeOK /\ Player!VideoIsClear /\ Player!OnePlayer /\ Player!FirstPlayerIsShown
<1>1. Player!TypeOK /\ Player!VideoIsClear /\ Player!OnePlayer
  BY DEF PlayerInv, PlayerTypes, PlayerVideo
<1>2. Player!FirstPlayerIsShown
  <2> SUFFICES ASSUME ~hadVideo,
                      current # Player!NoPlayer PROVE (Player!Enabled => current.phase = "ready") /\ playing = current.plays
    BY DEF Player!FirstPlayerIsShown
  <2>1. current.phase \in {"loading", "ready", "error"}
    BY DEF PlayerInv, PlayerTypes, Player!TypeOK, Player!Player
  <2> QED BY <2>1 DEF PlayerInv, PlayerTold, Player!Enabled
<1> QED BY <1>1, <1>2

(* Over a video lies no overlay, one player at most is in the dialog, and  *)
(* the first one is shown as it is (RecordingPlaybackDialog), whatever the *)
(* aborted players still call.                                             *)
THEOREM PlayersAreShown == Player!ConstantsOK /\ Player!Spec => [](Player!TypeOK /\ Player!VideoIsClear /\ Player!OnePlayer /\ Player!FirstPlayerIsShown)
<1> SUFFICES ASSUME Player!ConstantsOK PROVE Player!Spec => [](Player!TypeOK /\ Player!VideoIsClear /\ Player!OnePlayer /\ Player!FirstPlayerIsShown)
  OBVIOUS
<1>1. Player!Init => PlayerInv
  BY PlayerOpens
<1>2. PlayerInv /\ [Player!Next]_Player!vars => PlayerInv'
  BY PlayerKeeps
<1>3. PlayerInv => Player!TypeOK /\ Player!VideoIsClear /\ Player!OnePlayer /\ Player!FirstPlayerIsShown
  BY PlayerShows
<1> QED BY <1>1, <1>2, <1>3, PTL DEF Player!Spec

-----------------------------------------------------------------------------
(***************************************************************************)
(* The flows of signing in, for any set of accounts and any number of      *)
(* requests, with or without captchas and re-authentication. That the user *)
(* on display is the session's rests on there being one flow at a time     *)
(* unless two overlapped (FlowAlone), on what the gates let through        *)
(* (FlowGates) and on which request's answer the page waits for            *)
(* (FlowBusy); a captcha can be used because its number was given once and *)
(* is spent once (FlowBook, FlowCaptcha).                                  *)
(***************************************************************************)

FlowRequests ==
  [n : 1 .. MaxRequests, kind : Flows!Kinds, account : Accounts \cup {"none"}, captcha : 0 .. MaxRequests, token : 0 .. MaxRequests,
   setup : BOOLEAN, phase : {"sent", "served", "refresh"}, mount : Nat,
   answer : {"none", "captcha", "user", "challenge", "codes", "failed"}]

(* A request asked for no more than was there, from this page or from an   *)
(* earlier one, and its answer is one of its kind.                         *)
FlowShape(r) ==
  /\ r \in FlowRequests /\ r.n <= issued /\ r.captcha <= issued
  /\ r.mount <= mount /\ (path = "app" => r.mount # mount)
  /\ r.kind # "captcha" => r.account \in Accounts /\ r.answer # "captcha"
  /\ r.kind = "captcha" => r.answer \in {"none", "captcha", "failed"}
  /\ r.phase = "sent" <=> r.answer = "none"
  /\ r.phase = "refresh" => r.answer = "user"

FlowTypes ==
  /\ configured \in BOOLEAN /\ known \in BOOLEAN /\ mfa \in [Accounts -> {"off", "setup", "on"}]
  /\ tokens \subseteq 1 .. MaxRequests /\ spent \subseteq 0 .. issued
  /\ captcha \in 0 .. issued /\ issued \in 0 .. MaxRequests
  /\ session \in Accounts \cup {"none"} /\ auth \in Accounts \cup {"none"}
  /\ codes \in Accounts \cup {"none"} /\ username \in Accounts
  /\ me \in [phase : {"none", "asked", "served"}, user : Accounts \cup {"none"}]
  /\ path \in {"login", "app"} /\ mount \in Nat
  /\ challenge \in [account : Accounts \cup {"none"}, token : 0 .. MaxRequests, setup : BOOLEAN]
  /\ challenge # Flows!NoChallenge => challenge.account \in Accounts
  /\ enrolled \subseteq Accounts

FlowFlags == submitting \in BOOLEAN /\ passkey \in BOOLEAN /\ overlap \in BOOLEAN /\ unloaded \in BOOLEAN

(* Requests have numbers of their own, and a captcha that is not there yet *)
(* is not on display, in no request and not consumed.                      *)
FlowBook ==
  /\ \A r \in reqs : FlowShape(r)
  /\ \A q, r \in reqs : q.n = r.n => q = r
  /\ \A r \in reqs : r.kind = "captcha" => r.n \notin spent /\ captcha # r.n /\ \A q \in reqs : q.captcha # r.n

(* The gates: the form and its contents are on the login page only, and a  *)
(* user is there in the console, and only to sign in again on the login    *)
(* page, unless the user is being asked for.                               *)
FlowGates ==
  /\ path = "app" => codes = "none" /\ challenge = Flows!NoChallenge /\ (me.phase = "none" => auth # "none")
  /\ path = "login" => me.phase = "none" /\ (Reauth \/ auth = "none")

(* One request at most of each button is the page's own. *)
FlowBusy ==
  /\ Flows!BusyIsTrue
  /\ \A q, r \in Flows!Pending : Flows!Mounted(q) /\ Flows!Mounted(r) /\ (q.kind = "passkey" <=> r.kind = "passkey") => q = r

(* While no two sign-ins overlap there is one, and its page is still there *)
(* until the user is known.                                                *)
FlowAlone ==
  ~overlap =>
    /\ \A q, r \in Flows!Pending : q = r
    /\ \A r \in Flows!Pending : r.phase = "refresh" \/ Flows!Mounted(r)
    /\ codes # "none" => Flows!Pending = {} /\ session = codes
    /\ me.phase # "none" => auth = "none"
    /\ me.phase = "served" => me.user = session
    /\ \A a \in enrolled : a \in seen \cup unshown \/ codes = a \/ \E r \in Flows!Pending : r.account = a /\ r.answer = "codes"
    /\ Flows!AuthIsSession

(* The captcha on display can be used, or the page waits for a new one.    *)
FlowWaits == \E r \in reqs : Flows!Mounted(r) /\ r.kind \in {"captcha", "login"}
FlowUsable ==
  captcha # 0 /\ captcha \notin spent /\ \A r \in reqs : r.kind = "login" /\ r.phase = "sent" => r.captcha # captcha
FlowCaptcha ==
  Captcha /\ known /\ Flows!Form /\ challenge = Flows!NoChallenge /\ ~unloaded /\ auth = "none" => FlowWaits \/ FlowUsable

FlowInv == FlowTypes /\ FlowFlags /\ FlowBook /\ FlowGates /\ FlowBusy /\ FlowAlone /\ FlowCaptcha

-----------------------------------------------------------------------------
(* What is said of the requests stays so when one of them takes another    *)
(* form, when one is added and when some go.                               *)
LEMMA FlowBookServed ==
  ASSUME Flows!ConstantsOK, FlowTypes, FlowBook, NEW r \in reqs, NEW x,
         reqs' = (reqs \ {r}) \cup {x},
         x \in FlowRequests, x.n = r.n, x.kind = r.kind, x.account = r.account, x.captcha = r.captcha, x.mount = r.mount,
         x.kind # "captcha" => x.answer # "captcha", x.kind = "captcha" => x.answer \in {"none", "captcha", "failed"},
         x.phase = "sent" <=> x.answer = "none", x.phase = "refresh" => x.answer = "user",
         mount' \in Nat, mount' >= mount, mount' = mount => path' = path \/ path' = "login", issued' = issued, captcha' = captcha \/ captcha' = 0,
         spent' \subseteq spent \cup {q.captcha : q \in reqs}
  PROVE  FlowBook'
<1>1. \A q \in reqs : q.mount \in Nat /\ q.n \in Nat /\ q.n # 0
  BY DEF FlowBook, FlowShape, FlowRequests
<1>2. mount \in Nat /\ issued \in Nat /\ path \in {"login", "app"}
  BY DEF FlowTypes
<1>3. \A q \in reqs' : FlowShape(q)'
  BY <1>1, <1>2 DEF FlowBook, FlowShape
<1>4. \A q, p \in reqs' : q.n = p.n => q = p
  BY DEF FlowBook
<1>5. \A q \in reqs' : \E p \in reqs : q.n = p.n /\ q.kind = p.kind /\ q.captcha = p.captcha
  OBVIOUS
<1>6. \A q \in reqs' : q.kind = "captcha" => q.n \notin spent' /\ captcha' # q.n /\ \A p \in reqs' : p.captcha # q.n
  BY <1>1, <1>5 DEF FlowBook
<1> QED BY <1>3, <1>4, <1>6 DEF FlowBook

LEMMA FlowBookLess ==
  ASSUME Flows!ConstantsOK, FlowTypes, FlowBook, reqs' \subseteq reqs,
         mount' \in Nat, mount' >= mount, mount' = mount => path' = path \/ path' = "login", issued' \in Nat, issued' >= issued,
         captcha' \in {captcha, 0} \/ \E r \in reqs : r.kind = "captcha" /\ r \notin reqs' /\ captcha' = r.n,
         spent' = spent
  PROVE  FlowBook'
<1>1. \A q \in reqs : q.mount \in Nat /\ q.n \in Nat /\ q.n # 0 /\ q.captcha \in Nat
  BY DEF FlowBook, FlowShape, FlowRequests
<1>2. mount \in Nat /\ issued \in Nat /\ path \in {"login", "app"}
  BY DEF FlowTypes
<1>3. \A q \in reqs' : FlowShape(q)'
  BY <1>1, <1>2 DEF FlowBook, FlowShape
<1>4. \A q, p \in reqs' : q.n = p.n => q = p
  BY DEF FlowBook
<1>5. \A q \in reqs' : q.kind = "captcha" => captcha' # q.n
  BY <1>1 DEF FlowBook
<1>6. \A q \in reqs' : q.kind = "captcha" => q.n \notin spent' /\ \A p \in reqs' : p.captcha # q.n
  BY DEF FlowBook
<1> QED BY <1>3, <1>4, <1>5, <1>6 DEF FlowBook

LEMMA FlowBookMore ==
  ASSUME Flows!ConstantsOK, FlowTypes, FlowBook, NEW x, reqs' \subseteq reqs \cup {x},
         issued < MaxRequests, issued' = issued + 1,
         x \in FlowRequests, x.n = issued + 1, x.captcha \in {0, captcha}, x.phase = "sent", x.answer = "none",
         x.kind # "captcha" => x.account \in Accounts, x.mount = mount', path' = "login",
         mount' \in Nat, mount' >= mount, captcha' \in {captcha, 0}, spent' = spent
  PROVE  FlowBook'
<1>1. \A q \in reqs : q.mount \in Nat /\ q.n \in Nat /\ q.n # 0 /\ q.n <= issued /\ q.captcha \in Nat /\ q.captcha <= issued
  BY DEF FlowBook, FlowShape, FlowRequests
<1>2. mount \in Nat /\ issued \in Nat /\ captcha \in 0 .. issued /\ spent \subseteq 0 .. issued
  BY DEF FlowTypes
<1>3. \A q \in reqs' : FlowShape(q)'
  <2>1. \A q \in reqs : FlowShape(q)'
    BY <1>1, <1>2 DEF FlowBook, FlowShape
  <2>2. FlowShape(x)'
    BY <1>2 DEF FlowShape
  <2> QED BY <2>1, <2>2
<1>4. \A q, p \in reqs' : q.n = p.n => q = p
  BY <1>1, <1>2 DEF FlowBook
<1>5. \A q \in reqs' : q.kind = "captcha" => q.n \notin spent' /\ captcha' # q.n
  BY <1>1, <1>2 DEF FlowBook
<1>6. \A q \in reqs' : q.kind = "captcha" => \A p \in reqs' : p.captcha # q.n
  BY <1>1, <1>2 DEF FlowBook
<1> QED BY <1>3, <1>4, <1>5, <1>6 DEF FlowBook

(* What the server makes of a request, and what it leaves alone.           *)
FlowAnswered(r, x) ==
  /\ x \in FlowRequests /\ x.n = r.n /\ x.kind = r.kind /\ x.account = r.account
  /\ x.captcha = r.captcha /\ x.mount = r.mount
  /\ r.phase = "sent" /\ x.phase = "served" /\ x.answer # "none"
  /\ x.kind # "captcha" => x.answer # "captcha"
  /\ x.kind = "captcha" => x.answer \in {"captcha", "failed"}

FlowServing(r, x) ==
  /\ reqs' = (reqs \ {r}) \cup {x}
  /\ UNCHANGED Flows!app /\ UNCHANGED Flows!formVars
  /\ path' = path /\ mount' = mount /\ issued' = issued /\ seen' = seen
  /\ overlap' = overlap /\ unloaded' = unloaded /\ unshown' = unshown /\ strayed' = strayed
  /\ configured' \in BOOLEAN /\ mfa' \in [Accounts -> {"off", "setup", "on"}]
  /\ tokens' \subseteq 1 .. MaxRequests
  /\ spent' = spent \/ (r.kind = "login" /\ spent' = spent \cup {r.captcha})
  /\ enrolled' = enrolled \/ (x.answer = "codes" /\ x.kind # "captcha" /\ enrolled' = enrolled \cup {r.account})

(* A step of the server.                                                   *)
LEMMA FlowServed ==
  ASSUME Flows!ConstantsOK, FlowInv, NEW r \in reqs, NEW x, FlowAnswered(r, x),
         FlowServing(r, x)
  PROVE  FlowInv'
<1>0. FlowAnswered(r, x) /\ FlowServing(r, x)
  OBVIOUS
<1> USE <1>0 DEF FlowAnswered, FlowServing
<1>1. /\ UNCHANGED <<session, known, auth, me, path, mount, username, challenge, captcha, codes, submitting, passkey, issued, seen, overlap, unloaded, unshown, strayed>>
      /\ FlowTypes /\ FlowFlags /\ FlowBook
  BY DEF Flows!app, Flows!formVars, FlowInv
<1>2. r.captcha <= issued /\ r.captcha \in Nat /\ issued \in Nat /\ r.answer = "none" /\ mount \in Nat
  BY <1>1 DEF FlowBook, FlowShape, FlowRequests, FlowTypes
<1>3. FlowTypes' /\ FlowFlags'
  <2>1. spent' \subseteq 0 .. issued
    <3>1. r.captcha \in 0 .. issued /\ spent \subseteq 0 .. issued
      BY <1>1, <1>2 DEF FlowTypes
    <3> HIDE <1>1, <1>2
    <3> QED BY <3>1
  <2>2. FlowFlags'
    BY <1>1 DEF FlowFlags
  <2>3. enrolled' \subseteq Accounts
    BY <1>1 DEF FlowTypes, FlowBook, FlowShape
  <2>4. FlowTypes'
    <3> HIDE <1>0
    <3>1. configured' \in BOOLEAN /\ mfa' \in [Accounts -> {"off", "setup", "on"}] /\ tokens' \subseteq 1 .. MaxRequests
      BY <1>0
    <3> QED BY <1>1, <2>1, <2>3, <3>1 DEF FlowTypes
  <2> QED BY <2>2, <2>4
<1>4. FlowBook'
  <2>1. spent' \subseteq spent \cup {q.captcha : q \in reqs}
    OBVIOUS
  <2>2. /\ x.phase = "sent" <=> x.answer = "none" 
        /\ x.phase = "refresh" => x.answer = "user"
        /\ x.kind = "captcha" => x.answer \in {"none", "captcha", "failed"}
    OBVIOUS
  <2> QED BY <1>1, <1>2, <2>1, <2>2, FlowBookServed
<1>5. FlowGates'
  BY <1>1 DEF FlowInv, FlowGates
<1>6. /\ \A q \in reqs : q # r => q \in reqs'
      /\ \A q \in reqs' : q = x \/ (q \in reqs /\ q # r)
      /\ x \in reqs'
  OBVIOUS
<1>7. FlowBusy'
  BY <1>1, <1>6 DEF FlowInv, FlowBusy, Flows!BusyIsTrue, Flows!Pending, Flows!Mounted
<1>8. FlowAlone'
  <2> SUFFICES ASSUME ~overlap' PROVE FlowAlone!2'
    BY DEF FlowAlone
  <2>1. FlowAlone!2
    BY <1>1 DEF FlowInv, FlowAlone
  <2>2. \A q, p \in Flows!Pending' : q = p
    BY <1>6, <2>1 DEF Flows!Pending
  <2>3. \A q \in Flows!Pending' : q.phase = "refresh" \/ Flows!Mounted(q)'
    BY <1>1, <1>6, <2>1 DEF Flows!Pending, Flows!Mounted
  <2>4. codes' # "none" => Flows!Pending' = {} /\ session' = codes'
    BY <1>1, <1>6, <2>1 DEF Flows!Pending
  <2>5. (me.phase # "none" => auth = "none")' /\ (me.phase = "served" => me.user = session)' /\ Flows!AuthIsSession'
    BY <1>1, <2>1 DEF Flows!AuthIsSession
  <2>6. \A a \in enrolled' : a \in (seen \cup unshown)' \/ codes' = a \/ \E q \in Flows!Pending' : q.account = a /\ q.answer = "codes"
    <3>1. \A a \in enrolled : a \in (seen \cup unshown)' \/ codes' = a \/ \E q \in Flows!Pending' : q.account = a /\ q.answer = "codes"
      BY <1>1, <1>2, <1>6, <2>1 DEF Flows!Pending
    <3>2. CASE x.answer = "codes" /\ x.kind # "captcha" /\ enrolled' = enrolled \cup {r.account}
      <4>1. x \in Flows!Pending' /\ x.account = r.account /\ x.answer = "codes"
        BY <1>6, <3>2 DEF Flows!Pending, Flows!SignIns, FlowRequests, Flows!Kinds
      <4> QED BY <3>1, <3>2, <4>1
    <3> QED BY <3>1, <3>2
  <2> QED BY <2>2, <2>3, <2>4, <2>5, <2>6
<1>9. FlowCaptcha'
  <2>1. (Captcha /\ known /\ Flows!Form /\ challenge = Flows!NoChallenge /\ ~unloaded /\ auth = "none")' => FlowWaits \/ FlowUsable
    BY <1>1 DEF FlowInv, FlowCaptcha, Flows!Form
  <2>2. FlowWaits => FlowWaits'
    BY <1>1, <1>6 DEF FlowWaits, Flows!Mounted
  <2>3. FlowUsable => FlowUsable'
    BY <1>1, <1>6 DEF FlowUsable
  <2> QED BY <2>1, <2>2, <2>3 DEF FlowCaptcha
<1> QED BY <1>3, <1>4, <1>5, <1>7, <1>8, <1>9 DEF FlowInv

(* A step of the server.                                                   *)
LEMMA FlowServes ==
  ASSUME Flows!ConstantsOK, FlowInv, NEW r \in reqs,
         Flows!ServeCaptcha(r) \/ Flows!ServeLogin(r) \/ Flows!ServeSetup(r) \/ Flows!ServeMfa(r) \/ Flows!Refuse(r)
  PROVE  FlowInv'
<1>1. /\ r \in FlowRequests /\ r.phase = "sent" /\ r.n \in 1 .. MaxRequests
      /\ r.token \in 0 .. MaxRequests
      /\ r.kind # "captcha" => r.account \in Accounts
      /\ r.kind \in Flows!Kinds
  BY DEF FlowInv, FlowBook, FlowShape, FlowRequests, Flows!ServeCaptcha, Flows!ServeLogin,
    Flows!ServeSetup, Flows!ServeMfa, Flows!Refuse
<1>2. /\ configured \in BOOLEAN /\ mfa \in [Accounts -> {"off", "setup", "on"}]
      /\ tokens \subseteq 1 .. MaxRequests
  BY DEF FlowInv, FlowTypes
<1>3. 0 \in 0 .. MaxRequests
  BY DEF Flows!ConstantsOK
<1>4. CASE Flows!ServeCaptcha(r)
  <2> DEFINE x == [r EXCEPT !.phase = "served", !.answer = "captcha", !.token = 0]
  <2>1. /\ reqs' = (reqs \ {r}) \cup {x} /\ r.kind = "captcha"
        /\ UNCHANGED Flows!app /\ UNCHANGED Flows!formVars /\ path' = path /\ mount' = mount
        /\ issued' = issued /\ seen' = seen /\ overlap' = overlap /\ unloaded' = unloaded
        /\ unshown' = unshown /\ strayed' = strayed
        /\ configured' = configured /\ mfa' = mfa /\ tokens' = tokens /\ spent' = spent
        /\ enrolled' = enrolled
    BY <1>4 DEF Flows!ServeCaptcha, Flows!Respond, Flows!server, Flows!history, Flows!losses
  <2>2. /\ x \in FlowRequests /\ x.n = r.n /\ x.kind = r.kind /\ x.account = r.account
        /\ x.captcha = r.captcha /\ x.mount = r.mount
        /\ x.phase = "served" /\ x.answer = "captcha"
    BY <1>1, <1>3 DEF FlowRequests
  <2> HIDE DEF x
  <2>8. FlowAnswered(r, x)
    BY <1>1, <1>2, <2>1, <2>2 DEF FlowAnswered
  <2>9. FlowServing(r, x)
    BY <1>1, <1>2, <2>1, <2>2 DEF FlowServing
  <2> QED BY <2>8, <2>9, FlowServed
<1>5. CASE Flows!ServeLogin(r)
  <2>1. /\ r.kind \in {"login", "passkey"} 
        /\ UNCHANGED Flows!app /\ UNCHANGED Flows!formVars /\ path' = path /\ mount' = mount
        /\ issued' = issued /\ seen' = seen /\ overlap' = overlap /\ unloaded' = unloaded
        /\ unshown' = unshown /\ strayed' = strayed
        /\ configured' = configured /\ mfa' = mfa /\ enrolled' = enrolled
        /\ spent' = spent \/ (r.kind = "login" /\ spent' = spent \cup {r.captcha})
    BY <1>5 DEF Flows!ServeLogin, Flows!history, Flows!losses
  <2>2. CASE mfa[r.account] = "off"
    <3> DEFINE x == [r EXCEPT !.phase = "served", !.answer = "user", !.token = 0]
    <3>1. reqs' = (reqs \ {r}) \cup {x} /\ UNCHANGED tokens
      BY <1>5, <2>2 DEF Flows!ServeLogin, Flows!Respond
    <3>2. /\ x \in FlowRequests /\ x.n = r.n /\ x.kind = r.kind /\ x.account = r.account
          /\ x.captcha = r.captcha /\ x.mount = r.mount
          /\ x.phase = "served" /\ x.answer = "user"
      BY <1>1, <1>3 DEF FlowRequests
    <3> HIDE DEF x
    <3>8. FlowAnswered(r, x)
      BY <1>1, <1>2, <2>1, <3>1, <3>2 DEF FlowAnswered
    <3>9. FlowServing(r, x)
      BY <1>1, <1>2, <2>1, <3>1, <3>2 DEF FlowServing
    <3> QED BY <3>8, <3>9, FlowServed
  <2>3. CASE mfa[r.account] # "off"
    <3> DEFINE setup == mfa[r.account] = "setup"
               x == [r EXCEPT !.phase = "served", !.answer = "challenge", !.token = r.n, !.setup = setup]
    <3>1. reqs' = (reqs \ {r}) \cup {x} /\ tokens' = tokens \cup {r.n}
      BY <1>5, <2>3 DEF Flows!ServeLogin
    <3>2. setup \in BOOLEAN /\ r.n \in 0 .. MaxRequests
      BY <1>1
    <3> HIDE DEF setup
    <3>3. /\ x \in FlowRequests /\ x.n = r.n /\ x.kind = r.kind /\ x.account = r.account
          /\ x.captcha = r.captcha /\ x.mount = r.mount
          /\ x.phase = "served" /\ x.answer = "challenge"
      BY <1>1, <3>2 DEF FlowRequests
    <3> HIDE DEF x
    <3>4. tokens' \subseteq 1 .. MaxRequests
      BY <1>1, <1>2, <3>1
    <3>8. FlowAnswered(r, x)
      BY <1>1, <1>2, <2>1, <3>1, <3>3, <3>4 DEF FlowAnswered
    <3>9. FlowServing(r, x)
      BY <1>1, <1>2, <2>1, <3>1, <3>3, <3>4 DEF FlowServing
    <3> QED BY <3>8, <3>9, FlowServed
  <2> QED BY <2>2, <2>3
<1>6. CASE Flows!ServeSetup(r)
  <2> DEFINE x == [r EXCEPT !.phase = "served", !.answer = "user", !.token = 0]
  <2>1. /\ reqs' = (reqs \ {r}) \cup {x} /\ r.kind = "setup" /\ configured' = TRUE
        /\ UNCHANGED Flows!app /\ UNCHANGED Flows!formVars /\ path' = path /\ mount' = mount
        /\ issued' = issued /\ seen' = seen /\ overlap' = overlap /\ unloaded' = unloaded
        /\ unshown' = unshown /\ strayed' = strayed
        /\ mfa' = mfa /\ tokens' = tokens /\ spent' = spent /\ enrolled' = enrolled
    BY <1>6 DEF Flows!ServeSetup, Flows!Respond, Flows!history, Flows!losses
  <2>2. /\ x \in FlowRequests /\ x.n = r.n /\ x.kind = r.kind /\ x.account = r.account
        /\ x.captcha = r.captcha /\ x.mount = r.mount
        /\ x.phase = "served" /\ x.answer = "user"
    BY <1>1, <1>3 DEF FlowRequests
  <2> HIDE DEF x
  <2>8. FlowAnswered(r, x)
    BY <1>1, <1>2, <2>1, <2>2 DEF FlowAnswered
  <2>9. FlowServing(r, x)
    BY <1>1, <1>2, <2>1, <2>2 DEF FlowServing
  <2> QED BY <2>8, <2>9, FlowServed
<1>7. CASE Flows!ServeMfa(r)
  <2> DEFINE answer == IF r.setup THEN "codes" ELSE "user"
             x == [r EXCEPT !.phase = "served", !.answer = answer, !.token = r.token]
  <2>1. /\ reqs' = (reqs \ {r}) \cup {x} /\ r.kind = "mfa" /\ tokens' = tokens \ {r.token}
        /\ mfa' = [mfa EXCEPT ![r.account] = "on"]
        /\ enrolled' = enrolled \/ (answer = "codes" /\ enrolled' = enrolled \cup {r.account})
        /\ UNCHANGED Flows!app /\ UNCHANGED Flows!formVars /\ path' = path /\ mount' = mount
        /\ issued' = issued /\ seen' = seen /\ overlap' = overlap /\ unloaded' = unloaded
        /\ unshown' = unshown /\ strayed' = strayed
        /\ configured' = configured /\ spent' = spent
    BY <1>7 DEF Flows!ServeMfa, Flows!Respond, Flows!EnrolledMfa, Flows!losses
  <2>2. answer \in {"codes", "user"}
    OBVIOUS
  <2> HIDE DEF answer
  <2>3. /\ x \in FlowRequests /\ x.n = r.n /\ x.kind = r.kind /\ x.account = r.account
        /\ x.captcha = r.captcha /\ x.mount = r.mount
        /\ x.phase = "served" /\ x.answer = answer
    BY <1>1, <2>2 DEF FlowRequests
  <2> HIDE DEF x
  <2>4. mfa' \in [Accounts -> {"off", "setup", "on"}] /\ tokens' \subseteq 1 .. MaxRequests
    BY <1>2, <2>1
  <2>8. FlowAnswered(r, x)
    BY <1>1, <1>2, <2>1, <2>2, <2>3, <2>4 DEF FlowAnswered
  <2>9. FlowServing(r, x)
    BY <1>1, <1>2, <2>1, <2>2, <2>3, <2>4 DEF FlowServing
  <2> QED BY <2>8, <2>9, FlowServed
<1>8. CASE Flows!Refuse(r)
  <2> DEFINE x == [r EXCEPT !.phase = "served", !.answer = "failed", !.token = r.token]
  <2>1. /\ reqs' = (reqs \ {r}) \cup {x} /\ tokens' \subseteq tokens
        /\ spent' = spent \/ (r.kind = "login" /\ spent' = spent \cup {r.captcha})
        /\ UNCHANGED Flows!app /\ UNCHANGED Flows!formVars /\ path' = path /\ mount' = mount
        /\ issued' = issued /\ seen' = seen /\ overlap' = overlap /\ unloaded' = unloaded
        /\ unshown' = unshown /\ strayed' = strayed
        /\ configured' = configured /\ mfa' = mfa /\ enrolled' = enrolled
    BY <1>8 DEF Flows!Refuse, Flows!Respond, Flows!history, Flows!losses
  <2>2. /\ x \in FlowRequests /\ x.n = r.n /\ x.kind = r.kind /\ x.account = r.account
        /\ x.captcha = r.captcha /\ x.mount = r.mount
        /\ x.phase = "served" /\ x.answer = "failed"
    BY <1>1 DEF FlowRequests
  <2> HIDE DEF x
  <2>3. tokens' \subseteq 1 .. MaxRequests
    BY <1>2, <2>1
  <2>8. FlowAnswered(r, x)
    BY <1>1, <1>2, <2>1, <2>2, <2>3 DEF FlowAnswered
  <2>9. FlowServing(r, x)
    BY <1>1, <1>2, <2>1, <2>2, <2>3 DEF FlowServing
  <2> QED BY <2>8, <2>9, FlowServed
<1> QED BY <1>4, <1>5, <1>6, <1>7, <1>8

(* A request that is asked for.                                            *)
LEMMA FlowAsked ==
  ASSUME Flows!ConstantsOK, FlowTypes, issued < MaxRequests
  PROVE  LET x == Flows!Asked(issued + 1)
         IN /\ x \in FlowRequests /\ x.n = issued + 1 /\ x.kind = "captcha" /\ x.captcha = 0 /\ x.phase = "sent" /\ x.answer = "none"
            /\ x.mount = mount
<1>1. mount \in Nat /\ issued + 1 \in 1 .. MaxRequests /\ 0 \in 0 .. MaxRequests
  BY DEF FlowTypes, Flows!ConstantsOK
<1> QED BY <1>1 DEF Flows!Asked, FlowRequests, Flows!Kinds


(* The page asks for another captcha, or where none is needed drops it.    *)
FlowEffect ==
  /\ Flows!Form
  /\ UNCHANGED <<Flows!server, Flows!app, path, mount, codes, submitting, passkey, Flows!history>>
  /\ username' \in Accounts /\ challenge' \in {challenge, Flows!NoChallenge}
  /\ \/ /\ issued < MaxRequests /\ issued' = issued + 1 /\ reqs' = reqs \cup {Flows!Asked(issued + 1)} /\ UNCHANGED captcha
     \/ ~(Captcha /\ known) /\ captcha' = 0 /\ UNCHANGED <<reqs, issued>>

LEMMA FlowEffects == ASSUME Flows!ConstantsOK, FlowInv, FlowEffect PROVE FlowInv'
<1>1. /\ UNCHANGED <<configured, mfa, tokens, spent, session, known, auth, me, path, mount, codes, submitting, passkey, enrolled, seen, overlap, unloaded, unshown, strayed>>
      /\ path = "login" /\ codes = "none" /\ username' \in Accounts
      /\ challenge' \in {challenge, Flows!NoChallenge}
      /\ FlowTypes /\ FlowFlags /\ FlowBook /\ issued \in Nat /\ mount \in Nat
      /\ captcha \in 0 .. issued /\ MaxRequests \in Nat
  BY DEF FlowEffect, Flows!Form, Flows!server, Flows!app, Flows!history, Flows!losses,
    FlowInv, FlowTypes, Flows!ConstantsOK
<1>2. /\ issued' \in issued .. MaxRequests /\ captcha' \in {captcha, 0}
      /\ Flows!Pending' = Flows!Pending /\ reqs \subseteq reqs'
      /\ Captcha /\ known => FlowWaits'
      /\ FlowBook'
  <2>1. CASE issued < MaxRequests /\ issued' = issued + 1 /\ reqs' = reqs \cup {Flows!Asked(issued + 1)} /\ UNCHANGED captcha
    <3> DEFINE x == Flows!Asked(issued + 1)
    <3>1. /\ x \in FlowRequests /\ x.n = issued + 1 /\ x.kind = "captcha" /\ x.captcha = 0
          /\ x.phase = "sent" /\ x.answer = "none"
          /\ x.mount = mount /\ reqs' = reqs \cup {x}
      BY <1>1, <2>1, FlowAsked
    <3> HIDE DEF x
    <3>2. FlowBook'
      BY <1>1, <2>1, <3>1, FlowBookMore
    <3>3. Flows!Pending' = Flows!Pending
      BY <3>1 DEF Flows!Pending, Flows!SignIns
    <3>4. FlowWaits'
      BY <1>1, <3>1 DEF FlowWaits, Flows!Mounted
    <3> QED BY <1>1, <2>1, <3>1, <3>2, <3>3, <3>4
  <2>2. CASE ~(Captcha /\ known) /\ captcha' = 0 /\ UNCHANGED <<reqs, issued>>
    <3>1. FlowBook'
      BY <1>1, <2>2, FlowBookLess
    <3>2. issued \in issued .. MaxRequests
      BY <1>1 DEF FlowTypes
    <3> QED BY <1>1, <2>2, <3>1, <3>2 DEF Flows!Pending
  <2> QED BY <2>1, <2>2 DEF FlowEffect
<1>3. FlowFlags' /\ FlowGates'
  BY <1>1 DEF FlowFlags, FlowInv, FlowGates
<1>4. FlowTypes'
  <2>1. captcha' \in 0 .. issued' /\ spent' \subseteq 0 .. issued' /\ issued' \in 0 .. MaxRequests
    BY <1>1, <1>2 DEF FlowTypes
  <2>2. Flows!NoChallenge \in [account : Accounts \cup {"none"}, token : 0 .. MaxRequests, setup : BOOLEAN]
    BY <1>1 DEF Flows!NoChallenge
  <2>3. (challenge \in [account : Accounts \cup {"none"}, token : 0 .. MaxRequests, setup : BOOLEAN])'
        /\ (challenge' # Flows!NoChallenge => challenge'.account \in Accounts)
    BY <1>1, <2>2 DEF FlowTypes
  <2> QED BY <1>1, <2>1, <2>3 DEF FlowTypes
<1>5. FlowBusy' /\ FlowAlone'
  BY <1>1, <1>2 DEF FlowInv, FlowBusy, Flows!BusyIsTrue, FlowAlone, Flows!AuthIsSession,
    Flows!Mounted
<1>6. FlowCaptcha'
  BY <1>1, <1>2 DEF FlowCaptcha
<1> QED BY <1>2, <1>3, <1>4, <1>5, <1>6 DEF FlowInv

LEMMA FlowTypings ==
  ASSUME Flows!ConstantsOK, FlowInv,
         Flows!BackToPassword \/ Flows!RefreshCaptcha \/ \E a \in Accounts : Flows!TypeUsername(a)
  PROVE  FlowInv'
<1>1. username \in Accounts /\ issued \in Nat
  BY DEF FlowInv, FlowTypes
<1>2. FlowEffect
  <2>1. CASE Flows!BackToPassword
    BY <1>1, <2>1 DEF Flows!BackToPassword, Flows!Effect, FlowEffect
  <2>2. CASE Flows!RefreshCaptcha
    BY <1>1, <2>2 DEF Flows!RefreshCaptcha, FlowEffect, Flows!formVars
  <2>3. CASE \E a \in Accounts : Flows!TypeUsername(a)
    BY <1>1, <2>3 DEF Flows!TypeUsername, Flows!Effect, FlowEffect
  <2> QED BY <2>1, <2>2, <2>3
<1> QED BY <1>2, FlowEffects

(* A sign-in is sent.                                                      *)
LEMMA FlowSends ==
  ASSUME Flows!ConstantsOK, FlowInv, Flows!Form, NEW kind \in Flows!SignIns,
         NEW account \in Accounts, NEW token \in 0 .. MaxRequests,
         Flows!Send(kind, account, token),
         IF kind = "passkey" THEN ~passkey /\ passkey' = TRUE /\ UNCHANGED submitting
                             ELSE ~submitting /\ submitting' = TRUE /\ UNCHANGED passkey,
         Captcha /\ known /\ challenge = Flows!NoChallenge => kind = "login" \/ (kind = "passkey")
  PROVE  FlowInv'
<1>0. PICK x : x = [Flows!Asked(issued + 1) EXCEPT !.kind = kind, !.account = account, !.token = token,
                                             !.captcha = captcha, !.setup = challenge.setup]
  OBVIOUS
<1>1. /\ UNCHANGED <<configured, mfa, tokens, spent, session, known, auth, me, path, mount, username, challenge, captcha, codes, enrolled, seen, unloaded, unshown, strayed>>
      /\ path = "login" /\ codes = "none" /\ issued < MaxRequests /\ issued' = issued + 1
      /\ reqs' = reqs \cup {x}
      /\ overlap' = (overlap \/ Flows!Pending # {})
  BY <1>0 DEF Flows!Send, Flows!Form, Flows!server, Flows!app, Flows!losses
<1>2. /\ FlowTypes /\ FlowFlags /\ FlowBook /\ issued \in Nat /\ mount \in Nat
      /\ captcha \in 0 .. issued /\ MaxRequests \in Nat
      /\ challenge.setup \in BOOLEAN
  BY DEF FlowInv, FlowTypes, Flows!ConstantsOK
<1>3. /\ x \in FlowRequests /\ x.n = issued + 1 /\ x.kind = kind /\ x.account = account
      /\ x.captcha = captcha
      /\ x.phase = "sent" /\ x.answer = "none" /\ x.mount = mount
  <2>1. captcha \in 0 .. MaxRequests /\ issued + 1 \in 1 .. MaxRequests /\ kind \in Flows!Kinds
    BY <1>1, <1>2 DEF Flows!SignIns, Flows!Kinds
  <2> QED BY <1>0, <1>2, <2>1 DEF Flows!Asked, FlowRequests
<1>4. kind # "captcha" /\ Flows!Pending' = Flows!Pending \cup {x} /\ Flows!Mounted(x)'
  <2>1. kind # "captcha" /\ kind \in Flows!SignIns
    BY DEF Flows!SignIns
  <2>2. Flows!Mounted(x)'
    BY <1>1, <1>3 DEF Flows!Mounted
  <2>3. Flows!Pending' = Flows!Pending \cup {x}
    BY <1>1, <1>3, <2>1 DEF Flows!Pending
  <2> QED BY <2>1, <2>2, <2>3
<1>5. FlowBook'
  BY <1>1, <1>2, <1>3, <1>4, FlowBookMore
<1>6. FlowTypes'
  <2>1. captcha' \in 0 .. issued' /\ spent' \subseteq 0 .. issued' /\ issued' \in 0 .. MaxRequests
    BY <1>1, <1>2 DEF FlowTypes
  <2> QED BY <1>1, <1>2, <2>1 DEF FlowTypes, Flows!NoChallenge
<1>7. FlowFlags' /\ FlowGates'
  <2>1. overlap' \in BOOLEAN /\ submitting' \in BOOLEAN /\ passkey' \in BOOLEAN
    BY <1>1, <1>2 DEF FlowFlags
  <2> QED BY <1>1, <2>1 DEF FlowInv, FlowFlags, FlowGates
<1>8. FlowBusy'
  <2>1. FlowBusy
    BY DEF FlowInv
  <2>2. \A q \in Flows!Pending : Flows!Mounted(q)' <=> Flows!Mounted(q)
    BY <1>1 DEF Flows!Mounted
  <2>3. \A q \in Flows!Pending : Flows!Mounted(q) => ~(q.kind = "passkey" <=> kind = "passkey")
    BY <2>1 DEF FlowBusy, Flows!BusyIsTrue
  <2>4. /\ submitting <=> \E r \in Flows!Pending : Flows!Mounted(r) /\ r.kind # "passkey"
        /\ passkey <=> \E r \in Flows!Pending : Flows!Mounted(r) /\ r.kind = "passkey"
    BY <1>2, <2>1 DEF FlowBusy, Flows!BusyIsTrue, FlowFlags
  <2>7. Flows!BusyIsTrue'
    <3>5. CASE kind = "passkey"
      <4>1. passkey' /\ \E r \in Flows!Pending' : Flows!Mounted(r)' /\ r.kind = "passkey"
        BY <1>3, <1>4, <3>5
      <4>2. submitting' = submitting /\ ((\E r \in Flows!Pending' : Flows!Mounted(r)' /\ r.kind # "passkey") <=> \E r \in Flows!Pending : Flows!Mounted(r) /\ r.kind # "passkey")
        BY <1>3, <1>4, <2>2, <3>5
      <4>3. passkey' = TRUE /\ submitting \in BOOLEAN
        BY <1>2, <3>5 DEF FlowFlags
      <4> QED BY <2>4, <4>1, <4>2, <4>3 DEF Flows!BusyIsTrue
    <3>6. CASE kind # "passkey"
      <4>1. submitting' /\ \E r \in Flows!Pending' : Flows!Mounted(r)' /\ r.kind # "passkey"
        BY <1>3, <1>4, <3>6
      <4>2. passkey' = passkey /\ ((\E r \in Flows!Pending' : Flows!Mounted(r)' /\ r.kind = "passkey") <=> \E r \in Flows!Pending : Flows!Mounted(r) /\ r.kind = "passkey")
        BY <1>3, <1>4, <2>2, <3>6
      <4>3. submitting' = TRUE /\ passkey \in BOOLEAN
        BY <1>2, <3>6 DEF FlowFlags
      <4> QED BY <2>4, <4>1, <4>2, <4>3 DEF Flows!BusyIsTrue
    <3> QED BY <3>5, <3>6
  <2>8. \A q, r \in Flows!Pending' : Flows!Mounted(q)' /\ Flows!Mounted(r)' /\ (q.kind = "passkey" <=> r.kind = "passkey") => q = r
    BY <1>3, <1>4, <2>1, <2>2, <2>3 DEF FlowBusy
  <2> QED BY <2>7, <2>8 DEF FlowBusy
<1>9. FlowAlone'
  <2> SUFFICES ASSUME ~overlap' PROVE FlowAlone!2'
    BY DEF FlowAlone
  <2>1. ~overlap /\ Flows!Pending = {}
    BY <1>1, <1>2 DEF FlowFlags
  <2>2. FlowAlone!2
    BY <2>1 DEF FlowInv, FlowAlone
  <2>3. /\ \A q, r \in Flows!Pending' : q = r
        /\ \A r \in Flows!Pending' : r.phase = "refresh" \/ Flows!Mounted(r)'
        /\ codes' = "none"
    BY <1>1, <1>4, <2>1
  <2>4. \A a \in enrolled' : a \in (seen \cup unshown)' \/ codes' = a
    BY <1>1, <2>1, <2>2
  <2>5. (me.phase # "none" => auth = "none")' /\ (me.phase = "served" => me.user = session)' /\ Flows!AuthIsSession'
    BY <1>1, <2>1, <2>2 DEF Flows!AuthIsSession
  <2> QED BY <2>3, <2>4, <2>5
<1>10. FlowCaptcha'
  <2>1. FlowCaptcha
    BY DEF FlowInv
  <2>2. FlowWaits => FlowWaits'
    BY <1>1 DEF FlowWaits, Flows!Mounted
  <2>3. CASE kind = "login"
    <3>1. x \in reqs' /\ x.kind = "login"
      BY <1>1, <1>3, <2>3
    <3>2. FlowWaits'
      BY <1>4, <3>1 DEF FlowWaits
    <3> QED BY <3>2 DEF FlowCaptcha
  <2>4. CASE kind # "login"
    <3>1. FlowUsable => FlowUsable'
      BY <1>1, <1>3, <2>4 DEF FlowUsable
    <3> QED BY <1>1, <2>1, <2>2, <3>1 DEF FlowCaptcha, Flows!Form
  <2> QED BY <2>3, <2>4
<1> QED BY <1>5, <1>6, <1>7, <1>8, <1>9, <1>10 DEF FlowInv

LEMMA FlowSubmits == ASSUME Flows!ConstantsOK, FlowInv, Flows!Submit \/ Flows!StartPasskeyLogin PROVE FlowInv'
<1>1. /\ username \in Accounts
      /\ challenge # Flows!NoChallenge => challenge.account \in Accounts
      /\ challenge.token \in 0 .. MaxRequests /\ 0 \in 0 .. MaxRequests
  BY DEF FlowInv, FlowTypes, Flows!ConstantsOK
<1>2. CASE Flows!Submit
  <2>1. Flows!Form /\ ~submitting /\ submitting' = TRUE /\ UNCHANGED passkey
    BY <1>2 DEF Flows!Submit
  <2>2. CASE challenge # Flows!NoChallenge
    <3>1. Flows!Send("mfa", challenge.account, challenge.token)
      BY <1>2, <2>2 DEF Flows!Submit
    <3>2. "mfa" \in Flows!SignIns /\ challenge.account \in Accounts
      BY <1>1, <2>2 DEF Flows!SignIns
    <3> QED BY <1>1, <2>1, <2>2, <3>1, <3>2, FlowSends
  <2>3. CASE challenge = Flows!NoChallenge /\ ~known
    <3>1. Flows!Send("setup", username, 0)
      BY <1>2, <2>3 DEF Flows!Submit
    <3>2. "setup" \in Flows!SignIns
      BY DEF Flows!SignIns
    <3> QED BY <1>1, <2>1, <2>3, <3>1, <3>2, FlowSends
  <2>4. CASE challenge = Flows!NoChallenge /\ known
    <3>1. Flows!Send("login", username, 0)
      BY <1>2, <2>4 DEF Flows!Submit
    <3>2. "login" \in Flows!SignIns
      BY DEF Flows!SignIns
    <3> QED BY <1>1, <2>1, <2>4, <3>1, <3>2, FlowSends
  <2> QED BY <2>2, <2>3, <2>4 DEF FlowInv, FlowTypes
<1>3. CASE Flows!StartPasskeyLogin
  <2>1. /\ Flows!Form /\ ~passkey /\ passkey' = TRUE /\ Flows!Send("passkey", username, 0)
        /\ UNCHANGED submitting /\ "passkey" \in Flows!SignIns
    BY <1>3 DEF Flows!StartPasskeyLogin, Flows!SignIns
  <2> QED BY <1>1, <2>1, FlowSends
<1> QED BY <1>2, <1>3

-----------------------------------------------------------------------------
(* What the steps below need of the state before them.                     *)
LEMMA FlowFacts ==
  ASSUME Flows!ConstantsOK, FlowInv
  PROVE  /\ FlowTypes /\ FlowFlags /\ FlowBook /\ FlowGates /\ FlowBusy /\ FlowAlone
         /\ FlowCaptcha
         /\ "none" \notin Accounts /\ mount \in Nat /\ issued \in Nat /\ MaxRequests \in Nat
         /\ path \in {"login", "app"}
         /\ captcha \in 0 .. issued /\ spent \subseteq 0 .. issued
         /\ issued \in 0 .. MaxRequests
         /\ \A r \in reqs : r.mount \in Nat /\ r.mount <= mount /\ (path = "app" => r.mount # mount) /\ r.n \in 1 .. issued
BY DEF FlowInv, FlowTypes, Flows!ConstantsOK, FlowBook, FlowShape, FlowRequests

(* A request that was answered is a sign-in, or a captcha.                 *)
LEMMA FlowKinds ==
  ASSUME Flows!ConstantsOK, FlowInv, NEW r \in reqs
  PROVE  /\ r \in FlowRequests /\ r.kind \in Flows!Kinds
         /\ (r \in Flows!Pending <=> r.kind # "captcha")
         /\ r \in Flows!Pending => r.account \in Accounts
         /\ r.answer \in {"user", "challenge", "codes"} \/ r.phase = "refresh" => r \in Flows!Pending
         /\ r.answer = "captcha" => r.kind = "captcha"
         /\ r.phase = "refresh" => r.answer = "user"
BY DEF FlowInv, FlowBook, FlowShape, FlowRequests, Flows!Kinds, Flows!SignIns, Flows!Pending

(* A page that is left has no form any more, and no request is its own.    *)
LEMMA FlowLeaves ==
  ASSUME Flows!ConstantsOK, FlowInv, Flows!Leave, auth' \in Accounts \cup {"none"},
         \A q \in Flows!Pending' : \E p \in reqs : q.mount = p.mount
  PROVE  /\ path' \in {"login", "app"} /\ mount' = mount + 1
         /\ challenge' = Flows!NoChallenge /\ captcha' = 0 /\ codes' = "none"
         /\ submitting' = FALSE /\ passkey' = FALSE /\ username' = username
         /\ path' = "app" <=> auth' # "none"
         /\ FlowBusy'
<1>1. /\ path' \in {"login", "app"} /\ mount' = mount + 1 /\ challenge' = Flows!NoChallenge
      /\ captcha' = 0 /\ codes' = "none"
      /\ submitting' = FALSE /\ passkey' = FALSE /\ username' = username
      /\ path' = "app" <=> auth' # "none"
  BY DEF Flows!Leave
<1>2. \A q \in Flows!Pending' : ~Flows!Mounted(q)'
  BY <1>1, FlowFacts DEF Flows!Mounted
<1> QED BY <1>1, <1>2 DEF FlowBusy, Flows!BusyIsTrue

LEMMA FlowTyped ==
  ASSUME Flows!ConstantsOK, FlowInv, UNCHANGED <<mfa, tokens>>, configured' \in BOOLEAN,
         known' \in BOOLEAN, captcha' \in 0 .. issued', spent' = spent,
         issued' \in issued .. MaxRequests, session' \in Accounts \cup {"none"}, auth' \in Accounts \cup {"none"},
         codes' \in Accounts \cup {"none"}, username' = username, me' \in [phase : {"none", "asked", "served"}, user : Accounts \cup {"none"}],
         path' \in {"login", "app"}, mount' \in Nat, challenge' = challenge \/ challenge' = Flows!NoChallenge, enrolled' = enrolled
  PROVE  FlowTypes'
<1>1. Flows!NoChallenge \in [account : Accounts \cup {"none"}, token : 0 .. MaxRequests, setup : BOOLEAN]
  BY DEF Flows!NoChallenge, Flows!ConstantsOK
<1>2. FlowTypes /\ spent' \subseteq 0 .. issued' /\ issued' \in 0 .. MaxRequests
  BY FlowFacts
<1> QED BY <1>1, <1>2 DEF FlowTypes

(* A flow that has ended resets its own flag.                              *)
LEMMA FlowEnded ==
  ASSUME Flows!ConstantsOK, FlowInv, NEW r \in Flows!Pending, Flows!Idle(r),
         Flows!Pending' = Flows!Pending \ {r}, path' = path, mount' = mount
  PROVE  FlowBusy' /\ submitting' \in BOOLEAN /\ passkey' \in BOOLEAN
<1>1. FlowBusy /\ submitting \in BOOLEAN /\ passkey \in BOOLEAN
  BY FlowFacts DEF FlowFlags
<1>2. \A q \in Flows!Pending : Flows!Mounted(q)' <=> Flows!Mounted(q)
  BY DEF Flows!Mounted
<1>3. /\ submitting' <=> (submitting /\ (r.kind = "passkey" \/ ~Flows!Mounted(r)))
      /\ passkey' <=> (passkey /\ (r.kind # "passkey" \/ ~Flows!Mounted(r)))
      /\ submitting' \in BOOLEAN /\ passkey' \in BOOLEAN
  BY <1>1 DEF Flows!Idle
<1>4. submitting' <=> \E q \in Flows!Pending' : Flows!Mounted(q)' /\ q.kind # "passkey"
  BY <1>1, <1>2, <1>3 DEF FlowBusy, Flows!BusyIsTrue
<1>5. passkey' <=> \E q \in Flows!Pending' : Flows!Mounted(q)' /\ q.kind = "passkey"
  BY <1>1, <1>2, <1>3 DEF FlowBusy, Flows!BusyIsTrue
<1>6. \A q, p \in Flows!Pending' : Flows!Mounted(q)' /\ Flows!Mounted(p)' /\ (q.kind = "passkey" <=> p.kind = "passkey") => q = p
  BY <1>1, <1>2 DEF FlowBusy
<1> QED BY <1>3, <1>4, <1>5, <1>6 DEF FlowBusy, Flows!BusyIsTrue

LEMMA FlowQuits ==
  ASSUME Flows!ConstantsOK, FlowInv, NEW r \in Flows!Pending, r.answer # "codes",
         Flows!Pending' = Flows!Pending \ {r},
         UNCHANGED <<session, auth, me, codes, seen, enrolled, overlap, unshown, strayed, path, mount>>
  PROVE  FlowAlone'
<1> SUFFICES ASSUME ~overlap' PROVE FlowAlone!2'
  BY DEF FlowAlone
<1>1. FlowAlone!2
  BY FlowFacts DEF FlowAlone
<1>2. Flows!Pending' = {}
  BY <1>1
<1>3. \A a \in enrolled' : a \in (seen \cup unshown)' \/ codes' = a
  BY <1>1
<1>4. Flows!AuthIsSession'
  BY <1>1 DEF Flows!AuthIsSession
<1> QED BY <1>1, <1>2, <1>3, <1>4

(* Steps that touch no sign-in.                                            *)
LEMMA FlowQuiet ==
  ASSUME Flows!ConstantsOK, FlowInv, Flows!Pending' = Flows!Pending,
         UNCHANGED <<session, auth, me, path, mount, challenge, codes, submitting, passkey, enrolled, seen, overlap, unshown, strayed>>
  PROVE  FlowGates' /\ FlowBusy' /\ FlowAlone'
<1>1. FlowGates' /\ FlowBusy'
  BY FlowFacts DEF FlowGates, FlowBusy, Flows!BusyIsTrue, Flows!Mounted
<1>2. FlowAlone'
  BY FlowFacts DEF FlowAlone, Flows!AuthIsSession, Flows!Mounted
<1> QED BY <1>1, <1>2

LEMMA FlowCaptchas ==
  ASSUME Flows!ConstantsOK, FlowInv, NEW r \in reqs,
         Flows!CaptchaLoaded(r) \/ Flows!CaptchaFailed(r)
  PROVE  FlowInv'
<1>1. /\ UNCHANGED <<configured, mfa, tokens, spent, session, known, auth, me, path, mount, username, challenge, codes, submitting, passkey,
                     issued, enrolled, seen, overlap, unshown, strayed>>
      /\ reqs' = reqs \ {r} /\ r.kind = "captcha"
      /\ (Flows!CaptchaLoaded(r) => UNCHANGED unloaded)
      /\ captcha' = captcha \/ captcha' = r.n
      /\ unloaded' = unloaded \/ unloaded' = TRUE
  BY FlowKinds DEF Flows!CaptchaLoaded, Flows!CaptchaFailed, Flows!server, Flows!app,
    Flows!formVars, Flows!history, Flows!losses
<1>2. Flows!Pending' = Flows!Pending
  BY <1>1 DEF Flows!Pending, Flows!SignIns
<1>3. FlowGates' /\ FlowBusy' /\ FlowAlone'
  BY <1>1, <1>2, FlowQuiet
<1>4. r.n \in 1 .. issued /\ r \notin reqs'
  BY <1>1, FlowFacts
<1>5. FlowTypes'
  <2>1. captcha' \in 0 .. issued'
    BY <1>1, <1>4, FlowFacts
  <2> QED BY <1>1, <2>1, FlowFacts DEF FlowTypes
<1>6. FlowBook'
  BY <1>1, <1>4, FlowFacts, FlowBookLess
<1>7. FlowFlags'
  BY <1>1, FlowFacts DEF FlowFlags
<1>8. FlowCaptcha'
  <2>1. CASE Flows!CaptchaFailed(r)
    BY <2>1 DEF Flows!CaptchaFailed, FlowCaptcha
  <2>2. CASE Flows!CaptchaLoaded(r) /\ Flows!Mounted(r)
    <3>1. captcha' = r.n
      BY <2>2 DEF Flows!CaptchaLoaded
    <3>2. FlowUsable'
      BY <1>1, <1>4, <3>1, FlowFacts DEF FlowUsable, FlowBook
    <3> QED BY <3>2 DEF FlowCaptcha
  <2>3. CASE Flows!CaptchaLoaded(r) /\ ~Flows!Mounted(r)
    <3>1. captcha' = captcha
      BY <2>3 DEF Flows!CaptchaLoaded
    <3>2. FlowWaits => FlowWaits'
      BY <1>1, <2>3 DEF FlowWaits, Flows!Mounted
    <3>3. FlowUsable => FlowUsable'
      BY <1>1, <3>1 DEF FlowUsable
    <3> QED BY <1>1, <2>3, <3>2, <3>3, FlowFacts DEF FlowCaptcha, Flows!Form
  <2> QED BY <2>1, <2>2, <2>3
<1> QED BY <1>3, <1>5, <1>6, <1>7, <1>8 DEF FlowInv

LEMMA FlowChallenged == ASSUME Flows!ConstantsOK, FlowInv, NEW r \in reqs, Flows!Challenged(r) PROVE FlowInv'
<1>1. /\ UNCHANGED <<configured, mfa, tokens, spent, session, known, auth, me, path, mount, username, codes, issued, enrolled, seen, overlap, unloaded, unshown, strayed>>
      /\ reqs' = reqs \ {r} /\ r.answer = "challenge" /\ Flows!Idle(r)
      /\ challenge' = IF Flows!Mounted(r) THEN [account |-> r.account, token |-> r.token, setup |-> r.setup] ELSE challenge
      /\ captcha' = IF Flows!Mounted(r) THEN 0 ELSE captcha
  BY DEF Flows!Challenged, Flows!server, Flows!app, Flows!history, Flows!losses
<1>2. r \in Flows!Pending /\ r.account \in Accounts /\ r.token \in 0 .. MaxRequests /\ r.setup \in BOOLEAN
  BY <1>1, FlowKinds DEF FlowRequests
<1>3. Flows!Pending' = Flows!Pending \ {r}
  BY <1>1 DEF Flows!Pending
<1>4. FlowBusy' /\ FlowAlone' /\ submitting' \in BOOLEAN /\ passkey' \in BOOLEAN
  BY <1>1, <1>2, <1>3, FlowEnded, FlowQuits
<1>5. Flows!Mounted(r) => challenge' # Flows!NoChallenge /\ challenge'.account \in Accounts
                    /\ challenge' \in [account : Accounts \cup {"none"}, token : 0 .. MaxRequests, setup : BOOLEAN]
  BY <1>1, <1>2, FlowFacts DEF Flows!NoChallenge
<1>6. FlowTypes' /\ FlowFlags'
  <2>1. captcha' \in 0 .. issued'
    BY <1>1, FlowFacts
  <2>2. FlowFlags'
    BY <1>1, <1>4, FlowFacts DEF FlowFlags
  <2>3. FlowTypes'
    BY <1>1, <1>5, <2>1, FlowFacts DEF FlowTypes
  <2> QED BY <2>2, <2>3
<1>7. FlowBook'
  <2>1. captcha' \in {captcha, 0}
    BY <1>1
  <2> QED BY <1>1, <2>1, FlowFacts, FlowBookLess
<1>8. FlowGates'
  BY <1>1, FlowFacts DEF FlowGates, Flows!Mounted
<1>9. FlowCaptcha'
  <2>1. CASE Flows!Mounted(r)
    BY <1>5, <2>1 DEF FlowCaptcha
  <2>2. CASE ~Flows!Mounted(r)
    <3>2. FlowWaits => FlowWaits'
      BY <1>1, <2>2 DEF FlowWaits, Flows!Mounted
    <3>3. FlowUsable => FlowUsable'
      BY <1>1, <2>2 DEF FlowUsable
    <3> QED BY <1>1, <2>2, <3>2, <3>3, FlowFacts DEF FlowCaptcha, Flows!Form
  <2> QED BY <2>1, <2>2
<1> QED BY <1>4, <1>6, <1>7, <1>8, <1>9 DEF FlowInv

(* Recovery codes are shown on the page that asked, and their account is   *)
(* the session's.                                                          *)
LEMMA FlowCodes == ASSUME Flows!ConstantsOK, FlowInv, NEW r \in reqs, Flows!CodesShown(r) PROVE FlowInv'
<1>1. /\ UNCHANGED <<configured, mfa, tokens, spent, known, auth, me, issued, enrolled, seen, overlap, unloaded, unshown, strayed>>
      /\ reqs' = reqs \ {r} /\ r.answer = "codes" /\ session' = r.account
  BY DEF Flows!CodesShown, Flows!UserWithCodes, Flows!server, Flows!history, Flows!losses
<1>2. r \in Flows!Pending /\ r.account \in Accounts
  BY <1>1, FlowKinds
<1>3. Flows!Pending' = Flows!Pending \ {r}
  BY <1>1 DEF Flows!Pending
<1>4. Flows!GateFor(auth') = path
  BY <1>1, FlowFacts DEF Flows!GateFor, FlowGates
<1>5. /\ codes' = (IF Flows!Mounted(r) THEN r.account ELSE codes) /\ Flows!Idle(r)
      /\ UNCHANGED <<path, mount, username, challenge, captcha>>
  BY <1>1, <1>4 DEF Flows!CodesShown
<1>6. FlowBusy' /\ submitting' \in BOOLEAN /\ passkey' \in BOOLEAN
  BY <1>2, <1>3, <1>5, FlowEnded
<1>7. FlowTypes' /\ FlowFlags'
  <2>1. FlowFlags'
    BY <1>1, <1>6, FlowFacts DEF FlowFlags
  <2>2. FlowTypes'
    BY <1>1, <1>2, <1>5, FlowFacts DEF FlowTypes
  <2> QED BY <2>1, <2>2
<1>8. FlowBook'
  BY <1>1, <1>5, FlowFacts, FlowBookLess
<1>9. FlowGates'
  BY <1>1, <1>5, FlowFacts DEF FlowGates, Flows!Mounted
<1>10. FlowAlone'
  <2> SUFFICES ASSUME ~overlap' PROVE FlowAlone!2'
    BY DEF FlowAlone
  <2>1. FlowAlone!2
    BY <1>1, FlowFacts DEF FlowAlone
  <2>2. r.phase # "refresh"
    BY <1>1, FlowKinds
  <2>3. Flows!Mounted(r) /\ Flows!Pending' = {}
    BY <1>2, <1>3, <2>1, <2>2
  <2>4. codes' = r.account /\ me.phase = "none" /\ codes' # "none"
    BY <1>2, <1>5, <2>3, FlowFacts DEF Flows!Mounted, FlowGates
  <2>5. \A a \in enrolled' : a \in (seen \cup unshown)' \/ codes' = a
    <3> SUFFICES ASSUME NEW a \in enrolled, a \notin seen \cup unshown PROVE a = r.account
      BY <1>1, <2>4
    <3>1. a # "none" /\ codes = "none"
      BY <1>2, <2>1, FlowFacts DEF FlowTypes
    <3>2. PICK q \in Flows!Pending : q.account = a /\ q.answer = "codes"
      BY <2>1, <3>1
    <3>3. q = r
      BY <1>2, <2>1
    <3> QED BY <3>2, <3>3
  <2>6. Flows!AuthIsSession'
    BY <2>4 DEF Flows!AuthIsSession
  <2> QED BY <1>1, <2>3, <2>4, <2>5, <2>6
<1>11. FlowCaptcha'
  <2>1. CASE Flows!Mounted(r)
    BY <1>2, <1>5, <2>1, FlowFacts DEF FlowCaptcha, Flows!Form
  <2>2. CASE ~Flows!Mounted(r)
    <3>2. FlowWaits => FlowWaits'
      BY <1>1, <1>5, <2>2 DEF FlowWaits, Flows!Mounted
    <3>3. FlowUsable => FlowUsable'
      BY <1>1, <1>5 DEF FlowUsable
    <3> QED BY <1>1, <1>5, <2>2, <3>2, <3>3, FlowFacts DEF FlowCaptcha, Flows!Form
  <2> QED BY <2>1, <2>2
<1> QED BY <1>6, <1>7, <1>8, <1>9, <1>10, <1>11 DEF FlowInv

(* The user of an answer is the session's and goes to the console, or      *)
(* stays to sign in again.                                                 *)
LEMMA FlowSigned == ASSUME Flows!ConstantsOK, FlowInv, NEW r \in reqs, Flows!SignedIn(r) PROVE FlowInv'
<1>0. PICK x : x = [r EXCEPT !.phase = "refresh"]
  OBVIOUS
<1>1. /\ UNCHANGED <<configured, mfa, tokens, spent, me, issued, enrolled, seen, overlap, unloaded, unshown, strayed>>
      /\ reqs' = (reqs \ {r}) \cup {x} /\ r.answer = "user" /\ r.phase = "served"
      /\ session' = r.account /\ auth' = r.account /\ known' = TRUE
      /\ IF Flows!GateFor(auth') # path THEN Flows!Leave ELSE UNCHANGED <<path, mount, Flows!formVars>>
  BY <1>0 DEF Flows!SignedIn, Flows!SignedInAs, Flows!To, Flows!server, Flows!history,
    Flows!losses
<1>2. r \in Flows!Pending /\ r.account \in Accounts /\ r \in FlowRequests /\ auth' # "none" /\ r.kind # "captcha"
  BY <1>1, FlowKinds, FlowFacts
<1>3. /\ x \in FlowRequests /\ x.n = r.n /\ x.kind = r.kind /\ x.account = r.account
      /\ x.captcha = r.captcha /\ x.mount = r.mount
      /\ x.phase = "refresh" /\ x.answer = "user"
  BY <1>0, <1>1, <1>2 DEF FlowRequests
<1>4. Flows!Pending' = (Flows!Pending \ {r}) \cup {x}
  BY <1>1, <1>2, <1>3 DEF Flows!Pending
<1>5. /\ path' \in {"login", "app"} /\ username' = username
      /\ \/ /\ path' = path /\ mount' = mount /\ UNCHANGED Flows!formVars
            /\ path = "app" \/ Reauth
         \/ /\ path = "login" /\ path' = "app" /\ mount' = mount + 1 /\ challenge' = Flows!NoChallenge /\ captcha' = 0 /\ codes' = "none"
            /\ submitting' = FALSE /\ passkey' = FALSE
  BY <1>1, <1>2, FlowFacts DEF Flows!GateFor, Flows!Leave, Flows!formVars
<1>6. FlowFlags'
  BY <1>1, <1>5, FlowFacts DEF FlowFlags, Flows!formVars
<1>7. FlowTypes'
  <2>1. /\ captcha' \in 0 .. issued' /\ issued' \in issued .. MaxRequests
        /\ codes' \in Accounts \cup {"none"}
        /\ challenge' \in {challenge, Flows!NoChallenge} /\ mount' \in Nat
    BY <1>1, <1>5, FlowFacts DEF FlowTypes, Flows!formVars
  <2>2. /\ known' \in BOOLEAN /\ configured' \in BOOLEAN
        /\ session' \in Accounts \cup {"none"} /\ auth' \in Accounts \cup {"none"}
        /\ (me \in [phase : {"none", "asked", "served"}, user : Accounts \cup {"none"}])'
    BY <1>1, <1>2, FlowFacts DEF FlowTypes
  <2> QED BY <1>1, <1>5, <2>1, <2>2, FlowTyped
<1>8. FlowBook'
  <2>1. mount' \in Nat /\ mount' >= mount /\ (mount' = mount => path' = path) /\ (captcha' = captcha \/ captcha' = 0)
    BY <1>5, FlowFacts DEF Flows!formVars
  <2>2. x.phase = "sent" <=> x.answer = "none"
    BY <1>3
  <2> QED BY <1>1, <1>2, <1>3, <2>1, <2>2, FlowFacts, FlowBookServed
<1>9. FlowGates'
  BY <1>1, <1>2, <1>5, FlowFacts DEF FlowGates, Flows!formVars
<1>10. FlowBusy'
  <2>1. CASE path' = path /\ mount' = mount /\ UNCHANGED Flows!formVars
    <3>1. \A q \in Flows!Pending : Flows!Mounted(q)' <=> Flows!Mounted(q)
      BY <2>1 DEF Flows!Mounted
    <3>2. Flows!Mounted(x)' <=> Flows!Mounted(r)
      BY <1>3, <2>1 DEF Flows!Mounted
    <3>3. UNCHANGED <<submitting, passkey>>
      BY <2>1 DEF Flows!formVars
    <3>4. FlowBusy
      BY FlowFacts
    <3>5. \A q, p \in Flows!Pending' : Flows!Mounted(q)' /\ Flows!Mounted(p)' /\ (q.kind = "passkey" <=> p.kind = "passkey") => q = p
      BY <1>2, <1>3, <1>4, <3>1, <3>2, <3>4 DEF FlowBusy
    <3>6. (\E q \in Flows!Pending' : Flows!Mounted(q)' /\ q.kind # "passkey") <=> \E q \in Flows!Pending : Flows!Mounted(q) /\ q.kind # "passkey"
      BY <1>2, <1>3, <1>4, <3>1, <3>2
    <3>7. (\E q \in Flows!Pending' : Flows!Mounted(q)' /\ q.kind = "passkey") <=> \E q \in Flows!Pending : Flows!Mounted(q) /\ q.kind = "passkey"
      BY <1>2, <1>3, <1>4, <3>1, <3>2
    <3> QED BY <3>3, <3>4, <3>5, <3>6, <3>7 DEF FlowBusy, Flows!BusyIsTrue
  <2>2. CASE ~(path' = path /\ mount' = mount /\ UNCHANGED Flows!formVars)
    <3>1. Flows!Leave
      BY <1>1, <2>2
    <3>2. \A q \in Flows!Pending' : \E p \in reqs : q.mount = p.mount
      BY <1>2, <1>3, <1>4 DEF Flows!Pending
    <3> QED BY <1>1, <1>2, <3>1, <3>2, FlowLeaves
  <2> QED BY <2>1, <2>2
<1>11. FlowAlone'
  <2> SUFFICES ASSUME ~overlap' PROVE FlowAlone!2'
    BY DEF FlowAlone
  <2>1. FlowAlone!2
    BY <1>1, FlowFacts DEF FlowAlone
  <2>2. Flows!Mounted(r) /\ Flows!Pending' = {x} /\ codes = "none"
    BY <1>1, <1>2, <1>4, <2>1
  <2>3. me'.phase = "none" /\ codes' = "none"
    BY <1>1, <1>5, <2>2, FlowFacts DEF Flows!Mounted, FlowGates, Flows!formVars
  <2>4. \A a \in enrolled' : a \in (seen \cup unshown)'
    <3> SUFFICES ASSUME NEW a \in enrolled, a \notin seen \cup unshown PROVE FALSE
      BY <1>1
    <3>1. a # "none"
      BY FlowFacts DEF FlowTypes
    <3>2. PICK q \in Flows!Pending : q.account = a /\ q.answer = "codes"
      BY <2>1, <2>2, <3>1
    <3>3. q = r
      BY <1>2, <2>1
    <3> QED BY <1>1, <3>2, <3>3
  <2>5. Flows!AuthIsSession'
    BY <1>1 DEF Flows!AuthIsSession
  <2> QED BY <1>3, <2>2, <2>3, <2>4, <2>5
<1>12. FlowCaptcha'
  BY <1>2 DEF FlowCaptcha
<1> QED BY <1>6, <1>7, <1>8, <1>9, <1>10, <1>11, <1>12 DEF FlowInv

(* The codes are confirmed.                                                *)
LEMMA FlowConfirms == ASSUME Flows!ConstantsOK, FlowInv, Flows!ContinueAfterRecoveryCodes PROVE FlowInv'
<1>1. /\ UNCHANGED <<configured, mfa, tokens, spent, session, me, reqs, issued, enrolled, overlap, unloaded, unshown, strayed>>
      /\ path = "login" /\ codes # "none" /\ auth' = codes /\ known' = TRUE
      /\ seen' = seen \cup {codes} /\ Flows!Leave
  BY DEF Flows!ContinueAfterRecoveryCodes, Flows!server, Flows!losses
<1>2. auth' \in Accounts \cup {"none"} /\ auth' # "none"
  BY <1>1, FlowFacts DEF FlowTypes
<1>3. Flows!Pending' = Flows!Pending /\ \A q \in Flows!Pending' : \E p \in reqs : q.mount = p.mount
  BY <1>1 DEF Flows!Pending
<1>4. /\ path' = "app" /\ mount' = mount + 1 /\ challenge' = Flows!NoChallenge
      /\ captcha' = 0 /\ codes' = "none"
      /\ submitting' = FALSE /\ passkey' = FALSE /\ username' = username /\ FlowBusy'
  BY <1>1, <1>2, <1>3, FlowLeaves
<1>5. FlowFlags' /\ FlowGates'
  BY <1>1, <1>2, <1>4, FlowFacts DEF FlowFlags, FlowGates
<1>6. FlowTypes'
  <2>1. captcha' \in 0 .. issued' /\ issued' \in issued .. MaxRequests /\ mount' \in Nat /\ configured' \in BOOLEAN
        /\ session' \in Accounts \cup {"none"}
        /\ (me \in [phase : {"none", "asked", "served"}, user : Accounts \cup {"none"}])'
    BY <1>1, <1>4, FlowFacts DEF FlowTypes
  <2> QED BY <1>1, <1>2, <1>4, <2>1, FlowTyped
<1>7. FlowBook'
  BY <1>1, <1>4, FlowFacts, FlowBookLess
<1>8. FlowAlone'
  <2> SUFFICES ASSUME ~overlap' PROVE FlowAlone!2'
    BY DEF FlowAlone
  <2>1. FlowAlone!2 /\ me.phase = "none"
    BY <1>1, FlowFacts DEF FlowAlone, FlowGates
  <2>2. Flows!Pending' = {} /\ session' = auth'
    BY <1>1, <1>3, <2>1
  <2>3. \A a \in enrolled' : a \in (seen \cup unshown)'
    BY <1>1, <1>3, <2>1, <2>2
  <2>4. Flows!AuthIsSession'
    BY <2>2 DEF Flows!AuthIsSession
  <2> QED BY <1>1, <1>4, <2>1, <2>2, <2>3, <2>4
<1>9. FlowCaptcha'
  BY <1>2 DEF FlowCaptcha
<1> QED BY <1>4, <1>5, <1>6, <1>7, <1>8, <1>9 DEF FlowInv

(* The counts of the page are the ones the library's theorems are about.   *)
LEMMA FlowCounts == \A S : Flows!Cardinality(S) = Cardinality(S)
BY DEF Cardinality, Flows!Cardinality

(* A sign-in that has ended lets the page go, and a page that stays asks   *)
(* for a captcha.                                                          *)
LEMMA FlowFinishes == ASSUME Flows!ConstantsOK, FlowInv, NEW r \in reqs, Flows!FinishSignIn(r) PROVE FlowInv'
<1>0. PICK x : x = [Flows!Asked(issued + 1) EXCEPT !.mount = mount + 1]
  OBVIOUS
<1>1. /\ UNCHANGED <<configured, mfa, tokens, spent, session, auth, me, enrolled, seen, overlap, unloaded, unshown, strayed>>
      /\ r.phase = "refresh" /\ known' = configured
      /\ IF path = "login" THEN Flows!Leave ELSE UNCHANGED <<path, mount, Flows!formVars>>
  BY DEF Flows!FinishSignIn, Flows!server, Flows!history, Flows!losses
<1>2. r \in Flows!Pending /\ r.kind # "captcha" /\ r.answer = "user" /\ auth' \in Accounts \cup {"none"} /\ configured \in BOOLEAN
  BY <1>1, FlowKinds, FlowFacts DEF FlowTypes
<1>3. \/ /\ reqs' = reqs \ {r} /\ issued' = issued /\ ~(Captcha /\ path = "login" /\ path' = "login")
      \/ /\ reqs' = (reqs \ {r}) \cup {x} /\ issued' = issued + 1 /\ issued < MaxRequests
         /\ Captcha /\ path = "login" /\ path' = "login"
  <2>1. CASE Captcha /\ path = "login" /\ path' = "login"
    <3>1. issued < MaxRequests /\ reqs' = (reqs \ {r}) \cup {x} /\ issued' = issued + Cardinality({x})
      BY <1>0, <2>1, FlowCounts DEF Flows!FinishSignIn
    <3>2. Cardinality({x}) = 1
      BY FS_Singleton
    <3> QED BY <2>1, <3>1, <3>2
  <2>2. CASE ~(Captcha /\ path = "login" /\ path' = "login")
    <3>1. reqs' = (reqs \ {r}) \cup {} /\ issued' = issued + Cardinality({})
      BY <2>2, FlowCounts DEF Flows!FinishSignIn
    <3>2. Cardinality({}) = 0
      BY FS_EmptySet
    <3> QED BY <2>2, <3>1, <3>2, FlowFacts
  <2> QED BY <2>1, <2>2
<1>4. issued < MaxRequests => /\ x \in FlowRequests /\ x.n = issued + 1 /\ x.kind = "captcha" /\ x.captcha = 0
                              /\ x.phase = "sent" /\ x.answer = "none" /\ x.mount = mount + 1
  <2>1. mount + 1 \in Nat /\ (issued < MaxRequests => issued + 1 \in 1 .. MaxRequests) /\ 0 \in 0 .. MaxRequests
    BY FlowFacts
  <2> QED BY <1>0, <2>1 DEF Flows!Asked, FlowRequests, Flows!Kinds
<1>5. Flows!Pending' = Flows!Pending \ {r}
  BY <1>2, <1>3, <1>4 DEF Flows!Pending, Flows!SignIns
<1>6. /\ path' \in {"login", "app"} /\ username' = username /\ FlowBusy'
      /\ submitting' \in BOOLEAN /\ passkey' \in BOOLEAN
      /\ \/ path = "app" /\ path' = path /\ mount' = mount /\ UNCHANGED Flows!formVars
         \/ /\ path = "login" /\ (path' = "app" <=> auth' # "none") /\ mount' = mount + 1 /\ challenge' = Flows!NoChallenge
            /\ captcha' = 0 /\ codes' = "none"
  <2>1. CASE path = "login"
    <3>1. \A q \in Flows!Pending' : \E p \in reqs : q.mount = p.mount
      BY <1>5 DEF Flows!Pending
    <3> QED BY <1>1, <1>2, <2>1, <3>1, FlowLeaves
  <2>2. CASE path = "app"
    <3>1. UNCHANGED Flows!formVars /\ UNCHANGED <<path, mount>>
      BY <1>1, <2>2
    <3>2. \A q \in Flows!Pending : ~Flows!Mounted(q) /\ ~Flows!Mounted(q)'
      BY <2>2, <3>1 DEF Flows!Mounted
    <3>3. FlowBusy'
      BY <1>5, <3>1, <3>2, FlowFacts DEF FlowBusy, Flows!BusyIsTrue, Flows!formVars
    <3> QED BY <2>2, <3>1, <3>3, FlowFacts DEF FlowFlags, Flows!formVars
  <2> QED BY <2>1, <2>2, FlowFacts
<1>7. FlowFlags'
  BY <1>1, <1>6, FlowFacts DEF FlowFlags
<1>8. FlowTypes'
  <2>1. /\ captcha' \in 0 .. issued' /\ issued' \in issued .. MaxRequests
        /\ codes' \in Accounts \cup {"none"}
        /\ challenge' \in {challenge, Flows!NoChallenge} /\ mount' \in Nat
    BY <1>3, <1>6, FlowFacts DEF FlowTypes, Flows!formVars
  <2>2. /\ known' \in BOOLEAN /\ configured' \in BOOLEAN /\ session' \in Accounts \cup {"none"}
        /\ (me \in [phase : {"none", "asked", "served"}, user : Accounts \cup {"none"}])'
    BY <1>1, <1>2, FlowFacts DEF FlowTypes
  <2> QED BY <1>1, <1>2, <1>6, <2>1, <2>2, FlowTyped
<1>9. FlowBook'
  <2>1. mount' \in Nat /\ mount' >= mount /\ (mount' = mount => path' = path) /\ captcha' \in {captcha, 0}
    BY <1>6, FlowFacts DEF Flows!formVars
  <2>2. CASE reqs' = reqs \ {r} /\ issued' = issued
    BY <1>1, <2>1, <2>2, FlowFacts, FlowBookLess
  <2>3. CASE reqs' = (reqs \ {r}) \cup {x} /\ issued' = issued + 1 /\ issued < MaxRequests /\ path = "login" /\ path' = "login"
    <3>1. mount' = mount + 1 /\ reqs' \subseteq reqs \cup {x}
      BY <1>6, <2>3
    <3> QED BY <1>1, <1>4, <2>1, <2>3, <3>1, FlowFacts, FlowBookMore
  <2> QED BY <1>3, <2>2, <2>3
<1>10. FlowGates'
  BY <1>1, <1>6, FlowFacts DEF FlowGates, Flows!formVars
<1>11. FlowAlone'
  <2> SUFFICES ASSUME ~overlap' PROVE FlowAlone!2'
    BY DEF FlowAlone
  <2>1. FlowAlone!2
    BY <1>1, FlowFacts DEF FlowAlone
  <2>2. Flows!Pending' = {} /\ codes = "none"
    BY <1>2, <1>5, <2>1
  <2>3. codes' = "none"
    BY <1>6, <2>2 DEF Flows!formVars
  <2>4. \A a \in enrolled' : a \in (seen \cup unshown)'
    <3> SUFFICES ASSUME NEW a \in enrolled, a \notin seen \cup unshown PROVE FALSE
      BY <1>1
    <3>1. a # "none"
      BY FlowFacts DEF FlowTypes
    <3>2. PICK q \in Flows!Pending : q.account = a /\ q.answer = "codes"
      BY <2>1, <2>2, <3>1
    <3>3. q = r
      BY <1>2, <2>1
    <3> QED BY <1>2, <3>2, <3>3
  <2>5. Flows!AuthIsSession'
    BY <1>1, <2>1, <2>2 DEF Flows!AuthIsSession
  <2> QED BY <1>1, <2>1, <2>2, <2>3, <2>4, <2>5
<1>12. FlowCaptcha'
  <2>1. CASE path' = "app"
    BY <2>1 DEF FlowCaptcha, Flows!Form
  <2>2. CASE path' = "login" /\ Captcha
    <3>1. x \in reqs' /\ x.kind = "captcha" /\ x.mount = mount'
      BY <1>3, <1>4, <1>6, <2>2
    <3>2. FlowWaits'
      BY <2>2, <3>1 DEF FlowWaits, Flows!Mounted
    <3> QED BY <3>2 DEF FlowCaptcha
  <2>3. CASE ~Captcha
    BY <2>3 DEF FlowCaptcha
  <2> QED BY <1>6, <2>1, <2>2, <2>3
<1> QED BY <1>6, <1>7, <1>8, <1>9, <1>10, <1>11, <1>12 DEF FlowInv

(* A sign-in that failed leaves the form, with another captcha.            *)
LEMMA FlowFails == ASSUME Flows!ConstantsOK, FlowInv, NEW r \in reqs, Flows!Failed(r) PROVE FlowInv'
<1>0. PICK x : x = Flows!Asked(issued + 1)
  OBVIOUS
<1>1. /\ UNCHANGED <<configured, mfa, tokens, spent, session, known, auth, me, path, mount, username, challenge, captcha, codes,
                     enrolled, seen, overlap, unloaded, unshown, strayed>>
      /\ r.kind \in Flows!SignIns /\ r.answer = "failed" /\ Flows!Idle(r)
  BY DEF Flows!Failed, Flows!server, Flows!app, Flows!history, Flows!losses
<1>2. r \in Flows!Pending
  BY <1>1 DEF Flows!Pending
<1>3. \/ /\ reqs' = reqs \ {r} /\ issued' = issued /\ ~(r.kind = "login" /\ Captcha /\ Flows!Mounted(r))
      \/ /\ reqs' = (reqs \ {r}) \cup {x} /\ issued' = issued + 1 /\ issued < MaxRequests
         /\ r.kind = "login" /\ Captcha /\ Flows!Mounted(r)
  <2>1. CASE r.kind = "login" /\ Captcha /\ Flows!Mounted(r)
    <3>1. issued < MaxRequests /\ reqs' = (reqs \ {r}) \cup {x} /\ issued' = issued + Cardinality({x})
      BY <1>0, <2>1, FlowCounts DEF Flows!Failed, Flows!AfterFailure
    <3>2. Cardinality({x}) = 1
      BY FS_Singleton
    <3> QED BY <2>1, <3>1, <3>2
  <2>2. CASE ~(r.kind = "login" /\ Captcha /\ Flows!Mounted(r))
    <3>1. reqs' = (reqs \ {r}) \cup {} /\ issued' = issued + Cardinality({})
      BY <2>2, FlowCounts DEF Flows!Failed, Flows!AfterFailure
    <3>2. Cardinality({}) = 0
      BY FS_EmptySet
    <3> QED BY <2>2, <3>1, <3>2, FlowFacts
  <2> QED BY <2>1, <2>2
<1>4. issued < MaxRequests => /\ x \in FlowRequests /\ x.n = issued + 1 /\ x.kind = "captcha" /\ x.captcha = 0
                              /\ x.phase = "sent" /\ x.answer = "none" /\ x.mount = mount
  BY <1>0, FlowFacts, FlowAsked
<1>5. Flows!Pending' = Flows!Pending \ {r}
  BY <1>3, <1>4 DEF Flows!Pending, Flows!SignIns
<1>6. FlowBusy' /\ FlowAlone' /\ submitting' \in BOOLEAN /\ passkey' \in BOOLEAN
  BY <1>1, <1>2, <1>5, FlowEnded, FlowQuits
<1>7. FlowFlags' /\ FlowGates'
  BY <1>1, <1>6, FlowFacts DEF FlowFlags, FlowGates
<1>8. FlowTypes'
  <2>1. captcha' \in 0 .. issued' /\ issued' \in issued .. MaxRequests
    BY <1>1, <1>3, FlowFacts
  <2> QED BY <1>1, <2>1, FlowFacts DEF FlowTypes
<1>9. FlowBook'
  <2>1. CASE reqs' = reqs \ {r} /\ issued' = issued
    BY <1>1, <2>1, FlowFacts, FlowBookLess
  <2>2. CASE reqs' = (reqs \ {r}) \cup {x} /\ issued' = issued + 1 /\ issued < MaxRequests /\ Flows!Mounted(r)
    <3>1. path' = "login" /\ reqs' \subseteq reqs \cup {x}
      BY <1>1, <2>2 DEF Flows!Mounted
    <3> QED BY <1>1, <1>4, <2>2, <3>1, FlowFacts, FlowBookMore
  <2> QED BY <1>3, <2>1, <2>2
<1>10. FlowCaptcha'
  <2>1. CASE ~(r.kind = "login" /\ Captcha /\ Flows!Mounted(r))
    <3>1. reqs' = reqs \ {r}
      BY <1>3, <2>1
    <3>2. Captcha /\ FlowWaits => FlowWaits'
      BY <1>1, <2>1, <3>1 DEF FlowWaits, Flows!Mounted, Flows!SignIns
    <3>3. FlowUsable => FlowUsable'
      BY <1>1, <3>1 DEF FlowUsable
    <3> QED BY <1>1, <3>2, <3>3, FlowFacts DEF FlowCaptcha, Flows!Form
  <2>2. CASE r.kind = "login" /\ Captcha /\ Flows!Mounted(r)
    <3>1. x \in reqs' /\ x.kind = "captcha" /\ Flows!Mounted(x)'
      BY <1>1, <1>3, <1>4, <2>2 DEF Flows!Mounted
    <3>2. FlowWaits'
      BY <3>1 DEF FlowWaits
    <3> QED BY <3>2 DEF FlowCaptcha
  <2> QED BY <2>1, <2>2
<1> QED BY <1>6, <1>7, <1>8, <1>9, <1>10 DEF FlowInv

(* An answer is lost: to its flow that is a failure, and an account whose  *)
(* codes were in it misses them.                                           *)
LEMMA FlowLoses == ASSUME Flows!ConstantsOK, FlowInv, NEW r \in reqs, Flows!LoseAnswer(r) PROVE FlowInv'
<1>0. PICK x : x = [r EXCEPT !.phase = "served", !.answer = "failed", !.token = r.token]
  OBVIOUS
<1>1. /\ UNCHANGED <<configured, mfa, tokens, spent, known, auth, me, path, mount, username, challenge, captcha, codes, submitting, passkey,
                     issued, enrolled, seen, overlap, unloaded>>
      /\ r.kind # "captcha" /\ r.phase = "served" /\ reqs' = (reqs \ {r}) \cup {x}
      /\ (session' = session /\ strayed' = strayed) \/ (session' = r.account /\ strayed' = r.account)
      /\ unshown' = IF r.answer = "codes" THEN unshown \cup {r.account} ELSE unshown
  BY <1>0, FlowKinds DEF Flows!LoseAnswer, Flows!Respond, Flows!server, Flows!formVars,
    Flows!SignIns, Flows!Pending
<1>2. r \in Flows!Pending /\ r.account \in Accounts /\ r \in FlowRequests
  BY <1>1, FlowKinds
<1>3. /\ x \in FlowRequests /\ x.n = r.n /\ x.kind = r.kind /\ x.account = r.account
      /\ x.captcha = r.captcha /\ x.mount = r.mount
      /\ x.phase = "served" /\ x.answer = "failed"
  BY <1>0, <1>2 DEF FlowRequests
<1>4. Flows!Pending' = (Flows!Pending \ {r}) \cup {x}
  BY <1>1, <1>2, <1>3 DEF Flows!Pending
<1>5. FlowFlags' /\ FlowGates'
  BY <1>1, FlowFacts DEF FlowFlags, FlowGates
<1>6. FlowTypes'
  BY <1>1, <1>2, FlowFacts DEF FlowTypes
<1>7. FlowBook'
  <2>1. x.phase = "sent" <=> x.answer = "none"
    BY <1>3
  <2> QED BY <1>1, <1>3, <2>1, FlowFacts, FlowBookServed
<1>8. FlowBusy'
  <2>1. (\A q \in Flows!Pending : Flows!Mounted(q)' <=> Flows!Mounted(q)) /\ (Flows!Mounted(x)' <=> Flows!Mounted(r))
    BY <1>1, <1>3 DEF Flows!Mounted
  <2>2. \A q, p \in Flows!Pending' : Flows!Mounted(q)' /\ Flows!Mounted(p)' /\ (q.kind = "passkey" <=> p.kind = "passkey") => q = p
    BY <1>2, <1>3, <1>4, <2>1, FlowFacts DEF FlowBusy
  <2>3. (\E q \in Flows!Pending' : Flows!Mounted(q)' /\ q.kind # "passkey") <=> \E q \in Flows!Pending : Flows!Mounted(q) /\ q.kind # "passkey"
    BY <1>2, <1>3, <1>4, <2>1
  <2>4. (\E q \in Flows!Pending' : Flows!Mounted(q)' /\ q.kind = "passkey") <=> \E q \in Flows!Pending : Flows!Mounted(q) /\ q.kind = "passkey"
    BY <1>2, <1>3, <1>4, <2>1
  <2> QED BY <1>1, <2>2, <2>3, <2>4, FlowFacts DEF FlowBusy, Flows!BusyIsTrue
<1>9. FlowAlone'
  <2> SUFFICES ASSUME ~overlap' PROVE FlowAlone!2'
    BY DEF FlowAlone
  <2>1. FlowAlone!2
    BY <1>1, FlowFacts DEF FlowAlone
  <2>2. Flows!Mounted(r) /\ Flows!Pending' = {x} /\ codes = "none" /\ me.phase = "none"
    BY <1>1, <1>2, <1>4, <2>1, FlowFacts DEF Flows!Mounted, FlowGates
  <2>3. Flows!Mounted(x)'
    BY <1>1, <1>3, <2>2 DEF Flows!Mounted
  <2>4. \A a \in enrolled' : a \in (seen \cup unshown)'
    <3> SUFFICES ASSUME NEW a \in enrolled, a \notin seen \cup unshown PROVE a \in unshown'
      BY <1>1
    <3>1. a # "none"
      BY FlowFacts DEF FlowTypes
    <3>2. PICK q \in Flows!Pending : q.account = a /\ q.answer = "codes"
      BY <2>1, <2>2, <3>1
    <3>3. q = r
      BY <1>2, <2>1
    <3> QED BY <1>1, <3>2, <3>3
  <2>5. Flows!AuthIsSession'
    BY <1>1, <2>1 DEF Flows!AuthIsSession
  <2> QED BY <1>1, <2>2, <2>3, <2>4, <2>5
<1>10. FlowCaptcha'
  <2>1. FlowWaits => FlowWaits'
    BY <1>1, <1>3 DEF FlowWaits, Flows!Mounted
  <2>2. FlowUsable => FlowUsable'
    BY <1>1, <1>3 DEF FlowUsable
  <2> QED BY <1>1, <2>1, <2>2, FlowFacts DEF FlowCaptcha, Flows!Form
<1> QED BY <1>5, <1>6, <1>7, <1>8, <1>9, <1>10 DEF FlowInv

(* The page is loaded again: no request is left, the user is the session's *)
(* and codes that were due are missed.                                     *)
LEMMA FlowReloads == ASSUME Flows!ConstantsOK, FlowInv, Flows!Reload PROVE FlowInv'
<1>0. PICK x : x = Flows!Asked(issued + 1)
  OBVIOUS
<1>1. /\ UNCHANGED <<configured, mfa, tokens, spent, mount, username, enrolled, seen, overlap, unloaded, strayed>>
      /\ issued < MaxRequests /\ issued' = issued + 1 /\ auth' = session'
      /\ me' = Flows!NoMe /\ known' = configured
      /\ path' = (IF auth' = "none" \/ (Reauth /\ path = "login") THEN "login" ELSE "app")
      /\ challenge' = Flows!NoChallenge /\ captcha' = 0 /\ codes' = "none"
      /\ submitting' = FALSE /\ passkey' = FALSE
      /\ reqs' = IF Captcha /\ configured /\ path' = "login" THEN {x} ELSE {}
      /\ unshown' = unshown \cup ({codes} \ {"none"}) \cup {r.account : r \in {q \in reqs : q.answer = "codes"}}
  BY <1>0 DEF Flows!Reload, Flows!server
<1>2. session' \in Accounts \cup {"none"}
  <2>1. CASE session' = session
    BY <2>1, FlowFacts DEF FlowTypes
  <2>2. ASSUME NEW r \in reqs, r.answer \in {"user", "codes"},
               session' = r.account PROVE session' \in Accounts
    BY <2>2, FlowKinds
  <2> QED BY <2>1, <2>2 DEF Flows!Reload
<1>3. /\ x \in FlowRequests /\ x.n = issued + 1 /\ x.kind = "captcha" /\ x.captcha = 0
      /\ x.phase = "sent" /\ x.answer = "none" /\ x.mount = mount
  <2>1. mount \in Nat /\ issued + 1 \in 1 .. MaxRequests /\ 0 \in 0 .. MaxRequests
    BY <1>1, FlowFacts
  <2> QED BY <1>0, <2>1 DEF Flows!Asked, FlowRequests, Flows!Kinds
<1>4. Flows!Pending' = {}
  BY <1>1, <1>3 DEF Flows!Pending, Flows!SignIns
<1>5. FlowFlags' /\ FlowGates' /\ FlowBusy'
  <2>1. FlowFlags'
    BY <1>1, FlowFacts DEF FlowFlags
  <2>2. FlowGates'
    BY <1>1 DEF FlowGates, Flows!NoMe
  <2>3. FlowBusy'
    BY <1>1, <1>4 DEF FlowBusy, Flows!BusyIsTrue
  <2> QED BY <2>1, <2>2, <2>3
<1>6. FlowTypes'
  <2>1. /\ captcha' \in 0 .. issued' /\ issued' \in issued .. MaxRequests /\ mount' \in Nat
        /\ path' \in {"login", "app"}
    BY <1>1, FlowFacts
  <2>2. me' \in [phase : {"none", "asked", "served"}, user : Accounts \cup {"none"}]
    BY <1>1 DEF Flows!NoMe
  <2>3. known' \in BOOLEAN /\ configured' \in BOOLEAN /\ codes' \in Accounts \cup {"none"}
    BY <1>1, FlowFacts DEF FlowTypes
  <2> QED BY <1>1, <1>2, <2>1, <2>2, <2>3, FlowTyped
<1>7. FlowBook'
  <2>1. mount' \in Nat /\ mount' >= mount /\ captcha' \in {captcha, 0}
    BY <1>1, FlowFacts
  <2>2. CASE reqs' = {}
    BY <2>2 DEF FlowBook
  <2>3. CASE reqs' = {x} /\ path' = "login"
    BY <1>1, <1>3, <2>1, <2>3, FlowFacts, FlowBookMore
  <2> QED BY <1>1, <2>2, <2>3
<1>8. FlowAlone'
  <2> SUFFICES ASSUME ~overlap' PROVE FlowAlone!2'
    BY DEF FlowAlone
  <2>1. FlowAlone!2
    BY <1>1, FlowFacts DEF FlowAlone
  <2>2. \A a \in enrolled' : a \in (seen \cup unshown)'
    <3> SUFFICES ASSUME NEW a \in enrolled, a \notin seen \cup unshown PROVE a \in unshown'
      BY <1>1
    <3>1. a # "none"
      BY FlowFacts DEF FlowTypes
    <3>2. CASE codes = a
      BY <1>1, <3>1, <3>2
    <3>3. CASE \E r \in Flows!Pending : r.account = a /\ r.answer = "codes"
      BY <1>1, <3>3 DEF Flows!Pending
    <3> QED BY <2>1, <3>2, <3>3
  <2>3. Flows!AuthIsSession'
    BY <1>1 DEF Flows!AuthIsSession
  <2> QED BY <1>1, <1>4, <2>2, <2>3 DEF Flows!NoMe
<1>9. FlowCaptcha'
  <2> SUFFICES ASSUME Captcha, known', Flows!Form' PROVE FlowWaits'
    BY DEF FlowCaptcha
  <2>1. path' = "login" /\ reqs' = {x}
    BY <1>1 DEF Flows!Form
  <2> QED BY <1>1, <1>3, <2>1 DEF FlowWaits, Flows!Mounted
<1> QED BY <1>5, <1>6, <1>7, <1>8, <1>9 DEF FlowInv

(* The console signs out and asks for the user.                            *)
LEMMA FlowAsksForUser ==
  ASSUME Flows!ConstantsOK, FlowInv,
         Flows!ServeMe \/ Flows!OtherSetup \/ \E ok \in BOOLEAN : Flows!Logout(ok)
  PROVE  FlowInv'
<1>1. /\ UNCHANGED <<mfa, tokens, spent, known, path, mount, username, challenge, captcha, codes, submitting, passkey, reqs,
                     enrolled, seen, overlap, unloaded, unshown, strayed>>
      /\ configured' \in BOOLEAN /\ issued' \in issued .. MaxRequests
      /\ session' \in {session, "none"} /\ auth' \in {auth, "none"}
  <2>1. configured \in BOOLEAN /\ issued \in Nat /\ MaxRequests \in Nat /\ issued <= MaxRequests
    BY FlowFacts DEF FlowTypes
  <2>2. CASE Flows!ServeMe \/ Flows!OtherSetup
    <3>1. issued' = issued /\ session' = session /\ auth' = auth /\ configured' \in BOOLEAN
      BY <2>1, <2>2 DEF Flows!ServeMe, Flows!OtherSetup, Flows!server, Flows!app
    <3>2. UNCHANGED <<mfa, tokens, spent, known, path, mount, username, challenge, captcha, codes, submitting, passkey, reqs,
                      enrolled, seen, overlap, unloaded, unshown, strayed>>
      BY <2>2 DEF Flows!ServeMe, Flows!OtherSetup, Flows!server, Flows!app, Flows!formVars,
        Flows!history, Flows!losses
    <3> QED BY <2>1, <3>1, <3>2
  <2>3. ASSUME NEW ok \in BOOLEAN, Flows!Logout(ok)
       PROVE  /\ UNCHANGED <<mfa, tokens, spent, known, path, mount, username, challenge, captcha, codes, submitting, passkey, reqs,
                            enrolled, seen, overlap, unloaded, unshown, strayed>>
              /\ configured' \in BOOLEAN /\ issued' \in issued .. MaxRequests
              /\ session' \in {session, "none"} /\ auth' \in {auth, "none"}
    <3>1. /\ issued < MaxRequests /\ issued' = issued + 1 /\ auth' = "none"
          /\ configured' = configured
          /\ session' = session \/ session' = "none"
      BY <2>3 DEF Flows!Logout, Flows!server
    <3>2. UNCHANGED <<mfa, tokens, spent, known, path, mount, username, challenge, captcha, codes, submitting, passkey, reqs,
                      enrolled, seen, overlap, unloaded, unshown, strayed>>
      BY <2>3 DEF Flows!Logout, Flows!server, Flows!formVars, Flows!history, Flows!losses
    <3> QED BY <2>1, <3>1, <3>2
  <2> QED BY <2>2, <2>3
<1>2. Flows!Pending' = Flows!Pending
  BY <1>1 DEF Flows!Pending
<1>3. me' \in [phase : {"none", "asked", "served"}, user : Accounts \cup {"none"}]
  BY FlowFacts DEF Flows!ServeMe, Flows!OtherSetup, Flows!Logout, Flows!app, FlowTypes
<1>4. FlowTypes' /\ FlowFlags'
  <2>1. captcha' \in 0 .. issued' /\ session' \in Accounts \cup {"none"} /\ auth' \in Accounts \cup {"none"}
    BY <1>1, FlowFacts DEF FlowTypes
  <2>2. FlowFlags'
    BY <1>1, FlowFacts DEF FlowFlags
  <2>3. known' \in BOOLEAN /\ codes' \in Accounts \cup {"none"} /\ path' \in {"login", "app"} /\ mount' \in Nat
    BY <1>1, FlowFacts DEF FlowTypes
  <2> QED BY <1>1, <1>3, <2>1, <2>2, <2>3, FlowTyped
<1>5. FlowBook'
  BY <1>1, FlowFacts, FlowBookLess
<1>6. FlowBusy'
  BY <1>1, <1>2, FlowFacts DEF FlowBusy, Flows!BusyIsTrue, Flows!Mounted
<1>7. /\ \/ me' = me /\ session' = session /\ auth' = auth
         \/ me.phase = "asked" /\ me' = [phase |-> "served", user |-> session] /\ session' = session /\ auth' = auth
         \/ path = "app" /\ auth # "none" /\ auth' = "none" /\ me' = [phase |-> "asked", user |-> "none"]
  BY DEF Flows!ServeMe, Flows!OtherSetup, Flows!Logout, Flows!app
<1>8. FlowGates'
  BY <1>1, <1>7, FlowFacts DEF FlowGates
<1>9. FlowAlone'
  <2> SUFFICES ASSUME ~overlap' PROVE FlowAlone!2'
    BY DEF FlowAlone
  <2>1. FlowAlone!2
    BY <1>1, FlowFacts DEF FlowAlone
  <2>2. \A q \in Flows!Pending' : q.phase = "refresh" \/ Flows!Mounted(q)'
    BY <1>1, <1>2, <2>1 DEF Flows!Mounted
  <2>3. codes' # "none" => Flows!Pending' = {} /\ session' = codes'
    BY <1>1, <1>2, <1>7, <2>1, FlowFacts DEF FlowGates
  <2>4. (me'.phase # "none" => auth' = "none") /\ (me'.phase = "served" => me'.user = session')
    BY <1>7, <2>1
  <2>5. Flows!AuthIsSession'
    BY <1>1, <1>7, <2>1 DEF Flows!AuthIsSession
  <2> QED BY <1>1, <1>2, <2>1, <2>2, <2>3, <2>4, <2>5
<1>10. FlowCaptcha'
  <2>1. (Captcha /\ known /\ Flows!Form /\ challenge = Flows!NoChallenge /\ ~unloaded /\ auth = "none")' => FlowWaits \/ FlowUsable
    BY <1>1, <1>7, FlowFacts DEF FlowCaptcha, Flows!Form
  <2>2. (FlowWaits => FlowWaits') /\ (FlowUsable => FlowUsable')
    BY <1>1 DEF FlowWaits, FlowUsable, Flows!Mounted
  <2> QED BY <2>1, <2>2 DEF FlowCaptcha
<1> QED BY <1>4, <1>5, <1>6, <1>8, <1>9, <1>10 DEF FlowInv

(* The user is known again, or the page goes back to sign in.              *)
LEMMA FlowMe == ASSUME Flows!ConstantsOK, FlowInv, Flows!MeLoaded PROVE FlowInv'
<1>0. PICK x : x = Flows!Asked(issued + 1)
  OBVIOUS
<1>1. /\ UNCHANGED <<configured, mfa, tokens, spent, session, known, mount, username, challenge, codes, submitting, passkey,
                     enrolled, seen, overlap, unloaded, unshown, strayed>>
      /\ me.phase = "served" /\ me' = Flows!NoMe
      /\ auth' = (IF me.user = "none" THEN auth ELSE me.user)
      /\ path' = (IF auth' = "none" THEN "login" ELSE path)
  BY DEF Flows!MeLoaded, Flows!Effect, Flows!server, Flows!formVars, Flows!history, Flows!losses
<1>2. path = "app" /\ codes = "none" /\ challenge = Flows!NoChallenge /\ me.user \in Accounts \cup {"none"} /\ auth \in Accounts \cup {"none"}
  BY <1>1, FlowFacts DEF FlowGates, FlowTypes
<1>3. path' = IF auth' = "none" THEN "login" ELSE "app"
  BY <1>1, <1>2
<1>4. \/ /\ path' = "login" /\ Captcha /\ known /\ issued < MaxRequests /\ issued' = issued + 1 /\ reqs' = reqs \cup {x} /\ captcha' = captcha
      \/ /\ path' = "app" \/ ~(Captcha /\ known)
         /\ captcha' \in {captcha, 0} /\ reqs' = reqs /\ issued' = issued
  BY <1>0, <1>1, <1>2 DEF Flows!MeLoaded, Flows!Effect, Flows!formVars
<1>5. issued < MaxRequests => /\ x \in FlowRequests /\ x.n = issued + 1 /\ x.kind = "captcha" /\ x.captcha = 0
                              /\ x.phase = "sent" /\ x.answer = "none" /\ x.mount = mount
  BY <1>0, FlowFacts, FlowAsked
<1>6. Flows!Pending' = Flows!Pending
  BY <1>4, <1>5 DEF Flows!Pending, Flows!SignIns
<1>7. FlowFlags'
  BY <1>1, FlowFacts DEF FlowFlags
<1>8. FlowTypes'
  <2>1. /\ captcha' \in 0 .. issued' /\ issued' \in issued .. MaxRequests
        /\ auth' \in Accounts \cup {"none"} /\ path' \in {"login", "app"}
    BY <1>1, <1>2, <1>3, <1>4, FlowFacts
  <2>2. me' \in [phase : {"none", "asked", "served"}, user : Accounts \cup {"none"}]
    BY <1>1 DEF Flows!NoMe
  <2>3. known' \in BOOLEAN /\ configured' \in BOOLEAN /\ session' \in Accounts \cup {"none"} /\ codes' \in Accounts \cup {"none"} /\ mount' \in Nat
    BY <1>1, FlowFacts DEF FlowTypes
  <2> QED BY <1>1, <2>1, <2>2, <2>3, FlowTyped
<1>9. FlowBook'
  <2>1. CASE path' = "login" /\ issued < MaxRequests /\ issued' = issued + 1 /\ reqs' = reqs \cup {x} /\ captcha' = captcha
    <3>1. mount' = mount /\ mount' \in Nat /\ mount' >= mount /\ captcha' \in {captcha, 0} /\ reqs' \subseteq reqs \cup {x} /\ x.mount = mount'
      BY <1>1, <1>5, <2>1, FlowFacts
    <3> QED BY <1>1, <1>5, <2>1, <3>1, FlowFacts, FlowBookMore
  <2>2. CASE captcha' \in {captcha, 0} /\ reqs' = reqs /\ issued' = issued
    <3>1. path' = path \/ path' = "login"
      BY <1>2, <1>3
    <3> QED BY <1>1, <2>2, <3>1, FlowFacts, FlowBookLess
  <2> QED BY <1>4, <2>1, <2>2
<1>10. FlowGates'
  BY <1>1, <1>2, <1>3 DEF FlowGates, Flows!NoMe
<1>11. \A q \in Flows!Pending : ~Flows!Mounted(q) /\ ~Flows!Mounted(q)'
  BY <1>1, <1>2, FlowFacts DEF Flows!Mounted, Flows!Pending
<1>12. FlowBusy'
  BY <1>1, <1>6, <1>11, FlowFacts DEF FlowBusy, Flows!BusyIsTrue
<1>13. FlowAlone'
  <2> SUFFICES ASSUME ~overlap' PROVE FlowAlone!2'
    BY DEF FlowAlone
  <2>1. FlowAlone!2
    BY <1>1, FlowFacts DEF FlowAlone
  <2>2. \A q \in Flows!Pending' : q.phase = "refresh"
    BY <1>6, <1>11, <2>1
  <2>3. auth' # "none" => auth' = session'
    BY <1>1, <2>1
  <2>4. me'.phase = "none" /\ codes' = "none"
    BY <1>1, <1>2 DEF Flows!NoMe
  <2>5. Flows!AuthIsSession'
    BY <2>3 DEF Flows!AuthIsSession
  <2> QED BY <1>1, <1>6, <2>1, <2>2, <2>4, <2>5
<1>14. FlowCaptcha'
  <2>1. CASE path' = "login" /\ Captcha /\ known
    <3>1. x \in reqs' /\ Flows!Mounted(x)' /\ x.kind = "captcha"
      BY <1>1, <1>3, <1>4, <1>5, <2>1 DEF Flows!Mounted
    <3>2. FlowWaits'
      BY <3>1 DEF FlowWaits
    <3> QED BY <3>2 DEF FlowCaptcha
  <2>2. CASE ~(path' = "login" /\ Captcha /\ known)
    BY <1>1, <2>2 DEF FlowCaptcha, Flows!Form
  <2> QED BY <2>1, <2>2
<1> QED BY <1>7, <1>8, <1>9, <1>10, <1>12, <1>13, <1>14 DEF FlowInv

-----------------------------------------------------------------------------
(* The page opens with its invariant.                                      *)
LEMMA FlowOpens == ASSUME Flows!ConstantsOK, Flows!Init PROVE FlowInv
<1>1. /\ path = "login" /\ mount = 0 /\ me = Flows!NoMe /\ challenge = Flows!NoChallenge
      /\ captcha = 0 /\ codes = "none" /\ spent = {} /\ tokens = {}
      /\ submitting = FALSE /\ passkey = FALSE /\ enrolled = {} /\ seen = {}
      /\ overlap = FALSE /\ unloaded = FALSE /\ unshown = {} /\ strayed = "none"
      /\ issued \in {0, 1} /\ MaxRequests \in Nat /\ MaxRequests >= 1
  BY DEF Flows!Init, Flows!ConstantsOK
<1>2. FlowTypes
  <2>1. /\ configured \in BOOLEAN /\ known \in BOOLEAN
        /\ mfa \in [Accounts -> {"off", "setup", "on"}] /\ username \in Accounts
        /\ session \in Accounts \cup {"none"} /\ auth = session
    BY DEF Flows!Init
  <2>2. me \in [phase : {"none", "asked", "served"}, user : Accounts \cup {"none"}]
    BY <1>1 DEF Flows!NoMe
  <2>3. challenge \in [account : Accounts \cup {"none"}, token : 0 .. MaxRequests, setup : BOOLEAN]
    BY <1>1 DEF Flows!NoChallenge
  <2> QED BY <1>1, <2>1, <2>2, <2>3 DEF FlowTypes
<1>3. \A r \in reqs : r = Flows!Asked(1) /\ issued = 1
  BY <1>1 DEF Flows!Init
<1>4. /\ Flows!Asked(1) \in FlowRequests /\ Flows!Asked(1).n = 1
      /\ Flows!Asked(1).kind = "captcha" /\ Flows!Asked(1).captcha = 0
      /\ Flows!Asked(1).phase = "sent"
      /\ Flows!Asked(1).answer = "none" /\ Flows!Asked(1).mount = 0
  BY <1>1 DEF Flows!Asked, FlowRequests, Flows!Kinds
<1>5. FlowBook
  <2>1. \A r \in reqs : FlowShape(r)
    BY <1>1, <1>3, <1>4 DEF FlowShape
  <2> QED BY <1>1, <1>3, <1>4, <2>1 DEF FlowBook
<1>6. Flows!Pending = {}
  BY <1>3, <1>4 DEF Flows!Pending, Flows!SignIns
<1>7. FlowFlags /\ FlowGates
  <2>1. Reauth \/ auth = "none"
    BY DEF Flows!Init
  <2> QED BY <1>1, <2>1 DEF FlowFlags, FlowGates, Flows!NoMe
<1>8. FlowBusy /\ FlowAlone
  <2>1. auth = session /\ me.phase = "none"
    BY <1>1 DEF Flows!Init, Flows!NoMe
  <2> QED BY <1>1, <1>6, <2>1 DEF FlowBusy, Flows!BusyIsTrue, FlowAlone, Flows!AuthIsSession
<1>9. FlowCaptcha
  <2> SUFFICES ASSUME Captcha, known PROVE FlowWaits
    BY DEF FlowCaptcha
  <2>1. issued = 1 /\ Flows!Asked(1) \in reqs
    BY DEF Flows!Init
  <2> QED BY <1>1, <1>4, <2>1 DEF FlowWaits, Flows!Mounted
<1> QED BY <1>2, <1>5, <1>7, <1>8, <1>9 DEF FlowInv

(* Every step of page, server and console keeps it.                        *)
LEMMA FlowKeeps == ASSUME Flows!ConstantsOK, FlowInv, [Flows!Next]_Flows!vars PROVE FlowInv'
<1>1. CASE UNCHANGED Flows!vars
  <2>1. UNCHANGED <<configured, mfa, tokens, spent, session, known, auth, me, path, mount, username, challenge, captcha, codes, submitting,
                    passkey, reqs, issued, enrolled, seen, overlap, unloaded, unshown, strayed>>
    BY <1>1 DEF Flows!vars, Flows!server, Flows!app, Flows!formVars, Flows!history, Flows!losses
  <2>2. Flows!Pending' = Flows!Pending
    BY <2>1 DEF Flows!Pending
  <2>3. FlowTypes' /\ FlowFlags'
    BY <2>1, FlowFacts DEF FlowTypes, FlowFlags
  <2>4. FlowBook'
    BY <2>1, FlowFacts, FlowBookLess
  <2>5. FlowGates' /\ FlowBusy' /\ FlowAlone'
    BY <2>1, <2>2, FlowQuiet
  <2>6. FlowCaptcha'
    BY <2>1, FlowFacts DEF FlowCaptcha, FlowWaits, FlowUsable, Flows!Form, Flows!Mounted
  <2> QED BY <2>3, <2>4, <2>5, <2>6 DEF FlowInv
<1>2. CASE Flows!Next
  BY <1>2, FlowSubmits, FlowTypings, FlowAsksForUser, FlowConfirms, FlowMe, FlowServes,
    FlowCaptchas, FlowChallenged, FlowCodes,
     FlowSigned, FlowFinishes, FlowFails, FlowLoses, FlowReloads DEF Flows!Next
<1> QED BY <1>1, <1>2

(* What the invariant says of the page.                                    *)
LEMMA FlowShows ==
  ASSUME Flows!ConstantsOK, FlowInv
  PROVE  Flows!TypeOK /\ Flows!AuthIsSession /\ Flows!CodesSeenInTurn /\ Flows!CaptchaUsable /\ Flows!BusyIsTrue
<1>1. Flows!AuthIsSession /\ Flows!BusyIsTrue
  BY FlowFacts DEF FlowAlone, Flows!AuthIsSession, FlowBusy
<1>2. Flows!TypeOK
  <2>1. \A r \in reqs : r.kind \in Flows!Kinds /\ r.account \in Accounts \cup {"none"}
    BY FlowFacts DEF FlowBook, FlowShape, FlowRequests
  <2>2. captcha \in 0 .. MaxRequests /\ spent \subseteq 0 .. MaxRequests
    BY FlowFacts
  <2>3. {session, auth, codes} \subseteq Accounts \cup {"none"}
    BY FlowFacts DEF FlowTypes
  <2> QED BY <2>1, <2>2, <2>3, FlowFacts DEF FlowTypes, Flows!TypeOK
<1>3. Flows!CodesSeenInTurn
  <2> SUFFICES ASSUME path = "app", auth \in enrolled, ~overlap PROVE auth \in seen \cup unshown
    BY DEF Flows!CodesSeenInTurn
  <2>1. FlowAlone!2 /\ codes = "none"
    BY FlowFacts DEF FlowAlone, FlowGates
  <2>2. auth # "none" /\ \A q \in Flows!Pending : ~Flows!Mounted(q)
    BY FlowFacts DEF FlowTypes, Flows!Mounted
  <2>3. \A q \in Flows!Pending : q.answer # "codes"
    BY <2>1, <2>2, FlowKinds DEF Flows!Pending
  <2> QED BY <2>1, <2>2, <2>3
<1>4. Flows!CaptchaUsable
  BY FlowFacts DEF FlowCaptcha, FlowWaits, FlowUsable, Flows!CaptchaUsable
<1> QED BY <1>1, <1>2, <1>3, <1>4

(* However password, second factor, passkey and sign-out requests and      *)
(* their answers follow each other (AuthPage, LoginGate, AppProvider), the *)
(* user on display is the session's and has confirmed the recovery codes,  *)
(* unless two sign-ins overlapped or the answer with the cookie or the     *)
(* codes was lost or left by loading the page again; the captcha can be    *)
(* used, and the buttons are disabled exactly while their flow runs.       *)
THEOREM SignInsAreTrue ==
  Flows!ConstantsOK /\ Flows!Spec => [](Flows!TypeOK /\ Flows!AuthIsSession /\ Flows!CodesSeenInTurn /\ Flows!CaptchaUsable /\ Flows!BusyIsTrue)
<1> SUFFICES ASSUME Flows!ConstantsOK PROVE Flows!Spec => [](Flows!TypeOK /\ Flows!AuthIsSession /\ Flows!CodesSeenInTurn /\ Flows!CaptchaUsable /\ Flows!BusyIsTrue)
  OBVIOUS
<1>1. Flows!Init => FlowInv
  BY FlowOpens
<1>2. FlowInv /\ [Flows!Next]_Flows!vars => FlowInv'
  BY FlowKeeps
<1>3. FlowInv => Flows!TypeOK /\ Flows!AuthIsSession /\ Flows!CodesSeenInTurn /\ Flows!CaptchaUsable /\ Flows!BusyIsTrue
  BY FlowShows
<1> QED BY <1>1, <1>2, <1>3, PTL DEF Flows!Spec

-----------------------------------------------------------------------------
(***************************************************************************)
(* What an account may do, for any role records, names, paths and pages.   *)
(* The server and the page decide separately, and agree because they read  *)
(* a pattern the same way (CutsAgree, PatternsAgree), match a path without *)
(* its last slashes (OneSlash), and write a role's name into the same form *)
(* (CanonicalStays, KindOfCopy). The invariant says that the copy on hand  *)
(* and the one on its way are ones the server answers, and that the page   *)
(* on display is one the copy on hand lets through (PermInv).              *)
(***************************************************************************)

(* Counting the smaller members of a finite set of numbers gives each of   *)
(* them a place, from 0 and without a gap.                                 *)
LEMMA TokenPlaces ==
  ASSUME NEW S, IsFiniteSet(S), S \subseteq Nat
  PROVE  LET place(r) == Cardinality({s \in S : s < r}) IN
         /\ Cardinality(S) \in Nat /\ (S # {} => Cardinality(S) > 0)
         /\ \A r \in S : place(r) \in 0 .. Cardinality(S) - 1
         /\ \A r, q \in S : r < q => place(r) < place(q)
         /\ \A n \in 0 .. Cardinality(S) - 1 : \E r \in S : place(r) = n
<1> DEFINE below(r) == {s \in S : s < r}
           place(r) == Cardinality(below(r))
<1>1. Cardinality(S) \in Nat /\ (S # {} => Cardinality(S) > 0)
  BY FS_CardinalityType, FS_EmptySet
<1>2. ASSUME NEW r \in S PROVE below(r) \subseteq S /\ below(r) \subseteq S \ {r} /\ IsFiniteSet(below(r)) /\ place(r) \in Nat
  <2>1. below(r) \subseteq S /\ below(r) \subseteq S \ {r}
    OBVIOUS
  <2> HIDE DEF below
  <2> QED BY <2>1, FS_Subset, FS_CardinalityType
<1>3. ASSUME NEW r \in S PROVE place(r) \in 0 .. Cardinality(S) - 1
  <2>1. IsFiniteSet(S \ {r}) /\ Cardinality(S \ {r}) = Cardinality(S) - 1
    BY FS_RemoveElement
  <2> HIDE DEF below
  <2>2. place(r) <= Cardinality(S) - 1
    BY <1>2, <2>1, FS_Subset
  <2> QED BY <1>1, <1>2, <2>2
<1>4. ASSUME NEW r \in S, NEW q \in S, r < q PROVE place(r) < place(q)
  <2>1. r \notin below(r) /\ below(r) \cup {r} \subseteq below(q)
    <3>1. r \in Nat /\ q \in Nat /\ \A x \in S : x \in Nat
      OBVIOUS
    <3>2. \A x \in S : x < r => x < q
      BY <1>4, <3>1
    <3>3. ~(r < r)
      BY <3>1
    <3> QED BY <1>4, <3>2, <3>3
  <2> HIDE DEF below
  <2>2. Cardinality(below(r) \cup {r}) = Cardinality(below(r)) + 1
    BY <1>2, <2>1, FS_AddElement
  <2>3. Cardinality(below(r) \cup {r}) <= Cardinality(below(q))
    BY <1>2, <2>1, FS_Subset
  <2> QED BY <1>2, <2>2, <2>3
<1>5. ASSUME NEW n \in 0 .. Cardinality(S) - 1 PROVE \E r \in S : place(r) = n
  <2> DEFINE T == 0 .. Cardinality(S) - 1
             f == [r \in S |-> place(r)]
  <2> HIDE DEF below
  <2>1. f \in [S -> T]
    BY <1>3
  <2>2. \A r, q \in S : f[r] = f[q] => r = q
    <3> SUFFICES ASSUME NEW r \in S, NEW q \in S, r # q PROVE place(r) # place(q)
      OBVIOUS
    <3>1. r < q \/ q < r
      OBVIOUS
    <3> QED BY <1>2, <1>4, <3>1
  <2>3. f \in Injection(S, T)
    BY <2>1, <2>2 DEF Injection, IsInjective
  <2>4. IsFiniteSet(T) /\ Cardinality(T) = Cardinality(S)
    <3>1. 0 \in Int /\ Cardinality(S) - 1 \in Int
      BY <1>1
    <3>2. IsFiniteSet(T) /\ Cardinality(T) = IF 0 > Cardinality(S) - 1 THEN 0 ELSE Cardinality(S) - 1 - 0 + 1
      BY <3>1, FS_Interval
    <3> QED BY <1>1, <3>2
  <2>5. f \in Surjection(S, T)
    BY <2>3, <2>4, FS_Injection
  <2> QED BY <2>5 DEF Surjection
<1> QED BY <1>1, <1>3, <1>4, <1>5

(* So it has a least and a greatest member.                                *)
LEMMA LeastAndGreatest ==
  ASSUME NEW S, IsFiniteSet(S), S \subseteq Nat, S # {}
  PROVE  (\E m \in S : \A i \in S : m <= i) /\ (\E m \in S : \A i \in S : i <= m)
<1> DEFINE place(r) == Cardinality({s \in S : s < r})
<1>1. /\ Cardinality(S) \in Nat /\ Cardinality(S) > 0
      /\ \A r \in S : place(r) \in 0 .. Cardinality(S) - 1
      /\ \A r, q \in S : r < q => place(r) < place(q)
      /\ \A n \in 0 .. Cardinality(S) - 1 : \E r \in S : place(r) = n
  BY TokenPlaces
<1> HIDE DEF place
<1>2. PICK m \in S : place(m) = 0
  BY <1>1
<1>3. PICK n \in S : place(n) = Cardinality(S) - 1
  BY <1>1
<1>4. \A i \in S : m <= i
  <2> SUFFICES ASSUME NEW i \in S, i < m PROVE FALSE
    OBVIOUS
  <2> QED BY <1>1, <1>2
<1>5. \A i \in S : i <= n
  <2> SUFFICES ASSUME NEW i \in S, n < i PROVE FALSE
    OBVIOUS
  <2> QED BY <1>1, <1>3
<1> QED BY <1>4, <1>5

-----------------------------------------------------------------------------
(* Trimming and patterns.                                                  *)
LEMMA Domains ==
  ASSUME NEW T, NEW s \in Seq(T)
  PROVE  DOMAIN s = 1 .. Len(s) /\ Len(s) \in Nat /\ IsFiniteSet(DOMAIN s)
<1>1. DOMAIN s = 1 .. Len(s) /\ Len(s) \in Nat
  OBVIOUS
<1>2. IsFiniteSet(1 .. Len(s))
  BY <1>1, FS_Interval
<1> QED BY <1>1, <1>2

LEMMA Trims ==
  ASSUME NEW T, NEW s \in Seq(T)
  PROVE  /\ Perms!TrimRight(s) \in Seq(T)
         /\ \A n \in 1 .. Len(s) : s[n] # "/" =>
              Len(Perms!TrimRight(s)) >= n /\ \A i \in 1 .. n : Perms!TrimRight(s)[i] = s[i]
<1> DEFINE ends == {i \in DOMAIN s : s[i] # "/"}
           last == IF ends = {} THEN 0 ELSE CHOOSE i \in ends : \A j \in ends : j <= i
<1>1. IsFiniteSet(ends) /\ ends \subseteq 1 .. Len(s) /\ ends \subseteq Nat /\ Len(s) \in Nat
  BY Domains, FS_Subset
<1>2. last \in 0 .. Len(s) /\ \A j \in ends : j <= last
  <2>1. CASE ends = {}
    BY <1>1, <2>1
  <2>2. CASE ends # {}
    <3>1. \E i \in ends : \A j \in ends : j <= i
      BY <1>1, <2>2, LeastAndGreatest
    <3>2. last \in ends /\ \A j \in ends : j <= last
      BY <2>2, <3>1
    <3> HIDE DEF last, ends
    <3> QED BY <1>1, <3>2
  <2> QED BY <2>1, <2>2
<1>3. Perms!TrimRight(s) = SubSeq(s, 1, last)
  BY DEF Perms!TrimRight
<1>4. \A n \in 1 .. Len(s) : s[n] # "/" => n \in ends
  BY Domains
<1> HIDE DEF last, ends
<1>5. SubSeq(s, 1, last) \in Seq(T) /\ Len(SubSeq(s, 1, last)) = last
  BY <1>1, <1>2
<1>6. \A i \in 1 .. last : SubSeq(s, 1, last)[i] = s[i]
  BY <1>1, <1>2
<1>7. ASSUME NEW n \in 1 .. Len(s),
             s[n] # "/" PROVE n <= last /\ \A i \in 1 .. n : SubSeq(s, 1, last)[i] = s[i]
  BY <1>1, <1>2, <1>4, <1>6, <1>7
<1> QED BY <1>3, <1>5, <1>7

(* A route of the page keeps its first word, and the page trims it as the   *)
(* server does.                                                            *)
LEMMA TrimmedPath ==
  ASSUME Perms!ConstantsOK, NEW p \in Paths
  PROVE  /\ Perms!TrimRight(p) \in Seq(STRING) /\ Len(Perms!TrimRight(p)) > 1
         /\ Perms!TrimRight(p)[2] # "/"
         /\ Perms!TrimRightSlash(p) = Perms!TrimRight(p)
<1>0. p \in Seq(STRING) /\ Len(p) > 1 /\ p[2] # "/"
  BY Zenon DEF Perms!ConstantsOK
<1>1. p \in Seq(STRING) /\ Len(p) \in Nat /\ Len(p) > 1 /\ p[2] # "/"
  BY <1>0, LenProperties
<1>2. Perms!TrimRight(p) \in Seq(STRING) /\ Len(Perms!TrimRight(p)) >= 2 /\ Perms!TrimRight(p)[2] = p[2]
  BY <1>1, Trims
<1>3. Perms!TrimRight(p) # <<>>
  BY <1>2
<1> QED BY <1>1, <1>2, <1>3 DEF Perms!TrimRightSlash

LEMMA EndsInStar ==
  ASSUME NEW T, NEW s \in Seq(T)
  PROVE  Perms!EndsWith(s, <<"*">>) <=> Len(s) > 0 /\ s[Len(s)] = "*"
BY DEF Perms!EndsWith, Perms!IsSuffix, Perms!IsPrefix, Perms!Reverse

LEMMA EndsInSlashStar ==
  ASSUME NEW T, NEW s \in Seq(T)
  PROVE  Perms!EndsWith(s, <<"/", "*">>) <=> Len(s) > 1 /\ s[Len(s) - 1] = "/" /\ s[Len(s)] = "*"
BY DEF Perms!EndsWith, Perms!IsSuffix, Perms!IsPrefix, Perms!Reverse

(* Cutting the star off a pattern is cutting the slash off as well and     *)
(* putting it back.                                                        *)
LEMMA CutsAgree ==
  ASSUME NEW T, NEW s \in Seq(T), Len(s) > 1, s[Len(s) - 1] = "/"
  PROVE  Perms!Cut(s, 2) \o <<"/">> = Perms!Cut(s, 1)
<1>0. Len(s) \in Nat
  OBVIOUS
<1>1. ASSUME NEW n \in {1, 2}
      PROVE  /\ Perms!Cut(s, n) \in Seq(T) /\ Len(Perms!Cut(s, n)) = Len(s) - n
             /\ \A i \in 1 .. Len(s) - n : Perms!Cut(s, n)[i] = s[i]
  <2>1. 1 \in 1 .. Len(s) + 1 /\ Len(s) - n \in 1 - 1 .. Len(s)
    BY <1>0
  <2>2. /\ SubSeq(s, 1, Len(s) - n) \in Seq(T)
        /\ Len(SubSeq(s, 1, Len(s) - n)) = IF 1 <= Len(s) - n THEN Len(s) - n - 1 + 1 ELSE 0
        /\ \A i \in 1 .. Len(s) - n - 1 + 1 : SubSeq(s, 1, Len(s) - n)[i] = s[1 + i - 1]
    BY <2>1, SubSeqProperties
  <2> QED BY <1>0, <2>1, <2>2 DEF Perms!Cut
<1>2. Perms!Cut(s, 2) \in Seq(T) /\ Perms!Cut(s, 1) \in Seq(T) /\ Len(Perms!Cut(s, 2)) = Len(s) - 2 /\ Len(Perms!Cut(s, 1)) = Len(s) - 1
  BY <1>1
<1>3. Perms!Cut(s, 2) \o <<"/">> \in Seq(T) /\ Len(Perms!Cut(s, 2) \o <<"/">>) = Len(s) - 1
  BY <1>0, <1>2
<1>4. \A i \in 1 .. Len(s) - 1 : (Perms!Cut(s, 2) \o <<"/">>)[i] = Perms!Cut(s, 1)[i]
  <2> SUFFICES ASSUME NEW i \in 1 .. Len(s) - 1 PROVE (Perms!Cut(s, 2) \o <<"/">>)[i] = Perms!Cut(s, 1)[i]
    OBVIOUS
  <2>1. Perms!Cut(s, 1)[i] = s[i]
    BY <1>1
  <2>2. CASE i = Len(s) - 1
    <3>1. (Perms!Cut(s, 2) \o <<"/">>)[i] = "/"
      BY <1>0, <1>2, <2>2
    <3> QED BY <2>1, <2>2, <3>1
  <2>3. CASE i < Len(s) - 1
    <3>1. (Perms!Cut(s, 2) \o <<"/">>)[i] = Perms!Cut(s, 2)[i]
      BY <1>0, <1>2, <2>3
    <3>2. Perms!Cut(s, 2)[i] = s[i]
      BY <1>0, <1>1, <2>3
    <3> QED BY <2>1, <3>1, <3>2
  <2>4. i = Len(s) - 1 \/ i < Len(s) - 1
    BY <1>0
  <2> QED BY <2>2, <2>3, <2>4, Zenon
<1> QED BY <1>2, <1>3, <1>4, SeqEqual

LEMMA OneSlash ==
  <<"/">> \in Seq({"/"}) /\ Len(<<"/">>) = 1 /\ <<"/">>[1] = "/" /\ <<"/">> \o <<"/">> = <<"/", "/">>
<1>1. Len(<<"/">>) = 1 /\ <<"/">>[1] = "/"
  OBVIOUS
<1>2. <<"/">> \in Seq({"/"})
  <2>1. <<"/">> \in [1 .. 1 -> {"/"}]
    OBVIOUS
  <2> QED BY <2>1, SeqDef
<1>3. <<"/">> \o <<"/">> = <<"/", "/">>
  <2>1. <<"/", "/">> \in Seq({"/"})
    <3>1. <<"/", "/">> \in [1 .. 2 -> {"/"}]
      OBVIOUS
    <3> QED BY <3>1, SeqDef
  <2>2. <<"/">> \o <<"/">> \in Seq({"/"}) /\ Len(<<"/">> \o <<"/">>) = 2
    BY <1>1, <1>2, ConcatProperties
  <2>3. \A i \in 1 .. 2 : (<<"/">> \o <<"/">>)[i] = "/" /\ <<"/", "/">>[i] = "/"
    BY <1>1, <1>2, ConcatProperties
  <2>4. Len(<<"/", "/">>) = 2
    OBVIOUS
  <2> QED BY <2>1, <2>2, <2>3, <2>4, SeqEqual
<1> QED BY <1>1, <1>2, <1>3

(* The page's rule for a pattern and the server's are the same.            *)
LEMMA PatternsAgree ==
  ASSUME NEW T, NEW pattern \in Seq(T), NEW route
  PROVE  Perms!PagePathMatches(pattern, route) <=> Perms!PathMatches(pattern, route)
<1>1. CASE Perms!EndsWith(pattern, <<"/", "*">>)
  <2>1. Len(pattern) > 1 /\ pattern[Len(pattern) - 1] = "/" /\ pattern[Len(pattern)] = "*"
    BY <1>1, EndsInSlashStar
  <2>2. Perms!EndsWith(pattern, <<"*">>)
    BY <2>1, EndsInStar
  <2>3. Perms!Cut(pattern, 2) \o <<"/">> = Perms!Cut(pattern, 1)
    BY <2>1, CutsAgree
  <2> QED BY <1>1, <2>2, <2>3 DEF Perms!PagePathMatches, Perms!PathMatches
<1>2. CASE ~Perms!EndsWith(pattern, <<"/", "*">>)
  BY <1>2 DEF Perms!PagePathMatches, Perms!PathMatches
<1> QED BY <1>1, <1>2

(* A permission lets a request through here just when it does there.       *)
LEMMA GrantsAgree ==
  ASSUME Perms!ConstantsOK, NEW g \in Grants, NEW m, NEW p \in Paths
  PROVE  Perms!PagePermissionMatches(g, m, Perms!TrimRightSlash(p)) <=> Perms!PermissionMatches(g, m, Perms!TrimRight(p))
<1> DEFINE route == Perms!TrimRight(p)
           s == Perms!TrimRight(g.pattern)
           t == Perms!TrimRightSlash(g.pattern)
<1>1. route \in Seq(STRING) /\ Len(route) > 1 /\ route[2] # "/" /\ Perms!TrimRightSlash(p) = route
  BY TrimmedPath
<1>2. s \in Seq(STRING) /\ t = IF s = <<>> THEN <<"/">> ELSE s
  BY Trims DEF Perms!ConstantsOK, Perms!TrimRightSlash
<1> HIDE DEF route, s, t
<1>3. Perms!PagePathMatches(t, route) \/ (m = "GET" /\ Perms!DetailMatches(t, route)) <=>
      Perms!PathMatches(s, route) \/ (m = "GET" /\ Perms!DetailMatches(s, route))
  <2>1. CASE s # <<>>
    BY <1>2, <2>1, PatternsAgree
  <2>2. CASE s = <<>>
    <3>1. t = <<"/">>
      BY <1>2, <2>2
    <3>2. ~Perms!PathMatches(s, route) /\ ~Perms!DetailMatches(s, route)
      <4>0. s \in Seq(STRING) /\ ~(Len(s) > 0)
        BY <1>2, <2>2
      <4>1. ~Perms!EndsWith(s, <<"*">>)
        BY <4>0, EndsInStar
      <4>2. s # route
        BY <1>1, <2>2
      <4> QED BY <2>2, <4>1, <4>2 DEF Perms!PathMatches, Perms!DetailMatches
    <3>3. ~Perms!PathMatches(t, route)
      <4>1. t \in Seq({"/"}) /\ Len(t) = 1 /\ t[1] = "/"
        BY <3>1, OneSlash
      <4>2. ~Perms!EndsWith(t, <<"*">>)
        BY <4>1, EndsInStar
      <4>3. t # route
        BY <1>1, <4>1
      <4> QED BY <4>2, <4>3 DEF Perms!PathMatches
    <3>4. ~Perms!DetailMatches(t, route)
      <4>1. t \o <<"/">> = <<"/", "/">>
        BY <3>1, OneSlash
      <4>2. ~Perms!IsPrefix(<<"/", "/">>, route)
        <5> SUFFICES ASSUME SubSeq(<<"/", "/">>, 1, 2) = SubSeq(route, 1, 2) PROVE FALSE
          BY DEF Perms!IsPrefix
        <5>1. SubSeq(<<"/", "/">>, 1, 2)[2] = "/"
          OBVIOUS
        <5>2. SubSeq(route, 1, 2)[2] = route[2]
          BY <1>1
        <5> QED BY <1>1, <5>1, <5>2
      <4> QED BY <4>1, <4>2 DEF Perms!DetailMatches
    <3>5. Perms!PagePathMatches(t, route) <=> Perms!PathMatches(t, route)
      BY <3>1, OneSlash, PatternsAgree
    <3> QED BY <3>2, <3>3, <3>4, <3>5
  <2> QED BY <2>1, <2>2
<1> QED BY <1>1, <1>3 DEF Perms!PagePermissionMatches, Perms!PermissionMatches, route, s, t

(* The counts of the page are the ones the library's theorems are about.   *)
LEMMA PermCounts == \A S : Perms!Cardinality(S) = Cardinality(S)
BY DEF Cardinality, Perms!Cardinality

-----------------------------------------------------------------------------
(* Names of roles.                                                         *)
Roles4 == {"super_admin", "admin", "auditor", "user"}

LEMMA KeptFacts ==
  ASSUME NEW T, NEW name \in Seq(T)
  PROVE  /\ Len(name) \in Nat /\ DOMAIN name = 1 .. Len(name)
         /\ Perms!Kept(name) \subseteq 1 .. Len(name) /\ Perms!Kept(name) \subseteq Nat
         /\ IsFiniteSet(Perms!Kept(name))
<1>1. Len(name) \in Nat /\ DOMAIN name = 1 .. Len(name) /\ IsFiniteSet(1 .. Len(name))
  BY Domains
<1>2. Perms!Kept(name) \subseteq 1 .. Len(name)
  BY <1>1 DEF Perms!Kept
<1> QED BY <1>1, <1>2, FS_Subset

(* A name without a run of separators stays as it is.                      *)
LEMMA PlainStays ==
  ASSUME NEW T, NEW name \in Seq(T), Perms!Plain(name)
  PROVE  Perms!Collapsed(name) = name
<1> DEFINE n == Len(name)
<1>1. n \in Nat /\ DOMAIN name = 1 .. n
  BY KeptFacts
<1>2. Perms!Kept(name) = 1 .. n
  <2> SUFFICES ASSUME NEW i \in 1 .. n, i > 1, name[i] \in Perms!Separators,
                      name[i - 1] \in Perms!Separators PROVE FALSE
    BY <1>1 DEF Perms!Kept
  <2>1. i - 1 \in 1 .. Len(name) - 1 /\ (i - 1) + 1 = i
    BY <1>1
  <2> QED BY <2>1 DEF Perms!Plain
<1> HIDE DEF n
<1>3. Cardinality(Perms!Kept(name)) = n
  <2>1. Cardinality(1 .. n) = IF 1 > n THEN 0 ELSE n - 1 + 1
    BY <1>1, FS_Interval
  <2> QED BY <1>1, <1>2, <2>1
<1>4. ASSUME NEW i \in 1 .. n PROVE Perms!Before(i, name) = i - 1
  <2>1. {j \in Perms!Kept(name) : j < i} = 1 .. i - 1
    BY <1>1, <1>2
  <2>2. Cardinality(1 .. i - 1) = IF 1 > i - 1 THEN 0 ELSE (i - 1) - 1 + 1
    BY <1>1, FS_Interval
  <2>3. Perms!Before(i, name) = Cardinality(1 .. i - 1)
    BY <2>1, PermCounts, Zenon DEF Perms!Before
  <2> QED BY <1>1, <2>2, <2>3
<1>5. ASSUME NEW k \in 1 .. n PROVE (CHOOSE i \in Perms!Kept(name) : Perms!Before(i, name) = k - 1) = k
  <2> DEFINE c == CHOOSE i \in Perms!Kept(name) : Perms!Before(i, name) = k - 1
  <2>1. \E i \in Perms!Kept(name) : Perms!Before(i, name) = k - 1
    BY <1>2, <1>4
  <2>2. c \in Perms!Kept(name) /\ Perms!Before(c, name) = k - 1
    BY <2>1
  <2> HIDE DEF c
  <2>3. c = k
    BY <1>1, <1>2, <1>4, <2>2
  <2> QED BY <2>3 DEF c
<1> DEFINE at(k) == CHOOSE i \in Perms!Kept(name) : Perms!Before(i, name) = k - 1
<1>6. Perms!Collapsed(name) = [k \in 1 .. n |-> name[at(k)]]
  BY <1>3, PermCounts, Zenon DEF Perms!Collapsed
<1>7. \A k \in 1 .. n : at(k) = k
  BY <1>5
<1> HIDE DEF at
<1> QED BY <1>1, <1>6, <1>7

(* Of a run of separators one stays.                                       *)
LEMMA SeparatorStays ==
  ASSUME NEW T, NEW name \in Seq(T), ~Perms!Plain(name)
  PROVE  \E k \in DOMAIN Perms!Collapsed(name) : Perms!Collapsed(name)[k] \in Perms!Separators
<1> DEFINE S == Perms!Kept(name)
           seps == {i \in 1 .. Len(name) : name[i] \in Perms!Separators}
<1>1. Len(name) \in Nat /\ DOMAIN name = 1 .. Len(name) /\ S \subseteq Nat /\ IsFiniteSet(S)
  BY KeptFacts
<1>2. \E i \in seps : \A j \in seps : i <= j
  <2>1. seps # {}
    <3>1. PICK i \in 1 .. Len(name) - 1 : name[i] \in Perms!Separators
      BY DEF Perms!Plain
    <3> QED BY <1>1, <3>1
  <2>2. IsFiniteSet(1 .. Len(name)) /\ seps \subseteq 1 .. Len(name) /\ seps \subseteq Nat
    BY <1>1, FS_Interval
  <2>3. IsFiniteSet(seps)
    BY <2>2, FS_Subset
  <2> HIDE DEF seps
  <2> QED BY <2>1, <2>2, <2>3, LeastAndGreatest
<1>3. PICK m \in seps : \A j \in seps : m <= j
  BY <1>2
<1>4. m \in S
  <2> SUFFICES ASSUME m > 1, name[m - 1] \in Perms!Separators PROVE FALSE
    BY <1>1 DEF Perms!Kept
  <2>1. m - 1 \in seps
    BY <1>1
  <2> QED BY <1>1, <1>3, <2>1
<1>5. name[m] \in Perms!Separators
  OBVIOUS
<1> DEFINE place(r) == Cardinality({s \in S : s < r})
<1> HIDE DEF S, seps
<1>6. /\ Cardinality(S) \in Nat /\ place(m) \in 0 .. Cardinality(S) - 1
      /\ \A r, q \in S : r < q => place(r) < place(q)
      /\ \A r \in S : place(r) \in Nat
  <2>1. /\ Cardinality(S) \in Nat
        /\ \A r \in S : place(r) \in 0 .. Cardinality(S) - 1
        /\ \A r, q \in S : r < q => place(r) < place(q)
    BY <1>1, TokenPlaces
  <2> HIDE DEF place
  <2> QED BY <1>4, <2>1
<1>7. \A i : Perms!Before(i, name) = place(i)
  BY PermCounts DEF Perms!Before, S
<1> HIDE DEF place
<1> DEFINE k == place(m) + 1
           c == CHOOSE i \in S : Perms!Before(i, name) = k - 1
<1>8. k \in 1 .. Cardinality(S) /\ k - 1 = place(m)
  BY <1>6
<1>9. c = m
  <2>1. \E i \in S : Perms!Before(i, name) = k - 1
    BY <1>4, <1>7, <1>8
  <2>2. c \in S /\ place(c) = place(m)
    BY <1>7, <1>8, <2>1
  <2> HIDE DEF c
  <2>3. c \in Nat /\ m \in Nat
    BY <1>1, <1>4, <2>2
  <2>4. ~(c < m) /\ ~(m < c)
    BY <1>4, <1>6, <2>2
  <2> QED BY <2>3, <2>4
<1> HIDE DEF k
<1>10. k \in DOMAIN Perms!Collapsed(name) /\ Perms!Collapsed(name)[k] = name[c]
  BY <1>8, PermCounts DEF Perms!Collapsed, S
<1> QED BY <1>5, <1>9, <1>10

(* A name the server has made canonical is itself for the page.            *)
LEMMA CanonicalStays == ASSUME NEW k \in Roles4 PROVE Perms!NormalizeRole(<<k>>) = k
<1>1. <<k>> \in Seq({k}) /\ Len(<<k>>) = 1 /\ <<k>>[1] = k
  <2>1. <<k>> \in [1 .. 1 -> {k}]
    OBVIOUS
  <2> QED BY <2>1, SeqDef
<1>2. Perms!Plain(<<k>>)
  BY <1>1 DEF Perms!Plain
<1>3. Perms!Collapsed(<<k>>) = <<k>>
  BY <1>1, <1>2, PlainStays
<1>4. Perms!Underscored(<<k>>) = <<k>>
  <2>0. k \notin Perms!Separators
    BY DEF Perms!Separators, Roles4
  <2>1. DOMAIN <<k>> = 1 .. 1 /\ k \notin Perms!Separators
    BY <1>1, <2>0
  <2>2. \A i \in DOMAIN <<k>> : <<k>>[i] = k
    BY <1>1, <2>1
  <2>3. Perms!Underscored(<<k>>) = [i \in DOMAIN <<k>> |-> <<k>>[i]]
    BY <2>1, <2>2 DEF Perms!Underscored
  <2>4. <<k>> = [i \in DOMAIN <<k>> |-> <<k>>[i]]
    BY <2>1
  <2> QED BY <2>3, <2>4
<1>5. Perms!BuiltIn(<<k>>) = k
  BY DEF Perms!BuiltIn, Roles4
<1> QED BY <1>3, <1>4, <1>5 DEF Perms!NormalizeRole

LEMMA BuiltInKinds ==
  ASSUME NEW n
  PROVE  /\ Perms!BuiltIn(n) \in Roles4 \cup {"custom"}
         /\ \A i \in DOMAIN n : n[i] = "_" => Perms!BuiltIn(n) \in {"super_admin", "custom"}
<1>1. Perms!BuiltIn(n) \in Roles4 \cup {"custom"}
  BY DEF Perms!BuiltIn, Roles4
<1>2. ASSUME NEW i \in DOMAIN n, n[i] = "_" PROVE Perms!BuiltIn(n) \in {"super_admin", "custom"}
  <2>0. \A w : n = <<w>> => w = "_"
    <3> SUFFICES ASSUME NEW w, n = <<w>> PROVE w = "_"
      OBVIOUS
    <3>1. DOMAIN <<w>> = 1 .. 1 /\ <<w>>[1] = w
      OBVIOUS
    <3>2. i \in 1 .. 1
      BY <3>1
    <3>3. i = 1
      BY <3>2
    <3> QED BY <1>2, <3>1, <3>3
  <2>1. n \notin {<<"admin">>, <<"administrator">>}
    BY <2>0
  <2>2. n \notin {<<"auditor">>, <<"audit">>}
    BY <2>0
  <2>3. n \notin {<<"user">>, <<"member">>}
    BY <2>0
  <2> QED BY <2>1, <2>2, <2>3 DEF Perms!BuiltIn
<1> QED BY <1>1, <1>2

(* The kind the page makes of a current copy.                              *)
LEMMA KindOfCopy ==
  ASSUME Perms!ConstantsOK, role \in RoleNames
  PROVE  /\ Perms!Normalize(role) # "custom" =>
              /\ Perms!Normalize(role) \in Roles4
              /\ Perms!Kind(Perms!Payload) = Perms!Normalize(role)
              /\ Perms!RoleDecision.kind = Perms!Normalize(role) /\ Perms!Payload.api = {}
         /\ Perms!Normalize(role) = "custom" =>
              \/ role = <<>> /\ Perms!Kind(Perms!Payload) = "user"
              \/ Perms!Kind(Perms!Payload) = "custom"
              \/ ~Perms!Plain(role) /\ Perms!Kind(Perms!Payload) = "super_admin"
         /\ Perms!Payload.api = Perms!RoleDecision.api
         /\ Perms!Payload.menus = Perms!RoleDecision.menus
<1>0. Perms!Payload.api = Perms!RoleDecision.api /\ Perms!Payload.menus = Perms!RoleDecision.menus
  BY DEF Perms!Payload
<1>1. ASSUME Perms!Normalize(role) # "custom"
      PROVE  /\ Perms!Normalize(role) \in Roles4
             /\ Perms!Kind(Perms!Payload) = Perms!Normalize(role)
             /\ Perms!RoleDecision.kind = Perms!Normalize(role) /\ Perms!Payload.api = {}
  <2>1. Perms!Normalize(role) \in Roles4
    BY <1>1, BuiltInKinds DEF Perms!Normalize
  <2>2. Perms!RoleDecision.kind = Perms!Normalize(role) /\ Perms!RoleDecision.api = {}
    BY <1>1 DEF Perms!RoleDecision
  <2>3. Perms!Payload.role = <<Perms!Normalize(role)>>
    BY <1>1 DEF Perms!Payload
  <2> QED BY <1>0, <2>1, <2>2, <2>3, CanonicalStays DEF Perms!Kind
<1>2. ASSUME Perms!Normalize(role) = "custom"
      PROVE  \/ role = <<>> /\ Perms!Kind(Perms!Payload) = "user"
             \/ Perms!Kind(Perms!Payload) = "custom"
             \/ ~Perms!Plain(role) /\ Perms!Kind(Perms!Payload) = "super_admin"
  <2>1. Perms!Payload.role = role /\ role \in Seq(STRING)
    BY <1>2 DEF Perms!Payload, Perms!ConstantsOK
  <2>2. CASE role = <<>>
    BY <2>1, <2>2 DEF Perms!Kind, Perms!NormalizeRole
  <2>3. CASE role # <<>> /\ Perms!Plain(role)
    BY <1>2, <2>1, <2>3, PlainStays DEF Perms!Kind, Perms!NormalizeRole, Perms!Normalize
  <2>4. CASE role # <<>> /\ ~Perms!Plain(role)
    <3>1. PICK k \in DOMAIN Perms!Collapsed(role) : Perms!Collapsed(role)[k] \in Perms!Separators
      BY <2>1, <2>4, SeparatorStays
    <3>2. k \in DOMAIN Perms!Underscored(Perms!Collapsed(role)) /\ Perms!Underscored(Perms!Collapsed(role))[k] = "_"
      BY <3>1 DEF Perms!Underscored
    <3>3. Perms!BuiltIn(Perms!Underscored(Perms!Collapsed(role))) \in {"super_admin", "custom"}
      BY <3>2, BuiltInKinds
    <3> QED BY <2>1, <2>4, <3>3 DEF Perms!Kind, Perms!NormalizeRole
  <2> QED BY <2>2, <2>3, <2>4
<1> QED BY <1>0, <1>1, <1>2

-----------------------------------------------------------------------------
(* The two decisions.                                                      *)
LEMMA PermTyped == ASSUME Perms!ConstantsOK, Perms!TypeOK PROVE Perms!Payload \in Perms!Copies /\ Perms!RoleDecision.api \subseteq Grants
<1>1. record \in Perms!Record /\ role \in RoleNames
  BY DEF Perms!TypeOK
<1>2. record.api \in {{}} \cup {{g} : g \in Grants} /\ record.menus \in {{}} \cup {{m} : m \in Menus}
  BY <1>1 DEF Perms!Record
<1>3. /\ Perms!RoleDecision.api \in {{}} \cup {{g} : g \in Grants}
      /\ Perms!RoleDecision.menus \in {{}} \cup {{m} : m \in Menus}
  BY <1>2 DEF Perms!RoleDecision, Perms!Nothing
<1>4. (IF Perms!Normalize(role) = "custom" THEN role ELSE <<Perms!Normalize(role)>>) \in
      RoleNames \cup {<<k>> : k \in {"super_admin", "admin", "auditor", "user"}}
  BY <1>1, KindOfCopy DEF Roles4
<1>5. Perms!RoleDecision.api \subseteq Grants
  BY <1>3
<1> QED BY <1>3, <1>4, <1>5 DEF Perms!Payload, Perms!Copies

LEMMA PermOffered == ASSUME Perms!ConstantsOK, Perms!TypeOK PROVE Perms!OfferedIsAllowed
<1> SUFFICES ASSUME auth = Perms!Payload, Perms!Plain(role), NEW m \in Methods,
                    NEW p \in Paths, Perms!CanUseAPI(Perms!Payload, m, p)
             PROVE  Perms!Allowed(m, p)
  BY DEF Perms!OfferedIsAllowed, Perms!Current
<1>1. role \in RoleNames /\ Perms!RoleDecision.api \subseteq Grants
  BY PermTyped DEF Perms!TypeOK
<1>2. Perms!TrimRightSlash(p) = Perms!TrimRight(p)
  BY TrimmedPath
<1>3. CASE Perms!Admin(Perms!Kind(Perms!Payload)) \/ (Perms!Kind(Perms!Payload) = "auditor" /\ Perms!PageAuditorMay(m, Perms!TrimRightSlash(p)))
  <2>1. Perms!RoleDecision.kind = Perms!Kind(Perms!Payload)
    BY <1>1, <1>3, KindOfCopy DEF Perms!Admin
  <2> QED BY <1>2, <1>3, <2>1 DEF Perms!Allowed, Perms!AuditorMay, Perms!PageAuditorMay
<1>4. CASE \E g \in Perms!Payload.api : Perms!PagePermissionMatches(g, m, Perms!TrimRightSlash(p))
  <2>1. PICK g \in Perms!RoleDecision.api : Perms!PagePermissionMatches(g, m, Perms!TrimRightSlash(p))
    BY <1>1, <1>4, KindOfCopy
  <2>2. Perms!PermissionMatches(g, m, Perms!TrimRight(p))
    BY <1>1, <2>1, GrantsAgree
  <2> QED BY <2>1, <2>2, Zenon DEF Perms!Allowed
<1>5. \/ Perms!Admin(Perms!Kind(Perms!Payload)) \/ (Perms!Kind(Perms!Payload) = "auditor" /\ Perms!PageAuditorMay(m, Perms!TrimRightSlash(p)))
      \/ \E g \in Perms!Payload.api : Perms!PagePermissionMatches(g, m, Perms!TrimRightSlash(p))
  BY Zenon DEF Perms!CanUseAPI
<1> QED BY <1>3, <1>4, <1>5

LEMMA PermAllowed == ASSUME Perms!ConstantsOK, Perms!TypeOK PROVE Perms!AllowedIsOffered
<1> SUFFICES ASSUME auth = Perms!Payload,
                    Perms!Normalize(role) = "custom" => Perms!RoleDecision.kind \in {"custom", "user"},
                    NEW m \in Methods, NEW p \in Paths, Perms!Allowed(m, p), ~Perms!AlwaysAllowed(Perms!TrimRight(p))
             PROVE  Perms!CanUseAPI(Perms!Payload, m, p)
  BY DEF Perms!AllowedIsOffered, Perms!Current
<1>1. role \in RoleNames /\ Perms!RoleDecision.api \subseteq Grants
  BY PermTyped DEF Perms!TypeOK
<1>2. Perms!TrimRightSlash(p) = Perms!TrimRight(p)
  BY TrimmedPath
<1>3. CASE Perms!Admin(Perms!RoleDecision.kind) \/ (Perms!RoleDecision.kind = "auditor" /\ Perms!AuditorMay(m, Perms!TrimRight(p)))
  <2>1. Perms!RoleDecision.kind = Perms!Kind(Perms!Payload)
    BY <1>1, <1>3, KindOfCopy DEF Perms!Admin
  <2> QED BY <1>2, <1>3, <2>1 DEF Perms!CanUseAPI, Perms!AuditorMay, Perms!PageAuditorMay
<1>4. CASE \E g \in Perms!RoleDecision.api : Perms!PermissionMatches(g, m, Perms!TrimRight(p))
  <2>1. PICK g \in Perms!RoleDecision.api : Perms!PermissionMatches(g, m, Perms!TrimRight(p))
    BY <1>4
  <2>2. Perms!PagePermissionMatches(g, m, Perms!TrimRightSlash(p))
    BY <1>1, <2>1, GrantsAgree
  <2>3. g \in Perms!Payload.api
    BY <1>1, <2>1, KindOfCopy
  <2>4. Perms!Normalize(role) = "custom" /\ role # <<>>
    <3>1. Perms!Normalize(role) = "custom"
      BY <1>1, <2>3, KindOfCopy
    <3> QED BY <2>1, <3>1 DEF Perms!RoleDecision, Perms!Nothing
  <2>5. Perms!Kind(Perms!Payload) \in {"custom", "super_admin"}
    BY <1>1, <2>4, KindOfCopy
  <2>6. Perms!Admin(Perms!Kind(Perms!Payload)) \/ Perms!Kind(Perms!Payload) = "custom"
    BY <2>5 DEF Perms!Admin
  <2> QED BY <2>2, <2>3, <2>6, Zenon DEF Perms!CanUseAPI
<1>5. \/ Perms!Admin(Perms!RoleDecision.kind) \/ (Perms!RoleDecision.kind = "auditor" /\ Perms!AuditorMay(m, Perms!TrimRight(p)))
      \/ \E g \in Perms!RoleDecision.api : Perms!PermissionMatches(g, m, Perms!TrimRight(p))
  BY Zenon DEF Perms!Allowed
<1> QED BY <1>3, <1>4, <1>5

-----------------------------------------------------------------------------
(* The routes.                                                             *)
LEMMA RoutesDiffer ==
  /\ Perms!Overview \notin {Perms!Servers, Perms!Sessions, Perms!Audit}
  /\ Perms!Access \notin {Perms!Servers, Perms!Sessions, Perms!Audit}
  /\ Perms!Servers # Perms!Audit /\ Perms!Sessions # Perms!Audit
<1>1. Len(Perms!Overview) = 2 /\ Len(Perms!Access) = 2 /\ Len(Perms!Servers) = 4 /\ Len(Perms!Sessions) = 4 /\ Len(Perms!Audit) = 4
  BY DEF Perms!Overview, Perms!Access, Perms!Servers, Perms!Sessions, Perms!Audit
<1>2. Perms!Servers[4] = "servers" /\ Perms!Sessions[4] = "sessions" /\ Perms!Audit[4] = "audit"
  BY DEF Perms!Servers, Perms!Sessions, Perms!Audit
<1> QED BY <1>1, <1>2

(* A link leads where it says, whoever looks at it.                        *)
LEMMA LinksPass == ASSUME Perms!ConstantsOK, NEW a, NEW to \in Perms!Links(a) PROVE Perms!Gate(a, to)
<1>1. CASE to \in {Perms!Overview, Perms!Access}
  BY <1>1, RoutesDiffer DEF Perms!Gate, Perms!ConstantsOK
<1>2. CASE to \in {Perms!Servers, Perms!Sessions} /\ Perms!Admin(Perms!Kind(a))
  BY <1>2, RoutesDiffer DEF Perms!Gate, Perms!ConstantsOK
<1>3. CASE to = Perms!Audit /\ (Perms!Admin(Perms!Kind(a)) \/ Perms!Kind(a) = "auditor")
  BY <1>3, RoutesDiffer DEF Perms!Gate, Perms!ConstantsOK
<1>4. CASE \E page \in Pages : to = page.route /\ Perms!CanView(a, page)
  BY <1>4 DEF Perms!Gate, Perms!ConstantsOK
<1> QED BY <1>1, <1>2, <1>3, <1>4 DEF Perms!Links, Perms!SidebarLinks, Perms!MobileLinks,
  Perms!HeaderLinks, Perms!SearchLinks

LEMMA ShownPasses ==
  ASSUME Perms!ConstantsOK, NEW a, NEW to
  PROVE  Perms!Gate(a, Perms!Shown(a, to)) /\ Perms!Shown(a, to) \in {to, Perms!Access}
<1>1. Perms!Gate(a, Perms!Access)
  BY RoutesDiffer DEF Perms!Gate, Perms!ConstantsOK
<1> QED BY <1>1 DEF Perms!Shown

(* The copy on its way is one the server made.                             *)
PermAnswer == me \in {<<>>, <<"sent">>} \/ \E a \in Perms!Copies : me = <<"answer", a>>
PermInv == Perms!TypeOK /\ PermAnswer /\ Perms!Gate(auth, location)

LEMMA PermOpens == ASSUME Perms!ConstantsOK, Perms!Init PROVE PermInv
<1>0. MaxEdits \in Nat /\ <<"team">> \in TypeNames
  BY Zenon DEF Perms!ConstantsOK
<1>1. record \in Perms!Record /\ role \in RoleNames /\ edits \in 0 .. MaxEdits
  BY <1>0 DEF Perms!Init, Perms!Record
<1>2. Perms!RoleDecision.api \in {{}} \cup {{g} : g \in Grants} /\ Perms!RoleDecision.menus \in {{}} \cup {{m} : m \in Menus}
  BY DEF Perms!Init, Perms!RoleDecision, Perms!Nothing
<1>3. (IF Perms!Normalize(role) = "custom" THEN role ELSE <<Perms!Normalize(role)>>) \in
      RoleNames \cup {<<k>> : k \in {"super_admin", "admin", "auditor", "user"}}
  BY <1>1, KindOfCopy DEF Roles4
<1>4. auth \in Perms!Copies
  BY <1>2, <1>3 DEF Perms!Init, Perms!Payload, Perms!Copies
<1>5. Perms!Gate(auth, location) /\ location = Perms!Overview
  <2>1. Perms!Overview \in Perms!Links(auth)
    BY DEF Perms!Links, Perms!SidebarLinks
  <2> QED BY <2>1, LinksPass DEF Perms!Init
<1>6. PermAnswer
  BY DEF Perms!Init, PermAnswer
<1> QED BY <1>1, <1>4, <1>5, <1>6 DEF PermInv, Perms!TypeOK

LEMMA PermKeeps == ASSUME Perms!ConstantsOK, PermInv, [Perms!Next]_Perms!vars PROVE PermInv'
<1>1. /\ record \in Perms!Record /\ role \in RoleNames /\ edits \in 0 .. MaxEdits
      /\ auth \in Perms!Copies
      /\ location \in Perms!Routes \cup {Perms!Servers, Perms!Sessions, Perms!Audit, Perms!Overview, Perms!Access}
      /\ PermAnswer /\ Perms!Gate(auth, location) /\ Perms!Payload \in Perms!Copies
  BY PermTyped DEF PermInv, Perms!TypeOK
<1>0. MaxEdits \in Nat
  BY Zenon DEF Perms!ConstantsOK
<1>2. CASE UNCHANGED Perms!vars
  BY <1>2 DEF Perms!vars, PermInv, Perms!TypeOK, PermAnswer
<1>3. ASSUME NEW r \in Perms!Record, Perms!EditRecord(r) PROVE PermInv'
  BY <1>0, <1>1, <1>3 DEF Perms!EditRecord, PermInv, Perms!TypeOK, PermAnswer
<1>4. ASSUME NEW name \in RoleNames, Perms!AssignRole(name) PROVE PermInv'
  BY <1>0, <1>1, <1>4 DEF Perms!AssignRole, PermInv, Perms!TypeOK, PermAnswer
<1>5. CASE Perms!AskMe
  BY <1>1, <1>5 DEF Perms!AskMe, PermInv, Perms!TypeOK, PermAnswer
<1>6. CASE Perms!ServeMe
  BY <1>1, <1>6 DEF Perms!ServeMe, PermInv, Perms!TypeOK, PermAnswer
<1>7. CASE Perms!TakeMe
  <2>1. PICK a \in Perms!Copies : me = <<"answer", a>>
    <3>1. Len(me) = 2
      BY <1>7 DEF Perms!TakeMe
    <3>2. Len(<<>>) = 0 /\ Len(<<"sent">>) = 1
      OBVIOUS
    <3> QED BY <1>1, <3>1, <3>2 DEF PermAnswer
  <2>2. me[2] = a
    BY <2>1
  <2>3. me' = <<>> /\ auth' = a /\ location' = Perms!Shown(a, location) /\ UNCHANGED <<record, role, edits>>
    BY <1>7, <2>2 DEF Perms!TakeMe
  <2> QED BY <1>1, <2>3, ShownPasses DEF PermInv, Perms!TypeOK, PermAnswer
<1>8. ASSUME NEW to \in Perms!Links(auth) \cup Perms!Routes \cup {Perms!Servers, Perms!Sessions, Perms!Audit},
             Perms!Follow(to) PROVE PermInv'
  <2>1. location' = Perms!Shown(auth, to) /\ UNCHANGED <<record, role, edits, auth, me>>
    BY <1>8 DEF Perms!Follow
  <2>2. to \in Perms!Routes \cup {Perms!Servers, Perms!Sessions, Perms!Audit, Perms!Overview, Perms!Access}
    BY DEF Perms!Links, Perms!SidebarLinks, Perms!MobileLinks, Perms!HeaderLinks,
      Perms!SearchLinks, Perms!Routes
  <2> QED BY <1>1, <2>1, <2>2, ShownPasses DEF PermInv, Perms!TypeOK, PermAnswer
<1> QED BY <1>2, <1>3, <1>4, <1>5, <1>6, <1>7, <1>8 DEF Perms!Next

LEMMA PermShows ==
  ASSUME Perms!ConstantsOK, PermInv
  PROVE  Perms!TypeOK /\ Perms!OfferedIsAllowed /\ Perms!AllowedIsOffered /\ Perms!LinksLead
<1>1. Perms!TypeOK /\ Perms!Gate(auth, location)
  BY DEF PermInv
<1> QED BY <1>1, PermOffered, PermAllowed, LinksPass DEF Perms!LinksLead

(* With a current copy the page offers a request just when the server lets *)
(* it through, up to the exceptions the properties name, and every link    *)
(* leads to its page, for any role records, names, paths and pages         *)
(* (canUseAPI, authorizeAPI, canViewPlatformPage, RoleGate).               *)
THEOREM PermissionsAgree ==
  Perms!ConstantsOK /\ Perms!Spec => [](Perms!TypeOK /\ Perms!OfferedIsAllowed /\ Perms!AllowedIsOffered /\ Perms!LinksLead)
<1> SUFFICES ASSUME Perms!ConstantsOK
             PROVE  Perms!Spec => [](Perms!TypeOK /\ Perms!OfferedIsAllowed /\ Perms!AllowedIsOffered /\ Perms!LinksLead)
  OBVIOUS
<1>1. Perms!Init => PermInv
  BY PermOpens
<1>2. PermInv /\ [Perms!Next]_Perms!vars => PermInv'
  BY PermKeeps
<1>3. PermInv => Perms!TypeOK /\ Perms!OfferedIsAllowed /\ Perms!AllowedIsOffered /\ Perms!LinksLead
  BY PermShows
<1> QED BY <1>1, <1>2, <1>3, PTL DEF Perms!Spec
=============================================================================
