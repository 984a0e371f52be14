------------------------- MODULE DoorControlProofs -------------------------
(***************************************************************************)
(* Safety of the door loop for every number of tags, every size of the two *)
(* tables, every width of the record counter and every set of faults.      *)
(***************************************************************************)
EXTENDS DoorControl, TLAPS, SequenceTheorems

\* Where the loop is, and what the code before that place has made sure of.
Control ==
  /\ pc \in {"boot", "lookup", "archive"} <=> link # NoLink
  /\ pc \in {"upload", "record", "archive", "cmd"} => ~active /\ relay = 0
  /\ pc = "lookup" => tag \in Tags /\ ~searchLocalDB(tag)
  /\ pc = "archive" => recno \in 1..Len(log)
  /\ active /\ pc \notin {"lookup", "deny", "hung"} => user = opener
  /\ hasCmd /\ cmd = "clear-memory" => ordered
  /\ reader # None => visits >= 1

\* What the server has done by the time an answer is on its way.
AnswerSound ==
  /\ pc = "lookup" => /\ \A c \in Commands : link = Reply(TRUE, c) => tag \in confirmed
                      /\ link = Refused => tag \in bounced
  /\ pc = "archive" => /\ \A v \in BOOLEAN, c \in Commands :
                             link = Reply(v, c) => log[recno] \in archived
                       /\ link = Refused => log[recno] \in bounced

Admission ==
  /\ active \/ relay = 1 => opener \in confirmed \cup bounced
  /\ CacheSound

IInv == TypeOK /\ Control /\ AnswerSound /\ Admission /\ AuditComplete

-----------------------------------------------------------------------------

\* The states of an exchange are told apart by their state field.
LEMMA LinkStates ==
  /\ NoLink # Sent /\ NoLink # Failed /\ NoLink # Refused
  /\ Sent # Failed /\ Sent # Refused /\ Failed # Refused
  /\ NoLink \notin Answers /\ Sent \notin Answers
  /\ \A v \in BOOLEAN, c \in Commands :
       /\ Reply(v, c) \notin {NoLink, Sent, Failed, Refused}
       /\ Reply(v, c).state = "reply" /\ Reply(v, c).valid = v /\ Reply(v, c).cmd = c
  /\ Failed.state # "reply" /\ Refused.state # "reply"
<1>1. /\ NoLink.state = "none" /\ Sent.state = "sent"
      /\ Failed.state = "failed" /\ Refused.state = "refused"
  BY DEF NoLink, Sent, Failed, Refused
<1>2. \A v \in BOOLEAN, c \in Commands :
        Reply(v, c).state = "reply" /\ Reply(v, c).valid = v /\ Reply(v, c).cmd = c
  BY DEF Reply
<1>3. \A x \in Answers : x.state \in {"failed", "refused", "reply"}
  BY <1>1, <1>2 DEF Answers
<1>4. QED
  BY <1>1, <1>2, <1>3

\* A record count read through a uint8_t is never above the count.
LEMMA CountBound ==
  ASSUME NEW n \in Nat
  PROVE  n % CountMod \in 0..n
BY ConstantsAssumption

\* Removing one record keeps the others.
LEMMA RemoveAtFacts ==
  ASSUME NEW S, NEW s \in Seq(S), NEW k \in 1..Len(s)
  PROVE  /\ RemoveAt(s, k) \in Seq(S)
         /\ Len(RemoveAt(s, k)) = Len(s) - 1
         /\ Stored(s) \subseteq Stored(RemoveAt(s, k)) \cup {s[k]}
<1> DEFINE a == SubSeq(s, 1, k-1)
           b == SubSeq(s, k+1, Len(s))
           u == RemoveAt(s, k)
<1>1. /\ a \in Seq(S) /\ Len(a) = k - 1
      /\ \A i \in 1..k-1 : a[i] = s[i]
  BY SubSeqProperties
<1>2. /\ b \in Seq(S) /\ Len(b) = Len(s) - k
      /\ \A i \in 1..Len(s)-k : b[i] = s[k+i]
  BY SubSeqProperties
<1>3. /\ u \in Seq(S) /\ Len(u) = Len(s) - 1
      /\ \A i \in 1..Len(s)-1 : u[i] = IF i <= k - 1 THEN a[i] ELSE b[i - (k - 1)]
  <2>1. u = a \o b
    BY DEF RemoveAt
  <2> HIDE DEF a, b, u
  <2>2. Len(a) + Len(b) = Len(s) - 1
    BY <1>1, <1>2, LenProperties
  <2>3. /\ a \o b \in Seq(S) /\ Len(a \o b) = Len(a) + Len(b)
        /\ \A i \in 1..Len(a)+Len(b) :
             (a \o b)[i] = IF i <= Len(a) THEN a[i] ELSE b[i - Len(a)]
    BY <1>1, <1>2, ConcatProperties
  <2>4. QED
    BY <1>1, <2>1, <2>2, <2>3
<1>4. ASSUME NEW i \in 1..Len(s), i # k
      PROVE  \E j \in 1..Len(u) : u[j] = s[i]
  <2>1. CASE i < k
    BY <1>1, <1>3, <2>1
  <2>2. CASE i > k
    <3>1. i - 1 \in 1..Len(s)-1 /\ ~(i - 1 <= k - 1) /\ i - 1 - (k - 1) \in 1..Len(s)-k
      BY <2>2
    <3>2. u[i - 1] = b[i - 1 - (k - 1)]
      BY <1>3, <3>1
    <3>3. b[i - 1 - (k - 1)] = s[k + (i - 1 - (k - 1))]
      BY <1>2, <3>1
    <3>4. k + (i - 1 - (k - 1)) = i
      OBVIOUS
    <3>5. QED
      BY <1>3, <3>1, <3>2, <3>3, <3>4
  <2>3. QED
    BY <1>4, <2>1, <2>2
<1>5. QED
  BY <1>3, <1>4 DEF Stored

\* Appending a record within the limit keeps the table and adds the record.
LEMMA AppendFacts ==
  ASSUME NEW S, NEW s \in Seq(S), NEW e \in S, NEW limit \in Nat, Len(s) <= limit
  PROVE  /\ appendRec(s, limit, e) \in Seq(S)
         /\ Len(appendRec(s, limit, e)) <= limit
         /\ Len(appendRec(s, limit, e)) >= Len(s)
         /\ Stored(s) \subseteq Stored(appendRec(s, limit, e))
         /\ Stored(appendRec(s, limit, e)) \subseteq Stored(s) \cup {e}
         /\ Len(s) < limit => e \in Stored(appendRec(s, limit, e))
<1>1. CASE Len(s) < limit
  <2>1. appendRec(s, limit, e) = Append(s, e)
    BY <1>1 DEF appendRec
  <2>2. /\ Append(s, e) \in Seq(S) /\ Len(Append(s, e)) = Len(s) + 1
        /\ Append(s, e)[Len(s) + 1] = e
        /\ \A i \in 1..Len(s) : Append(s, e)[i] = s[i]
    OBVIOUS
  <2>3. QED
    BY <1>1, <2>1, <2>2 DEF Stored
<1>2. CASE ~(Len(s) < limit)
  BY <1>2 DEF appendRec
<1>3. QED
  BY <1>1, <1>2

\* What a decoded answer does to the pending command.
LEMMA DecodeFacts ==
  ASSUME TypeOK, hasCmd /\ cmd = "clear-memory" => ordered,
         \/ GotReply /\ decodeResponse(link.cmd)
         \/ link = Refused /\ decodeResponse("none")
         \/ link = Failed /\ UNCHANGED <<radio, ordered>>,
         UNCHANGED netSetup
  PROVE  /\ cmd' \in Commands /\ hasCmd' \in BOOLEAN /\ ordered' \in BOOLEAN
         /\ hasCmd' /\ cmd' = "clear-memory" => ordered'
<1>1. CASE GotReply /\ decodeResponse(link.cmd)
  <2>1. link.cmd \in Commands
    BY <1>1, LinkStates DEF GotReply, Answered, Answers
  <2>2. ordered \in BOOLEAN
    BY DEF TypeOK
  <2>3. QED
    BY <1>1, <2>1, <2>2 DEF decodeResponse
<1>2. CASE link = Refused /\ decodeResponse("none")
  <2>1. ordered \in BOOLEAN
    BY DEF TypeOK
  <2>2. QED
    BY <1>2, <2>1 DEF decodeResponse, Commands
<1>3. CASE link = Failed /\ UNCHANGED <<radio, ordered>>
  BY <1>3 DEF radio, TypeOK
<1>4. QED
  BY <1>1, <1>2, <1>3

LEMMA InitInv == Init => IInv
<1> SUFFICES ASSUME Init PROVE IInv
  OBVIOUS
<1> USE DEF Init
<1>1. TypeOK
  <2>1. /\ db \in Seq(Tags) /\ Len(db) <= MemberLimit
        /\ log \in Seq(Visit) /\ Len(log) <= LogLimit
        /\ recno \in 1..LogLimit+1
        /\ visits \in 0..MaxVisits /\ losses \in 0..MaxPowerLosses
    BY ConstantsAssumption
  <2>2. QED
    BY <2>1 DEF TypeOK, Commands
<1>2. Control
  BY DEF Control
<1>3. AnswerSound
  BY DEF AnswerSound
<1>4. Admission /\ AuditComplete
  BY DEF Admission, CacheSound, AuditComplete, Stored
<1>5. QED
  BY <1>1, <1>2, <1>3, <1>4 DEF IInv

LEMMA CheckConfigureInv ==
  ASSUME IInv, CheckConfigure
  PROVE  IInv'
<1> USE DEF CheckConfigure, goto, access, radio, tables, world, audit, idle
<1>1. TypeOK'
  BY ConstantsAssumption DEF IInv, TypeOK
<1>2. Control'
  BY LinkStates DEF IInv, Control, searchLocalDB
<1>3. AnswerSound'
  BY LinkStates DEF IInv, AnswerSound, Control
<1>4. Admission' /\ AuditComplete'
  BY DEF IInv, Admission, CacheSound, AuditComplete
<1>5. QED
  BY <1>1, <1>2, <1>3, <1>4 DEF IInv

LEMMA SkipConfigureInv ==
  ASSUME IInv, SkipConfigure
  PROVE  IInv'
<1> USE DEF SkipConfigure, goto, access, radio, tables, world, audit, idle
<1>1. TypeOK'
  BY ConstantsAssumption DEF IInv, TypeOK
<1>2. Control'
  BY LinkStates DEF IInv, Control, searchLocalDB
<1>3. AnswerSound'
  BY LinkStates DEF IInv, AnswerSound, Control
<1>4. Admission' /\ AuditComplete'
  BY DEF IInv, Admission, CacheSound, AuditComplete
<1>5. QED
  BY <1>1, <1>2, <1>3, <1>4 DEF IInv

LEMMA ReadStatusInv ==
  ASSUME IInv, ReadStatus
  PROVE  IInv'
<1> USE DEF ReadStatus, goto, access, radio, tables, world, audit, idle
<1>1. TypeOK'
  BY ConstantsAssumption DEF IInv, TypeOK
<1>2. Control'
  BY LinkStates DEF IInv, Control, searchLocalDB
<1>3. AnswerSound'
  BY LinkStates DEF IInv, AnswerSound, Control
<1>4. Admission' /\ AuditComplete'
  BY DEF IInv, Admission, CacheSound, AuditComplete
<1>5. QED
  BY <1>1, <1>2, <1>3, <1>4 DEF IInv

LEMMA SkipStatusInv ==
  ASSUME IInv, SkipStatus
  PROVE  IInv'
<1> USE DEF SkipStatus, goto, access, radio, tables, world, audit, idle
<1>1. TypeOK'
  BY ConstantsAssumption DEF IInv, TypeOK
<1>2. Control'
  BY LinkStates DEF IInv, Control, searchLocalDB
<1>3. AnswerSound'
  BY LinkStates DEF IInv, AnswerSound, Control
<1>4. Admission' /\ AuditComplete'
  BY DEF IInv, Admission, CacheSound, AuditComplete
<1>5. QED
  BY <1>1, <1>2, <1>3, <1>4 DEF IInv

LEMMA BeatInv ==
  ASSUME IInv, Beat
  PROVE  IInv'
<1> USE DEF Beat, goto, access, radio, tables, world, audit, idle
<1>1. TypeOK'
  BY ConstantsAssumption DEF IInv, TypeOK
<1>2. Control'
  BY LinkStates DEF IInv, Control, searchLocalDB
<1>3. AnswerSound'
  BY LinkStates DEF IInv, AnswerSound, Control
<1>4. Admission' /\ AuditComplete'
  BY DEF IInv, Admission, CacheSound, AuditComplete
<1>5. QED
  BY <1>1, <1>2, <1>3, <1>4 DEF IInv

LEMMA SkipBeatInv ==
  ASSUME IInv, SkipBeat
  PROVE  IInv'
<1> USE DEF SkipBeat, goto, access, radio, tables, world, audit, idle
<1>1. TypeOK'
  BY ConstantsAssumption DEF IInv, TypeOK
<1>2. Control'
  BY LinkStates DEF IInv, Control, searchLocalDB
<1>3. AnswerSound'
  BY LinkStates DEF IInv, AnswerSound, Control
<1>4. Admission' /\ AuditComplete'
  BY DEF IInv, Admission, CacheSound, AuditComplete
<1>5. QED
  BY <1>1, <1>2, <1>3, <1>4 DEF IInv

LEMMA FaultedInv ==
  ASSUME IInv, Faulted
  PROVE  IInv'
<1> USE DEF Faulted, goto, access, radio, tables, world, audit, idle
<1>1. TypeOK'
  BY ConstantsAssumption DEF IInv, TypeOK
<1>2. Control'
  BY LinkStates DEF IInv, Control, searchLocalDB
<1>3. AnswerSound'
  BY LinkStates DEF IInv, AnswerSound, Control
<1>4. Admission' /\ AuditComplete'
  BY DEF IInv, Admission, CacheSound, AuditComplete
<1>5. QED
  BY <1>1, <1>2, <1>3, <1>4 DEF IInv

LEMMA NoTagInv ==
  ASSUME IInv, NoTag
  PROVE  IInv'
<1> USE DEF NoTag, goto, access, radio, tables, world, audit, idle
<1>1. TypeOK'
  BY ConstantsAssumption DEF IInv, TypeOK
<1>2. Control'
  BY LinkStates DEF IInv, Control, searchLocalDB
<1>3. AnswerSound'
  BY LinkStates DEF IInv, AnswerSound, Control
<1>4. Admission' /\ AuditComplete'
  BY DEF IInv, Admission, CacheSound, AuditComplete
<1>5. QED
  BY <1>1, <1>2, <1>3, <1>4 DEF IInv

LEMMA AskServerInv ==
  ASSUME IInv, AskServer
  PROVE  IInv'
<1> USE DEF AskServer, goto, access, radio, tables, world, audit, idle
<1>1. TypeOK'
  BY ConstantsAssumption DEF IInv, TypeOK
<1>2. Control'
  BY LinkStates DEF IInv, Control, searchLocalDB, TypeOK
<1>3. AnswerSound'
  BY LinkStates DEF IInv, AnswerSound, Control
<1>4. Admission' /\ AuditComplete'
  BY DEF IInv, Admission, CacheSound, AuditComplete
<1>5. QED
  BY <1>1, <1>2, <1>3, <1>4 DEF IInv

LEMMA DenyOfflineInv ==
  ASSUME IInv, DenyOffline
  PROVE  IInv'
<1> USE DEF DenyOffline, goto, access, radio, tables, world, audit, idle
<1>1. TypeOK'
  BY ConstantsAssumption DEF IInv, TypeOK
<1>2. Control'
  BY LinkStates DEF IInv, Control, searchLocalDB
<1>3. AnswerSound'
  BY LinkStates DEF IInv, AnswerSound, Control
<1>4. Admission' /\ AuditComplete'
  BY DEF IInv, Admission, CacheSound, AuditComplete
<1>5. QED
  BY <1>1, <1>2, <1>3, <1>4 DEF IInv

LEMMA DenyInv ==
  ASSUME IInv, Deny
  PROVE  IInv'
<1> USE DEF Deny, goto, access, radio, tables, world, audit, idle
<1>1. TypeOK'
  BY ConstantsAssumption DEF IInv, TypeOK
<1>2. Control'
  BY LinkStates DEF IInv, Control, searchLocalDB
<1>3. AnswerSound'
  BY LinkStates DEF IInv, AnswerSound, Control
<1>4. Admission' /\ AuditComplete'
  BY DEF IInv, Admission, CacheSound, AuditComplete
<1>5. QED
  BY <1>1, <1>2, <1>3, <1>4 DEF IInv

LEMMA HoldOpenInv ==
  ASSUME IInv, HoldOpen
  PROVE  IInv'
<1> USE DEF HoldOpen, goto, access, radio, tables, world, audit, idle
<1>1. TypeOK'
  BY ConstantsAssumption DEF IInv, TypeOK
<1>2. Control'
  BY LinkStates DEF IInv, Control, searchLocalDB
<1>3. AnswerSound'
  BY LinkStates DEF IInv, AnswerSound, Control
<1>4. Admission' /\ AuditComplete'
  BY DEF IInv, Admission, CacheSound, AuditComplete
<1>5. QED
  BY <1>1, <1>2, <1>3, <1>4 DEF IInv

LEMMA KeepLockedInv ==
  ASSUME IInv, KeepLocked
  PROVE  IInv'
<1> USE DEF KeepLocked, goto, access, radio, tables, world, audit, idle
<1>1. TypeOK'
  BY ConstantsAssumption DEF IInv, TypeOK
<1>2. Control'
  BY LinkStates DEF IInv, Control, searchLocalDB
<1>3. AnswerSound'
  BY LinkStates DEF IInv, AnswerSound, Control
<1>4. Admission' /\ AuditComplete'
  BY DEF IInv, Admission, CacheSound, AuditComplete
<1>5. QED
  BY <1>1, <1>2, <1>3, <1>4 DEF IInv

LEMMA StartUploadInv ==
  ASSUME IInv, StartUpload
  PROVE  IInv'
<1> USE DEF StartUpload, goto, access, radio, tables, world, audit, idle
<1>1. TypeOK'
  BY ConstantsAssumption DEF IInv, TypeOK
<1>2. Control'
  BY LinkStates DEF IInv, Control, searchLocalDB
<1>3. AnswerSound'
  BY LinkStates DEF IInv, AnswerSound, Control
<1>4. Admission' /\ AuditComplete'
  BY DEF IInv, Admission, CacheSound, AuditComplete
<1>5. QED
  BY <1>1, <1>2, <1>3, <1>4 DEF IInv

LEMMA SkipUploadInv ==
  ASSUME IInv, SkipUpload
  PROVE  IInv'
<1> USE DEF SkipUpload, goto, access, radio, tables, world, audit, idle
<1>1. TypeOK'
  BY ConstantsAssumption DEF IInv, TypeOK
<1>2. Control'
  BY LinkStates DEF IInv, Control, searchLocalDB
<1>3. AnswerSound'
  BY LinkStates DEF IInv, AnswerSound, Control
<1>4. Admission' /\ AuditComplete'
  BY DEF IInv, Admission, CacheSound, AuditComplete
<1>5. QED
  BY <1>1, <1>2, <1>3, <1>4 DEF IInv

LEMMA UploadDoneInv ==
  ASSUME IInv, UploadDone
  PROVE  IInv'
<1> USE DEF UploadDone, goto, access, radio, tables, world, audit, idle
<1>1. TypeOK'
  BY ConstantsAssumption DEF IInv, TypeOK
<1>2. Control'
  BY LinkStates DEF IInv, Control, searchLocalDB
<1>3. AnswerSound'
  BY LinkStates DEF IInv, AnswerSound, Control
<1>4. Admission' /\ AuditComplete'
  BY DEF IInv, Admission, CacheSound, AuditComplete
<1>5. QED
  BY <1>1, <1>2, <1>3, <1>4 DEF IInv

LEMMA ExpireInv ==
  ASSUME IInv, Expire
  PROVE  IInv'
<1> USE DEF Expire, goto, access, radio, tables, world, audit, idle
<1>1. TypeOK'
  BY ConstantsAssumption DEF IInv, TypeOK
<1>2. Control'
  BY LinkStates DEF IInv, Control, searchLocalDB
<1>3. AnswerSound'
  BY LinkStates DEF IInv, AnswerSound, Control
<1>4. Admission' /\ AuditComplete'
  BY DEF IInv, Admission, CacheSound, AuditComplete
<1>5. QED
  BY <1>1, <1>2, <1>3, <1>4 DEF IInv

LEMMA WifiDropsInv ==
  ASSUME IInv, WifiDrops
  PROVE  IInv'
<1> USE DEF WifiDrops, goto, access, radio, tables, world, audit, idle
<1>1. TypeOK'
  BY ConstantsAssumption DEF IInv, TypeOK
<1>2. Control'
  BY LinkStates DEF IInv, Control, searchLocalDB
<1>3. AnswerSound'
  BY LinkStates DEF IInv, AnswerSound, Control
<1>4. Admission' /\ AuditComplete'
  BY DEF IInv, Admission, CacheSound, AuditComplete
<1>5. QED
  BY <1>1, <1>2, <1>3, <1>4 DEF IInv

LEMMA BootDoneInv ==
  ASSUME IInv, BootDone
  PROVE  IInv'
<1> USE DEF BootDone, goto, access, tables, world
<1>1. /\ cmd' \in Commands /\ hasCmd' \in BOOLEAN /\ ordered' \in BOOLEAN
      /\ hasCmd' /\ cmd' = "clear-memory" => ordered'
  BY DecodeFacts DEF IInv, Control
<1>2. TypeOK'
  BY <1>1 DEF IInv, TypeOK
<1>3. Control'
  BY <1>1 DEF IInv, Control
<1>4. AnswerSound'
  BY DEF AnswerSound
<1>5. Admission' /\ AuditComplete'
  BY DEF IInv, Admission, CacheSound, AuditComplete
<1>6. QED
  BY <1>2, <1>3, <1>4, <1>5 DEF IInv

LEMMA AdmitLocalInv ==
  ASSUME IInv, AdmitLocal
  PROVE  IInv'
<1> USE DEF AdmitLocal, goto, setSystemActive, radio, world
<1> DEFINE rec == [tag |-> reader, time |-> visits]
<1>1. reader \in Tags /\ reader \in Stored(db)
  BY DEF IInv, TypeOK, searchLocalDB, Stored
<1>2. rec \in Visit
  BY <1>1, ConstantsAssumption DEF IInv, TypeOK, Control, Visit
<1>3. log \in Seq(Visit) /\ Len(log) <= LogLimit /\ LogLimit \in Nat
  BY ConstantsAssumption DEF IInv, TypeOK
<1> DEFINE new == appendRec(log, LogLimit, rec)
<1>4. /\ log' = new
      /\ owed' = owed \cup {rec}
      /\ unsaved' = unsaved \cup (IF Len(log) < LogLimit THEN {} ELSE {rec})
  OBVIOUS
<1> HIDE DEF rec
<1>5. /\ new \in Seq(Visit) /\ Len(new) <= LogLimit
      /\ Stored(log) \subseteq Stored(new)
      /\ Len(log) < LogLimit => rec \in Stored(new)
  BY <1>2, <1>3, AppendFacts
<1> HIDE DEF new
<1>7. TypeOK'
  BY <1>1, <1>2, <1>4, <1>5 DEF IInv, TypeOK
<1>8. Control'
  BY DEF IInv, Control
<1>9. AnswerSound'
  BY DEF AnswerSound
<1>10. Admission'
  BY <1>1 DEF IInv, Admission, CacheSound
<1>11. AuditComplete'
  BY <1>4, <1>5 DEF IInv, AuditComplete
<1>12. QED
  BY <1>7, <1>8, <1>9, <1>10, <1>11 DEF IInv

\* The verdict on a tag that is not in the table: it may be added, nothing goes.
LEMMA CorrectedFacts ==
  ASSUME IInv, tag \in Tags, ~searchLocalDB(tag), NEW success \in BOOLEAN
  PROVE  /\ Corrected(success) \in Seq(Tags)
         /\ Len(Corrected(success)) <= MemberLimit
         /\ Len(Corrected(success)) >= Len(db)
         /\ Stored(Corrected(success)) \subseteq Stored(db) \cup (IF success THEN {tag} ELSE {})
         /\ \A q, r \in 1..Len(Corrected(success)) :
              Corrected(success)[q] = Corrected(success)[r] => q = r
<1>1. db \in Seq(Tags) /\ Len(db) \in Nat /\ Len(db) <= MemberLimit /\ MemberLimit \in Nat
  BY ConstantsAssumption DEF IInv, TypeOK
<1>2. {r \in 1..countLocalRecords : db[r] = tag} = {}
  <2>1. countLocalRecords \in 0..Len(db)
    BY <1>1, CountBound DEF countLocalRecords
  <2>2. QED
    BY <1>1, <2>1 DEF searchLocalDB
<1>3. Corrected(success) = IF success THEN appendRec(db, MemberLimit, tag) ELSE db
  BY <1>2 DEF Corrected
<1>4. \A q, r \in 1..Len(db) : db[q] = db[r] => q = r
  BY DEF IInv, Admission, CacheSound
<1>5. CASE success
  <2>1. /\ appendRec(db, MemberLimit, tag) \in Seq(Tags)
        /\ Len(appendRec(db, MemberLimit, tag)) <= MemberLimit
        /\ Len(appendRec(db, MemberLimit, tag)) >= Len(db)
        /\ Stored(appendRec(db, MemberLimit, tag)) \subseteq Stored(db) \cup {tag}
    BY <1>1, AppendFacts
  <2>2. CASE Len(db) < MemberLimit
    <3>1. appendRec(db, MemberLimit, tag) = Append(db, tag)
      BY <2>2 DEF appendRec
    <3>2. /\ Len(Append(db, tag)) = Len(db) + 1
          /\ Append(db, tag)[Len(db) + 1] = tag
          /\ \A r \in 1..Len(db) : Append(db, tag)[r] = db[r] /\ db[r] # tag
      BY <1>1 DEF searchLocalDB
    <3>3. \A q, r \in 1..Len(db) + 1 :
            Append(db, tag)[q] = Append(db, tag)[r] => q = r
      BY <1>1, <1>4, <3>2
    <3>4. QED
      BY <1>3, <1>5, <2>1, <3>1, <3>2, <3>3
  <2>3. CASE ~(Len(db) < MemberLimit)
    BY <1>1, <1>3, <1>4, <1>5, <2>3 DEF appendRec
  <2>4. QED
    BY <2>2, <2>3
<1>6. CASE ~success
  BY <1>1, <1>3, <1>4, <1>6
<1>7. QED
  BY <1>5, <1>6

LEMMA LookupDoneInv ==
  ASSUME IInv, LookupDone
  PROVE  IInv' /\ Len(db') >= Len(db)
<1> USE DEF LookupDone, world, setSystemActive
<1>1. tag \in Tags /\ ~searchLocalDB(tag)
  BY DEF IInv, Control
<1>2. /\ cmd' \in Commands /\ hasCmd' \in BOOLEAN /\ ordered' \in BOOLEAN
      /\ hasCmd' /\ cmd' = "clear-memory" => ordered'
  <2>1. \/ GotReply /\ decodeResponse(link.cmd)
        \/ link = Refused /\ decodeResponse("none")
        \/ link = Failed /\ UNCHANGED <<radio, ordered>>
    OBVIOUS
  <2>2. QED
    BY <2>1, DecodeFacts DEF IInv, Control
<1>3. ASSUME NEW v \in BOOLEAN, Verdict(v), v => tag \in confirmed \cup bounced,
             UNCHANGED <<tag, online, reported, netSetup, recno, reader, wifi, world,
                         confirmed, owed, archived, unsaved, bounced>>
      PROVE  IInv' /\ Len(db') >= Len(db)
  <2> DEFINE new == Corrected(v)
  <2>1. /\ new \in Seq(Tags) /\ Len(new) <= MemberLimit /\ Len(new) >= Len(db)
        /\ Stored(new) \subseteq Stored(db) \cup (IF v THEN {tag} ELSE {})
        /\ \A q, r \in 1..Len(new) : new[q] = new[r] => q = r
    BY <1>1, CorrectedFacts
  <2>2. db' = new
    BY <1>3 DEF Verdict
  <2> HIDE DEF new
  <2>3. TypeOK'
    BY <1>1, <1>2, <1>3, <2>1, <2>2 DEF Verdict, IInv, TypeOK
  <2>4. Control'
    BY <1>2, <1>3, LinkStates DEF Verdict, IInv, Control
  <2>5. AnswerSound'
    BY <1>3 DEF Verdict, AnswerSound
  <2>6. Admission' /\ AuditComplete'
    BY <1>3, <2>1, <2>2 DEF Verdict, IInv, Admission, CacheSound, AuditComplete
  <2>7. QED
    BY <2>1, <2>2, <2>3, <2>4, <2>5, <2>6 DEF IInv
<1>4. CASE GotReply
  <2>1. link.valid \in BOOLEAN /\ Verdict(link.valid)
    BY <1>4, LinkStates DEF GotReply, Answered, Answers
  <2>2. link.valid => tag \in confirmed
    <3>1. PICK v \in BOOLEAN, c \in Commands : link = Reply(v, c)
      BY <1>4, LinkStates DEF GotReply, Answered, Answers
    <3>2. link.valid = v
      BY <3>1, LinkStates
    <3>3. CASE v
      BY <3>1, <3>3 DEF IInv, AnswerSound
    <3>4. QED
      BY <3>2, <3>3
  <2>3. QED
    BY <1>3, <2>1, <2>2
<1>5. CASE link = Refused
  <2>1. tag \in bounced
    BY <1>5 DEF IInv, AnswerSound
  <2>2. PICK v \in BOOLEAN : Verdict(v)
    BY <1>5, LinkStates DEF GotReply
  <2>3. QED
    BY <1>3, <2>1, <2>2
<1>6. CASE link = Failed
  <2>1. pc' = "deny" /\ UNCHANGED <<access, radio, tables, ordered>>
    BY <1>6, LinkStates DEF GotReply
  <2>2. TypeOK'
    BY <1>2, <2>1 DEF access, tables, IInv, TypeOK
  <2>3. Control'
    BY <1>2, <2>1 DEF access, tables, IInv, Control
  <2>4. AnswerSound'
    BY <2>1 DEF AnswerSound
  <2>5. Admission' /\ AuditComplete' /\ Len(db') >= Len(db)
    BY <2>1 DEF access, tables, IInv, TypeOK, Admission, CacheSound, AuditComplete
  <2>6. QED
    BY <2>2, <2>3, <2>4, <2>5 DEF IInv
<1>7. QED
  BY <1>4, <1>5, <1>6

LEMMA SendArchiveInv ==
  ASSUME IInv, SendArchive
  PROVE  IInv'
<1> USE DEF SendArchive, goto, access, radio, tables, world, audit
<1>1. recno \in 1..Len(log)
  <2>1. Len(log) \in Nat /\ recno \in Nat /\ recno >= 1
    BY ConstantsAssumption DEF IInv, TypeOK
  <2>2. QED
    BY <2>1, CountBound DEF MoreRecords, countLocalLogRecords
<1>2. TypeOK'
  BY DEF IInv, TypeOK
<1>3. Control'
  BY <1>1, LinkStates DEF IInv, Control
<1>4. AnswerSound'
  BY LinkStates DEF AnswerSound
<1>5. Admission' /\ AuditComplete'
  BY DEF IInv, Admission, CacheSound, AuditComplete
<1>6. QED
  BY <1>2, <1>3, <1>4, <1>5 DEF IInv

LEMMA ArchiveDoneInv ==
  ASSUME IInv, ArchiveDone
  PROVE  IInv'
<1> USE DEF ArchiveDone, goto, access, world
<1>1. /\ cmd' \in Commands /\ hasCmd' \in BOOLEAN /\ ordered' \in BOOLEAN
      /\ hasCmd' /\ cmd' = "clear-memory" => ordered'
  BY DecodeFacts DEF IInv, Control
<1>2. /\ recno \in 1..Len(log)
      /\ log \in Seq(Visit) /\ Len(log) \in Nat /\ Len(log) <= LogLimit
      /\ LogLimit \in Nat
  BY ConstantsAssumption DEF IInv, TypeOK, Control
<1>3. sendData => log[recno] \in archived \cup bounced
  <2>1. CASE link = Refused
    BY <2>1 DEF IInv, AnswerSound
  <2>2. CASE GotReply
    <3>1. PICK v \in BOOLEAN, c \in Commands : link = Reply(v, c)
      BY <2>2, LinkStates DEF GotReply, Answered, Answers
    <3>2. QED
      BY <3>1 DEF IInv, AnswerSound
  <2>3. QED
    BY <2>1, <2>2 DEF sendData
<1> DEFINE rest == RemoveAt(log, recno)
<1>4. /\ rest \in Seq(Visit) /\ Len(rest) = Len(log) - 1
      /\ Stored(log) \subseteq Stored(rest) \cup {log[recno]}
  BY <1>2, RemoveAtFacts
<1>5. log' = IF sendData THEN rest ELSE log
  OBVIOUS
<1> HIDE DEF rest
<1>6. log' \in Seq(Visit) /\ Len(log') <= LogLimit /\ recno' \in 1..LogLimit+1
  BY <1>2, <1>4, <1>5
<1>7. TypeOK'
  BY <1>1, <1>6 DEF IInv, TypeOK
<1>8. Control'
  BY <1>1 DEF IInv, Control
<1>9. AnswerSound'
  BY DEF AnswerSound
<1>10. Admission'
  BY DEF IInv, Admission, CacheSound
<1>11. AuditComplete'
  BY <1>3, <1>4, <1>5 DEF IInv, AuditComplete
<1>12. QED
  BY <1>7, <1>8, <1>9, <1>10, <1>11 DEF IInv

LEMMA ActOnCmdInv ==
  ASSUME IInv, ActOnCmd
  PROVE  IInv' /\ (Len(db') < Len(db) => ordered)
<1> USE DEF ActOnCmd, goto, access, world, clearCmd, ClearMemory
<1>1. ~active /\ relay = 0
  BY DEF IInv, Control
<1>2. CASE hasCmd /\ cmd = "clear-memory"
  <2>1. TypeOK'
    <3>1. db' \in Seq(Tags) /\ Len(db') <= MemberLimit
      BY <1>2, ConstantsAssumption
    <3>2. bounced' \subseteq Tags \cup Visit /\ confirmed' \subseteq Tags
      BY <1>2
    <3>3. ordered' \in BOOLEAN /\ hasCmd' \in BOOLEAN
      BY <1>2
    <3>4. QED
      BY <3>1, <3>2, <3>3 DEF IInv, TypeOK
  <2>2. Control'
    BY <1>2 DEF IInv, Control
  <2>3. Admission'
    BY <1>1, <1>2 DEF IInv, Admission, CacheSound, Stored
  <2>4. AuditComplete'
    BY <1>2 DEF IInv, TypeOK, AuditComplete
  <2>5. QED
    BY <1>2, <2>1, <2>2, <2>3, <2>4 DEF IInv, Control, AnswerSound
<1>3. CASE ~(hasCmd /\ cmd = "clear-memory")
  <2>1. TypeOK'
    BY <1>3 DEF IInv, TypeOK
  <2>2. Control'
    BY <1>3 DEF IInv, Control
  <2>3. Admission' /\ AuditComplete' /\ ~(Len(db') < Len(db))
    BY <1>3 DEF IInv, TypeOK, Admission, CacheSound, AuditComplete
  <2>4. QED
    BY <2>1, <2>2, <2>3 DEF IInv, AnswerSound
<1>4. QED
  BY <1>2, <1>3

LEMMA PresentInv ==
  ASSUME IInv, NEW t \in Tags, Present(t)
  PROVE  IInv'
<1> USE DEF Present, idle, access, radio, tables, audit
<1>1. TypeOK'
  BY ConstantsAssumption DEF IInv, TypeOK
<1>2. Control'
  BY DEF IInv, TypeOK, Control, searchLocalDB
<1>3. AnswerSound' /\ Admission' /\ AuditComplete'
  BY DEF IInv, AnswerSound, Admission, CacheSound, AuditComplete
<1>4. QED
  BY <1>1, <1>2, <1>3 DEF IInv

LEMMA EnrolInv ==
  ASSUME IInv, NEW t \in Tags, Enrol(t)
  PROVE  IInv'
<1> USE DEF Enrol, idle, access, radio, tables, audit
<1>1. TypeOK'
  BY DEF IInv, TypeOK
<1>2. Control'
  BY DEF IInv, Control, searchLocalDB
<1>3. AnswerSound' /\ Admission' /\ AuditComplete'
  BY DEF IInv, AnswerSound, Admission, CacheSound, AuditComplete
<1>4. QED
  BY <1>1, <1>2, <1>3 DEF IInv

\* The record or the tag a request is about, where there is one.
LEMMA RequestFacts ==
  ASSUME IInv
  PROVE  /\ pc = "archive" => Request = {log[recno]} /\ log[recno] \in Visit
         /\ pc = "lookup" => Request = {tag} /\ tag \in Tags
         /\ pc \notin {"archive", "lookup"} => Request = {}
BY DEF Request, IInv, TypeOK, Control

LEMMA ServeInv ==
  ASSUME IInv, Serve
  PROVE  IInv'
<1> USE DEF Serve, idle, access, radio, tables, world
<1>1. PICK c \in Commands : link' = Reply(pc = "lookup" /\ tag \in members, c)
  OBVIOUS
<1> DEFINE v == pc = "lookup" /\ tag \in members
<1>2. v \in BOOLEAN /\ link' = Reply(v, c) /\ link' \in Answers
  <2>1. v \in BOOLEAN
    OBVIOUS
  <2>2. link' = Reply(v, c)
    BY <1>1
  <2> HIDE DEF v
  <2>3. Reply(v, c) \in Answers
    BY <2>1 DEF Answers
  <2>4. QED
    BY <2>1, <2>2, <2>3
<1>3. archived \subseteq archived' /\ confirmed \subseteq confirmed'
  OBVIOUS
<1>4. TypeOK'
  BY <1>2, RequestFacts DEF IInv, TypeOK
<1>5. Control'
  BY <1>2, LinkStates DEF IInv, Control, searchLocalDB
<1>6. AnswerSound'
  <2>1. \A w \in BOOLEAN, d \in Commands : link' = Reply(w, d) => w = v
    BY <1>2, LinkStates
  <2>2. pc = "lookup" /\ v => tag \in confirmed'
    BY RequestFacts
  <2>3. pc = "archive" => log[recno] \in archived'
    BY RequestFacts
  <2>4. link' # Refused
    BY <1>2, LinkStates
  <2> HIDE DEF v
  <2>5. ASSUME pc' = "lookup", NEW d \in Commands, link' = Reply(TRUE, d)
        PROVE  tag' \in confirmed'
    BY <2>1, <2>2, <2>5
  <2>6. QED
    BY <2>3, <2>4, <2>5 DEF AnswerSound
<1>7. Admission' /\ AuditComplete'
  BY <1>3 DEF IInv, Admission, CacheSound, AuditComplete
<1>8. QED
  BY <1>4, <1>5, <1>6, <1>7 DEF IInv

LEMMA RefuseInv ==
  ASSUME IInv, Refuse
  PROVE  IInv'
<1> USE DEF Refuse, idle, access, radio, tables, world
<1>1. TypeOK'
  BY RequestFacts DEF IInv, TypeOK, Answers
<1>2. Control'
  BY LinkStates DEF IInv, Control, searchLocalDB
<1>3. AnswerSound'
  BY RequestFacts, LinkStates DEF AnswerSound
<1>4. Admission' /\ AuditComplete'
  BY DEF IInv, Admission, CacheSound, AuditComplete
<1>5. QED
  BY <1>1, <1>2, <1>3, <1>4 DEF IInv

LEMMA LoseInv ==
  ASSUME IInv, Lose
  PROVE  IInv'
<1> USE DEF Lose, idle, access, radio, tables, world, audit
<1>1. TypeOK'
  BY DEF IInv, TypeOK, Answers
<1>2. Control'
  BY LinkStates DEF IInv, Control, searchLocalDB
<1>3. AnswerSound'
  BY LinkStates DEF AnswerSound
<1>4. Admission' /\ AuditComplete'
  BY DEF IInv, Admission, CacheSound, AuditComplete
<1>5. QED
  BY <1>1, <1>2, <1>3, <1>4 DEF IInv

LEMMA PowerCycleInv ==
  ASSUME IInv, PowerCycle
  PROVE  IInv'
<1> USE DEF PowerCycle, tables
<1>1. TypeOK'
  <2>1. recno' \in 1..LogLimit+1 /\ losses' \in 0..MaxPowerLosses
    BY ConstantsAssumption DEF IInv, TypeOK
  <2>2. link' \in {NoLink, Sent} \cup Answers /\ cmd' \in Commands
    BY DEF Commands
  <2>3. {active', expired', online', reported', netSetup', hasCmd', ordered'} \subseteq BOOLEAN
    OBVIOUS
  <2>4. {user', tag', reader', opener'} \subseteq Tags \cup {None}
    OBVIOUS
  <2>5. /\ db' \in Seq(Tags) /\ Len(db') <= MemberLimit
        /\ log' \in Seq(Visit) /\ Len(log') <= LogLimit
    BY DEF IInv, TypeOK
  <2>6. /\ members' \subseteq Tags /\ confirmed' \subseteq Tags
        /\ visits' \in 0..MaxVisits
        /\ owed' \subseteq Visit /\ archived' \subseteq Visit /\ unsaved' \subseteq Visit
        /\ bounced' \subseteq Tags \cup Visit
    BY DEF IInv, TypeOK, Visit
  <2>7. pc' = "setup" /\ relay' = 0 /\ wifi' = "disconnected"
    OBVIOUS
  <2>8. QED
    BY <2>1, <2>2, <2>3, <2>4, <2>5, <2>6, <2>7 DEF TypeOK
<1>2. Control'
  BY DEF Control
<1>3. AnswerSound'
  BY DEF AnswerSound
<1>4. Admission' /\ AuditComplete'
  BY DEF IInv, Admission, CacheSound, AuditComplete
<1>5. QED
  BY <1>1, <1>2, <1>3, <1>4 DEF IInv

LEMMA StutterInv ==
  ASSUME IInv, UNCHANGED vars
  PROVE  IInv'
<1> USE DEF vars, access, radio, tables, world, audit
<1>1. TypeOK'
  BY DEF IInv, TypeOK
<1>2. Control' /\ AnswerSound'
  BY DEF IInv, Control, AnswerSound, searchLocalDB
<1>3. Admission' /\ AuditComplete'
  BY DEF IInv, Admission, CacheSound, AuditComplete
<1>4. QED
  BY <1>1, <1>2, <1>3 DEF IInv

LEMMA StepInv == IInv /\ [Next]_vars => IInv'
<1> SUFFICES ASSUME IInv, [Next]_vars PROVE IInv'
  OBVIOUS
<1>1. CASE Loop
  BY <1>1, CheckConfigureInv, SkipConfigureInv, ReadStatusInv, SkipStatusInv, BeatInv,
     SkipBeatInv, BootDoneInv, NoTagInv, AdmitLocalInv, AskServerInv, DenyOfflineInv,
     LookupDoneInv, DenyInv, HoldOpenInv, KeepLockedInv, StartUploadInv, SkipUploadInv,
     SendArchiveInv, UploadDoneInv, ArchiveDoneInv, ActOnCmdInv, FaultedInv DEF Loop
<1>2. CASE World
  BY <1>2, PresentInv, EnrolInv, ExpireInv, WifiDropsInv, ServeInv, RefuseInv, LoseInv,
     PowerCycleInv DEF World
<1>3. CASE UNCHANGED vars
  BY <1>3, StutterInv
<1>4. QED
  BY <1>1, <1>2, <1>3 DEF Next

THEOREM Invariant == Spec => []IInv
BY InitInv, StepInv, PTL DEF Spec

\* The variables of the sketch keep their types; the tables never outgrow the
\* EEPROM and uploadLogFiles never reads or deletes beyond the log.
THEOREM TypeCorrect == Spec => []TypeOK
<1>1. IInv => TypeOK
  BY DEF IInv
<1>2. QED
  BY <1>1, Invariant, PTL

\* Nobody is let in whom the server has not called valid since the last wipe.
THEOREM OnlyConfirmedOpensTheorem == Spec => []OnlyConfirmedOpens
<1>1. IInv => OnlyConfirmedOpens
  BY DEF IInv, Admission, OnlyConfirmedOpens
<1>2. QED
  BY <1>1, Invariant, PTL

\* The name on the display is the name of the one let in.
THEOREM WelcomeNamesOpenerTheorem == Spec => []WelcomeNamesOpener
<1>1. IInv => WelcomeNamesOpener
  BY DEF IInv, Control, WelcomeNamesOpener
<1>2. QED
  BY <1>1, Invariant, PTL

\* The member table holds verdicts of the server only, each tag once.
THEOREM CacheSoundTheorem == Spec => []CacheSound
<1>1. IInv => CacheSound
  BY DEF IInv, Admission
<1>2. QED
  BY <1>1, Invariant, PTL

\* No admission record is lost between the log and the server.
THEOREM AuditCompleteTheorem == Spec => []AuditComplete
<1>1. IInv => AuditComplete
  BY DEF IInv
<1>2. QED
  BY <1>1, Invariant, PTL

\* Only a clear-memory command makes the door forget a tag.
THEOREM ForgetsOnlyOnCommandTheorem == Spec => ForgetsOnlyOnCommand
<1>1. IInv /\ [Next]_vars => [Len(db') < Len(db) => ordered]_vars
  <2> SUFFICES ASSUME IInv, Next, Len(db') < Len(db) PROVE ordered
    OBVIOUS
  <2>1. Len(db) \in Nat
    BY DEF IInv, TypeOK
  <2>2. CASE LookupDone
    BY <2>1, <2>2, LookupDoneInv DEF IInv, TypeOK
  <2>3. CASE ActOnCmd
    BY <2>3, ActOnCmdInv
  <2>4. CASE ~LookupDone /\ ~ActOnCmd
    <3>1. UNCHANGED db
      BY <2>4 DEF Next, Loop, World, CheckConfigure, SkipConfigure, ReadStatus,
         SkipStatus, Beat, SkipBeat, Faulted, BootDone, NoTag, AdmitLocal, AskServer,
         DenyOffline, Deny, HoldOpen, KeepLocked, StartUpload, SkipUpload, SendArchive,
         UploadDone, ArchiveDone, Present, Enrol, Expire, WifiDrops, Serve, Refuse,
         Lose, PowerCycle, idle, tables
    <3>2. QED
      BY <2>1, <3>1
  <2>5. QED
    BY <2>2, <2>3, <2>4
<1>2. QED
  BY <1>1, Invariant, PTL DEF Spec, ForgetsOnlyOnCommand
=============================================================================
