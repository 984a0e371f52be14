---------------------------- MODULE SketchesProofs ----------------------------
(***************************************************************************)
(* Three invariants of the example sketches, each with the next one resting *)
(* on it: what the flags of the callback are to the chip (WiFiInv), whose   *)
(* each of the chip's sockets is (SocketInv), and how what a visitor of a   *)
(* server has heard goes on in what waits to be read of it (HeardInv).      *)
(***************************************************************************)
EXTENDS Sketches, SequenceTheorems, TLAPS

Reported == {"CONNECT", "DISCONNECT", "DHCP", "SIMPLE_CONFIG_DONE"}

---------------------------------------------------------------------------
(* The callback, one report after the other and all of them at once.        *)
KeptFrom(f, s, k) == \A i \in k..Len(s) : f \in CC3000_UsynchCallback({f}, s[i])

FlagsAfter(flags, s) ==
    {f \in Flags :
        \/ f \in flags /\ KeptFrom(f, s, 1)
        \/ \E k \in 1..Len(s) : f \in CC3000_UsynchCallback({}, s[k]) /\ KeptFrom(f, s, k + 1)}

LEMMA FlushedIs == \A flags : Flushed(flags) = FlagsAfter(flags, events)
  BY DEF Flushed, FlagsAfter, KeptFrom

\* What one report does to each flag.
LEMMA CallbackIs ==
    ASSUME NEW flags \in SUBSET Flags, NEW e \in Reported
    PROVE  /\ CC3000_UsynchCallback(flags, e) \in SUBSET Flags
           /\ \A f \in Flags :
                f \in CC3000_UsynchCallback(flags, e) <=>
                    \/ f \in flags /\ f \in CC3000_UsynchCallback({f}, e)
                    \/ f \in CC3000_UsynchCallback({}, e)
  <1>1. CASE e = "DISCONNECT"
    BY <1>1 DEF CC3000_UsynchCallback, OnDisconnect, Flags
  <1>2. CASE e # "DISCONNECT"
    <2>1. SetBy[e] \in Flags
      <3>1. CASE e = "CONNECT"
        BY <3>1 DEF SetBy, Flags
      <3>2. CASE e = "DHCP"
        BY <3>2 DEF SetBy, Flags
      <3>3. CASE e = "SIMPLE_CONFIG_DONE"
        BY <3>3 DEF SetBy, Flags
      <3> QED BY <1>2, <3>1, <3>2, <3>3 DEF Reported
    <2>2. \A g : CC3000_UsynchCallback(g, e) = g \cup {SetBy[e]}
      BY <1>2 DEF CC3000_UsynchCallback
    <2> QED BY <2>1, <2>2
  <1> QED BY <1>1, <1>2

LEMMA AfterType == \A flags, s : FlagsAfter(flags, s) \in SUBSET Flags
  BY DEF FlagsAfter

LEMMA AfterNone == ASSUME NEW flags \in SUBSET Flags PROVE FlagsAfter(flags, <<>>) = flags
  BY DEF FlagsAfter, KeptFrom

LEMMA AfterHead ==
    ASSUME NEW flags \in SUBSET Flags, NEW s \in Seq(Reported), s # <<>>
    PROVE  FlagsAfter(CC3000_UsynchCallback(flags, Head(s)), Tail(s)) = FlagsAfter(flags, s)
  <1> DEFINE n == Len(s)
             e == Head(s)
             t == Tail(s)
             now == CC3000_UsynchCallback(flags, e)
             S(f, x) == f \in CC3000_UsynchCallback({}, x)
             K(f, x) == f \in CC3000_UsynchCallback({f}, x)
  <1>1. /\ n \in Nat /\ n > 0 /\ e = s[1] /\ e \in Reported
        /\ Len(t) = n - 1 /\ \A i \in 1..(n - 1) : t[i] = s[i + 1]
    OBVIOUS
  <1>2. \A f \in Flags : f \in now <=> (f \in flags /\ K(f, e)) \/ S(f, e)
    BY <1>1, CallbackIs
  <1>3. ASSUME NEW f, NEW k \in 1..n PROVE KeptFrom(f, t, k) <=> KeptFrom(f, s, k + 1)
    <2> HIDE DEF n, t, e
    <2>1. KeptFrom(f, s, k + 1) <=> \A i \in (k + 1)..n : K(f, s[i])
      BY DEF KeptFrom, n
    <2>2. KeptFrom(f, t, k) <=> \A i \in k..(n - 1) : K(f, s[i + 1])
      <3>1. KeptFrom(f, t, k) <=> \A i \in k..(n - 1) : K(f, t[i])
        BY <1>1 DEF KeptFrom
      <3>2. \A i \in k..(n - 1) : t[i] = s[i + 1]
        BY <1>1
      <3> HIDE DEF K
      <3> QED BY <3>1, <3>2
    <2> HIDE DEF K
    <2>3. ASSUME \A i \in (k + 1)..n : K(f, s[i]), NEW i \in k..(n - 1)
          PROVE  K(f, s[i + 1])
      BY <1>1, <2>3
    <2>4. ASSUME \A i \in k..(n - 1) : K(f, s[i + 1]), NEW i \in (k + 1)..n
          PROVE  K(f, s[i])
      <3>1. i - 1 \in k..(n - 1) /\ (i - 1) + 1 = i
        BY <1>1
      <3> QED BY <2>4, <3>1
    <2> QED BY <2>1, <2>2, <2>3, <2>4
  <1>4. \A f : KeptFrom(f, s, 1) <=> K(f, e) /\ KeptFrom(f, s, 2)
    <2> SUFFICES ASSUME NEW f PROVE KeptFrom(f, s, 1) <=> K(f, e) /\ KeptFrom(f, s, 2)
      OBVIOUS
    <2>1. \A i : i \in 1..n <=> i = 1 \/ i \in 2..n
      BY <1>1
    <2> QED BY <1>1, <2>1 DEF KeptFrom
  <1> HIDE DEF n, e, t, now, S, K
  <1>5. ASSUME NEW f \in Flags
        PROVE  f \in FlagsAfter(now, t) <=> f \in FlagsAfter(flags, s)
    <2>1. f \in FlagsAfter(now, t) <=>
            \/ f \in now /\ KeptFrom(f, s, 2)
            \/ \E k \in 1..(n - 1) : S(f, s[k + 1]) /\ KeptFrom(f, s, k + 2)
      <3>1. KeptFrom(f, t, 1) <=> KeptFrom(f, s, 2)
        BY <1>1, <1>3
      <3>2. \A k \in 1..(n - 1) :
              (S(f, t[k]) /\ KeptFrom(f, t, k + 1)) <=> (S(f, s[k + 1]) /\ KeptFrom(f, s, k + 2))
        <4> SUFFICES ASSUME NEW k \in 1..(n - 1)
              PROVE (S(f, t[k]) /\ KeptFrom(f, t, k + 1)) <=> (S(f, s[k + 1]) /\ KeptFrom(f, s, k + 2))
          OBVIOUS
        <4>1. k + 1 \in 1..n /\ (k + 1) + 1 = k + 2 /\ t[k] = s[k + 1]
          BY <1>1
        <4> QED BY <1>3, <4>1
      <3>3. f \in FlagsAfter(now, t) <=>
              \/ f \in now /\ KeptFrom(f, t, 1)
              \/ \E k \in 1..(n - 1) : S(f, t[k]) /\ KeptFrom(f, t, k + 1)
        BY <1>1 DEF FlagsAfter, S
      <3> QED BY <3>1, <3>2, <3>3
    <2>2. f \in FlagsAfter(flags, s) <=>
            \/ f \in flags /\ KeptFrom(f, s, 1)
            \/ \E k \in 1..n : S(f, s[k]) /\ KeptFrom(f, s, k + 1)
      BY DEF FlagsAfter, S, n
    <2>3. (\E k \in 1..n : S(f, s[k]) /\ KeptFrom(f, s, k + 1)) <=>
            \/ S(f, e) /\ KeptFrom(f, s, 2)
            \/ \E k \in 1..(n - 1) : S(f, s[k + 1]) /\ KeptFrom(f, s, k + 2)
      <3>1. ASSUME NEW k \in 1..n, S(f, s[k]), KeptFrom(f, s, k + 1)
            PROVE  \/ S(f, e) /\ KeptFrom(f, s, 2)
                   \/ \E j \in 1..(n - 1) : S(f, s[j + 1]) /\ KeptFrom(f, s, j + 2)
        <4>1. CASE k = 1
          BY <1>1, <3>1, <4>1
        <4>2. CASE k # 1
          <5>1. k - 1 \in 1..(n - 1) /\ (k - 1) + 1 = k /\ (k - 1) + 2 = k + 1
            BY <1>1, <4>2
          <5> QED BY <3>1, <5>1
        <4> QED BY <4>1, <4>2
      <3>2. ASSUME S(f, e), KeptFrom(f, s, 2)
            PROVE  \E k \in 1..n : S(f, s[k]) /\ KeptFrom(f, s, k + 1)
        <4>1. 1 \in 1..n /\ 1 + 1 = 2
          BY <1>1
        <4> QED BY <1>1, <3>2, <4>1
      <3>3. ASSUME NEW j \in 1..(n - 1), S(f, s[j + 1]), KeptFrom(f, s, j + 2)
            PROVE  \E k \in 1..n : S(f, s[k]) /\ KeptFrom(f, s, k + 1)
        <4>1. j + 1 \in 1..n /\ (j + 1) + 1 = j + 2
          BY <1>1
        <4> QED BY <3>3, <4>1
      <3> QED BY <3>1, <3>2, <3>3
    <2> QED BY <1>2, <1>4, <2>1, <2>2, <2>3
  <1>6. FlagsAfter(now, t) = FlagsAfter(flags, s)
    <2>1. FlagsAfter(now, t) \in SUBSET Flags /\ FlagsAfter(flags, s) \in SUBSET Flags
      BY AfterType
    <2> QED BY <1>5, <2>1
  <1> QED BY <1>6 DEF now, e, t

LEMMA AfterAppend ==
    ASSUME NEW flags \in SUBSET Flags, NEW s \in Seq(Reported), NEW e \in Reported
    PROVE  FlagsAfter(flags, Append(s, e)) = CC3000_UsynchCallback(FlagsAfter(flags, s), e)
  <1> DEFINE n == Len(s)
             t == Append(s, e)
             now == CC3000_UsynchCallback(FlagsAfter(flags, s), e)
             S(f, x) == f \in CC3000_UsynchCallback({}, x)
             K(f, x) == f \in CC3000_UsynchCallback({f}, x)
  <1>1. n \in Nat /\ Len(t) = n + 1 /\ t[n + 1] = e /\ \A i \in 1..n : t[i] = s[i]
    OBVIOUS
  <1>2. now \in SUBSET Flags /\ \A f \in Flags : f \in now <=> (f \in FlagsAfter(flags, s) /\ K(f, e)) \/ S(f, e)
    BY AfterType, CallbackIs
  <1> HIDE DEF n, t, now, S, K
  <1>3. ASSUME NEW f, NEW k \in 1..(n + 1)
        PROVE  KeptFrom(f, t, k) <=> KeptFrom(f, s, k) /\ K(f, e)
    <2>1. KeptFrom(f, s, k) <=> \A i \in k..n : K(f, s[i])
      BY DEF KeptFrom, n, K
    <2>2. KeptFrom(f, t, k) <=> \A i \in k..(n + 1) : K(f, t[i])
      BY <1>1 DEF KeptFrom, K
    <2>3. \A i : i \in k..(n + 1) <=> i \in k..n \/ i = n + 1
      BY <1>1
    <2>4. \A i \in k..n : t[i] = s[i]
      BY <1>1
    <2> QED BY <1>1, <2>1, <2>2, <2>3, <2>4
  <1>4. \A f : KeptFrom(f, t, n + 2)
    BY <1>1 DEF KeptFrom
  <1>5. ASSUME NEW f \in Flags
        PROVE  f \in FlagsAfter(flags, t) <=> f \in now
    <2>1. f \in FlagsAfter(flags, t) <=>
            \/ f \in flags /\ KeptFrom(f, t, 1)
            \/ \E k \in 1..(n + 1) : S(f, t[k]) /\ KeptFrom(f, t, k + 1)
      BY <1>1 DEF FlagsAfter, S
    <2>2. f \in FlagsAfter(flags, s) <=>
            \/ f \in flags /\ KeptFrom(f, s, 1)
            \/ \E k \in 1..n : S(f, s[k]) /\ KeptFrom(f, s, k + 1)
      BY DEF FlagsAfter, S, n
    <2>3. KeptFrom(f, t, 1) <=> KeptFrom(f, s, 1) /\ K(f, e)
      BY <1>1, <1>3
    <2>4. \A k \in 1..n : KeptFrom(f, t, k + 1) <=> KeptFrom(f, s, k + 1) /\ K(f, e)
      <3> TAKE k \in 1..n
      <3>1. k + 1 \in 1..(n + 1)
        BY <1>1
      <3> QED BY <1>3, <3>1
    <2>5. \A k : k \in 1..(n + 1) <=> k \in 1..n \/ k = n + 1
      BY <1>1
    <2>6. (n + 1) + 1 = n + 2
      BY <1>1
    <2>7. (\E k \in 1..(n + 1) : S(f, t[k]) /\ KeptFrom(f, t, k + 1)) <=>
            \/ (\E k \in 1..n : S(f, s[k]) /\ KeptFrom(f, s, k + 1)) /\ K(f, e)
            \/ S(f, e)
      <3>1. ASSUME NEW k \in 1..(n + 1), S(f, t[k]), KeptFrom(f, t, k + 1)
            PROVE  \/ (\E j \in 1..n : S(f, s[j]) /\ KeptFrom(f, s, j + 1)) /\ K(f, e)
                   \/ S(f, e)
        <4>1. CASE k \in 1..n
          BY <1>1, <2>4, <3>1, <4>1
        <4>2. CASE k = n + 1
          BY <1>1, <3>1, <4>2
        <4> QED BY <2>5, <4>1, <4>2
      <3>2. ASSUME NEW j \in 1..n, S(f, s[j]), KeptFrom(f, s, j + 1), K(f, e)
            PROVE  \E k \in 1..(n + 1) : S(f, t[k]) /\ KeptFrom(f, t, k + 1)
        BY <1>1, <2>4, <2>5, <3>2
      <3>3. ASSUME S(f, e)
            PROVE  \E k \in 1..(n + 1) : S(f, t[k]) /\ KeptFrom(f, t, k + 1)
        <4>1. n + 1 \in 1..(n + 1) /\ S(f, t[n + 1]) /\ KeptFrom(f, t, (n + 1) + 1)
          BY <1>1, <1>4, <2>5, <2>6, <3>3
        <4> QED BY <4>1
      <3> QED BY <3>1, <3>2, <3>3
    <2> QED BY <1>2, <2>1, <2>2, <2>3, <2>7
  <1>6. FlagsAfter(flags, t) = now
    BY <1>2, <1>5, AfterType
  <1> QED BY <1>6 DEF now, t

---------------------------------------------------------------------------
(* The flags and the chip.                                                 *)
ChipType ==
    /\ bits \in SUBSET Flags /\ events \in Seq(Reported)
    /\ ap \in {"off", "scanning", "connecting", "connected", "disconnected"}
    /\ lease \in BOOLEAN /\ policy \in {"command", "profiles"}
    /\ profile \in BOOLEAN /\ smart \in BOOLEAN

Follows ==
    /\ ("IsConnected" \in Flushed(bits)) <=> (ap = "connected")
    /\ ("HasDHCP" \in Flushed(bits)) <=> lease

LeaseOfAp == lease => ap = "connected"

ChipInv == ChipType /\ Follows /\ LeaseOfAp

\* The chip has not been on a network since it was started.
Silent ==
    /\ ap \in {"off", "disconnected"} /\ ~lease
    /\ bits \subseteq {"IsSmartConfigFinished"}
    /\ events \in Seq({"SIMPLE_CONFIG_DONE"})

LEMMA FlushedType == Flushed(bits) \in SUBSET Flags
  BY FlushedIs, AfterType

LEMMA FlushedNext == Flushed(bits)' = FlagsAfter(bits', events')
  BY DEF Flushed, FlagsAfter, KeptFrom

LEMMA NoReports == <<>> \in Seq(Reported) /\ <<>> \in Seq({"SIMPLE_CONFIG_DONE"})
  OBVIOUS

\* A command that leaves the chip's connection as it is.
LEMMA AskFollows ==
    ASSUME ChipInv, Ask, UNCHANGED <<ap, lease>>
    PROVE  bits' \in SUBSET Flags /\ events' \in Seq(Reported) /\ Follows' /\ LeaseOfAp'
  <1>1. bits' = Flushed(bits) /\ events' = <<>> /\ bits' \in SUBSET Flags
    BY FlushedType DEF Ask
  <1>2. Flushed(bits)' = Flushed(bits)
    BY <1>1, FlushedNext, AfterNone
  <1> QED BY <1>1, <1>2, NoReports DEF ChipInv, Follows, LeaseOfAp

\* The interrupt.
LEMMA HandleFollows == ASSUME ChipInv, Handle PROVE ChipInv'
  <1>1. /\ events # <<>> /\ bits' = CC3000_UsynchCallback(bits, Head(events))
        /\ events' = Tail(events) /\ UNCHANGED <<ap, lease, policy, profile, smart>>
    BY DEF Handle, chip
  <1>2. events \in Seq(Reported) /\ Head(events) \in Reported /\ Tail(events) \in Seq(Reported)
    BY <1>1 DEF ChipInv, ChipType
  <1>3. bits \in SUBSET Flags /\ bits' \in SUBSET Flags
    BY <1>1, <1>2, CallbackIs DEF ChipInv, ChipType
  <1>4. Flushed(bits)' = Flushed(bits)
    BY <1>1, <1>2, <1>3, FlushedIs, FlushedNext, AfterHead
  <1> QED BY <1>1, <1>2, <1>3, <1>4 DEF ChipInv, ChipType, Follows, LeaseOfAp

\* A start, of a chip that had nothing to say of a connection.
LEMMA StartFollows ==
    ASSUME ChipInv, Silent, UNCHANGED bits,
           NEW p \in {"command", "profiles"}, NEW q \in BOOLEAN, wlan_start(p, q)
    PROVE  ChipInv'
  <1>1. /\ ap' \in {"scanning", "disconnected"} /\ lease' = FALSE /\ smart' = FALSE
        /\ policy' = p /\ profile' = q /\ events' = <<>>
    BY DEF wlan_start
  <1>2. Flushed(bits)' = bits
    BY <1>1, FlushedNext, AfterNone DEF ChipInv, ChipType
  <1>3. "IsConnected" \notin bits /\ "HasDHCP" \notin bits
    BY DEF Silent
  <1>4. ChipType'
    BY <1>1, NoReports DEF ChipInv, ChipType
  <1>5. Follows' /\ LeaseOfAp'
    BY <1>1, <1>2, <1>3 DEF Follows, LeaseOfAp
  <1> QED BY <1>4, <1>5 DEF ChipInv

\* A command that ends the connection, if there is one.
LEMMA LeaveFollows ==
    ASSUME ChipInv, AskAndLeave, ap' \in {"scanning", "disconnected"}, lease' = FALSE
    PROVE  bits' \in SUBSET Flags /\ events' \in Seq(Reported) /\ Follows' /\ LeaseOfAp'
  <1>1. events' = <<>> /\ Flushed(bits) \in SUBSET Flags
    BY FlushedType DEF AskAndLeave
  <1>2. "IsConnected" \notin bits' /\ "HasDHCP" \notin bits' /\ bits' \in SUBSET Flags
    <2>1. CASE ap = "connected"
      <3>1. bits' = Flushed(bits) \ {"IsConnected", "HasDHCP"}
        BY <2>1 DEF AskAndLeave, CC3000_UsynchCallback, OnDisconnect
      <3> QED BY <1>1, <3>1
    <2>2. CASE ap # "connected"
      <3>1. bits' = Flushed(bits) /\ ~lease
        BY <2>2 DEF AskAndLeave, ChipInv, LeaseOfAp
      <3> QED BY <1>1, <2>2, <3>1 DEF ChipInv, Follows
    <2> QED BY <2>1, <2>2
  <1>3. Flushed(bits)' = bits'
    BY <1>1, <1>2, FlushedNext, AfterNone
  <1> QED BY <1>1, <1>2, <1>3, NoReports DEF Follows, LeaseOfAp

\* What the chip reports, the flags are to be.
LEMMA ReportIs ==
    ASSUME ChipInv, NEW e \in Reported, Reports(e), UNCHANGED bits
    PROVE  /\ events' \in Seq(Reported)
           /\ Flushed(bits)' = CC3000_UsynchCallback(Flushed(bits), e)
  <1>1. events' = Append(events, e) /\ events \in Seq(Reported) /\ bits \in SUBSET Flags
    BY DEF Reports, ChipInv, ChipType
  <1>2. events' \in Seq(Reported)
    BY <1>1
  <1>3. Flushed(bits)' = FlagsAfter(bits, Append(events, e))
    BY <1>1, FlushedNext
  <1>4. FlagsAfter(bits, Append(events, e)) = CC3000_UsynchCallback(FlagsAfter(bits, events), e)
    BY <1>1, AfterAppend
  <1> QED BY <1>2, <1>3, <1>4, FlushedIs

LEMMA FindsApFollows == ASSUME ChipInv, FindsAp PROVE ChipInv'
  <1>1. UNCHANGED <<bits, lease, policy, profile, smart, events>> /\ ap = "scanning" /\ ap' = "connecting"
    BY DEF FindsAp, host
  <1>2. Flushed(bits)' = Flushed(bits)
    BY <1>1, FlushedIs, FlushedNext
  <1> QED BY <1>1, <1>2 DEF ChipInv, ChipType, Follows, LeaseOfAp

LEMMA AssociatesFollows == ASSUME ChipInv, Associates PROVE ChipInv'
  <1>1. /\ UNCHANGED <<bits, lease, policy, profile, smart>> /\ ap = "connecting" /\ ap' = "connected"
        /\ Reports("CONNECT")
    BY DEF Associates, host
  <1>2. events' \in Seq(Reported) /\ Flushed(bits)' = Flushed(bits) \cup {"IsConnected"}
    BY <1>1, ReportIs DEF Reported, CC3000_UsynchCallback, SetBy
  <1> QED BY <1>1, <1>2 DEF ChipInv, ChipType, Follows, LeaseOfAp

LEMMA LeaseFollows == ASSUME ChipInv, GetsLease PROVE ChipInv'
  <1>1. /\ UNCHANGED <<bits, ap, policy, profile, smart>> /\ ap = "connected" /\ lease' = TRUE
        /\ Reports("DHCP")
    BY DEF GetsLease, host
  <1>2. events' \in Seq(Reported) /\ Flushed(bits)' = Flushed(bits) \cup {"HasDHCP"}
    BY <1>1, ReportIs DEF Reported, CC3000_UsynchCallback, SetBy
  <1> QED BY <1>1, <1>2 DEF ChipInv, ChipType, Follows, LeaseOfAp

LEMMA LossFollows == ASSUME ChipInv, LosesAp PROVE ChipInv'
  <1>1. /\ UNCHANGED <<bits, policy, profile, smart>> /\ ap' \in {"scanning", "disconnected"}
        /\ lease' = FALSE /\ Reports("DISCONNECT")
    BY DEF LosesAp, host
  <1>2. events' \in Seq(Reported) /\ Flushed(bits)' = Flushed(bits) \ {"IsConnected", "HasDHCP"}
    BY <1>1, ReportIs DEF Reported, CC3000_UsynchCallback, OnDisconnect
  <1> QED BY <1>1, <1>2 DEF ChipInv, ChipType, Follows, LeaseOfAp

LEMMA AppFollows == ASSUME ChipInv, HearsApp PROVE ChipInv'
  <1>1. /\ UNCHANGED <<bits, ap, lease, policy>> /\ smart' = FALSE /\ profile' = TRUE
        /\ Reports("SIMPLE_CONFIG_DONE")
    BY DEF HearsApp, host
  <1>2. events' \in Seq(Reported) /\ Flushed(bits)' = Flushed(bits) \cup {"IsSmartConfigFinished"}
    BY <1>1, ReportIs DEF Reported, CC3000_UsynchCallback, SetBy
  <1> QED BY <1>1, <1>2 DEF ChipInv, ChipType, Follows, LeaseOfAp

---------------------------------------------------------------------------
(* Where the sketch is, and whether the chip has been started.             *)
Placed == {"loop", "begin", "join", "connect", "joining", "joined", "dhcp", "address", "display",
           "halt", "configure", "leave", "prefix", "smart", "connecting", "lease", "done"}
          \cup DOMAIN Compared

ControlType ==
    /\ program \in Programs
    /\ program \in Examples \cup {"door"} => pc \in Placed
    /\ initialised \in BOOLEAN /\ wifi_initialized = (initialised /\ program = "door")
    /\ wifi_connected \in BOOLEAN /\ dhcp_lookup_complete \in BOOLEAN
    /\ networkSetup \in BOOLEAN /\ online \in BOOLEAN
    /\ mishaps \in 0..Mishaps

\* Without a chip that was started the sketch does nothing with it.
Resting == {"loop", "begin", "halt"} \cup DOMAIN Compared

Started == pc \in Resting \/ initialised

\* Each sketch but the door's starts the chip once.
Unbegun == pc = "begin" /\ program # "door" => ~initialised

\* What the chip may not have been told before it is started again.
Configuring == {"configure", "leave", "prefix", "smart"}

StillSilent == (~initialised \/ (program \in Examples /\ pc \in Configuring)) => Silent

ControlInv == ControlType /\ Started /\ Unbegun /\ StillSilent

WiFiInv == ChipInv /\ ControlInv

---------------------------------------------------------------------------
LEMMA ComparedAre == DOMAIN Compared = {"status1", "status2", "status3", "status4"}
  BY DEF Compared

LEMMA MishapIs ==
    ASSUME mishaps \in 0..Mishaps, Mishap \/ TimesOut \/ UNCHANGED mishaps
    PROVE  mishaps' \in 0..Mishaps
  BY WiFiAssumption DEF Mishap, TimesOut

LEMMA WiFiInvTypes == WiFiInv => FlagsFollowChip
  BY DEF WiFiInv, ControlInv, ChipInv, ChipType, ControlType, Follows, FlagsFollowChip, TypeOK,
         Placed, Reported

LEMMA WiFiStart == Init => WiFiInv
  <1> SUFFICES ASSUME Init PROVE WiFiInv
    OBVIOUS
  <1>1. ChipType /\ LeaseOfAp /\ Silent
    BY NoReports DEF Init, ChipType, LeaseOfAp, Silent
  <1>2. Flushed(bits) = {}
    BY FlushedIs, AfterNone DEF Init
  <1>3. Follows
    BY <1>2 DEF Init, Follows
  <1>4. ControlType
    <2>1. mishaps \in 0..Mishaps
      BY WiFiAssumption DEF Init
    <2>2. pc \in {"loop", "begin"}
      BY DEF Init
    <2>3. wifi_initialized = (initialised /\ program = "door")
      BY Zenon DEF Init
    <2> QED BY <2>1, <2>2, <2>3 DEF Init, ControlType, Placed
  <1>5. Started /\ Unbegun
    BY DEF Init, Started, Unbegun, Resting
  <1> QED BY <1>1, <1>3, <1>4, <1>5 DEF WiFiInv, ChipInv, ControlInv, StillSilent

\* A step of a sketch that leaves chip and flags alone.
LEMMA ChipAlone ==
    ASSUME ChipInv, UNCHANGED <<bits, chip, events>>
    PROVE  ChipInv' /\ (Silent => Silent')
  <1>1. UNCHANGED <<bits, events, ap, lease, policy, profile, smart>>
    BY DEF chip
  <1>2. Flushed(bits)' = Flushed(bits)
    BY <1>1, FlushedIs, FlushedNext
  <1> QED BY <1>1, <1>2 DEF ChipInv, ChipType, Follows, LeaseOfAp, Silent

LEMMA AskKeeps ==
    ASSUME ChipInv, Ask, UNCHANGED chip
    PROVE  ChipInv' /\ (Silent => Silent')
  <1>1. UNCHANGED <<ap, lease, policy, profile, smart>>
    BY DEF chip
  <1>2. ChipInv'
    BY <1>1, AskFollows DEF ChipInv, ChipType
  <1>3. ASSUME Silent PROVE Silent'
    <2>1. bits' = Flushed(bits) /\ events' = <<>> /\ bits' \subseteq Flags
      BY FlushedType DEF Ask
    <2>2. "IsConnected" \notin bits' /\ "HasDHCP" \notin bits'
      BY <1>3, <2>1 DEF ChipInv, Follows, Silent
    <2> QED BY <1>1, <1>3, <2>1, <2>2, NoReports DEF Silent, Flags
  <1> QED BY <1>2, <1>3

---------------------------------------------------------------------------
(* BBWiFi and the SmartConfig examples, step by step.                      *)
\* A step of the sketch that leaves the chip alone, or asks it for something.
LEMMA SketchKeeps ==
    ASSUME WiFiInv, ControlType', Ask \/ UNCHANGED <<bits, events>>, UNCHANGED <<chip, initialised, program>>,
           pc' \in Resting \/ initialised, pc' # "begin" \/ program = "door",
           pc' \in Configuring => pc \in Configuring
    PROVE  WiFiInv'
  <1>1. ChipInv' /\ (Silent => Silent')
    BY ChipAlone, AskKeeps DEF WiFiInv
  <1>2. StillSilent'
    BY <1>1 DEF WiFiInv, ControlInv, StillSilent
  <1>3. Started' /\ Unbegun'
    BY DEF Started, Unbegun
  <1> QED BY <1>1, <1>2, <1>3 DEF WiFiInv, ControlInv

LEMMA DoorAsks ==
    ASSUME WiFiInv, program = "door", Ask \/ UNCHANGED <<bits, events>>,
           UNCHANGED <<chip, initialised, program, wifi_initialized>>,
           wifi_connected' \in BOOLEAN, dhcp_lookup_complete' \in BOOLEAN, networkSetup' \in BOOLEAN,
           online' \in BOOLEAN, Mishap \/ TimesOut \/ UNCHANGED mishaps,
           pc' \in Placed \ Configuring, pc' \in Resting \/ initialised
    PROVE  WiFiInv'
  <1>1. mishaps' \in 0..Mishaps
    BY MishapIs DEF WiFiInv, ControlInv, ControlType
  <1>2. ControlType'
    BY <1>1 DEF WiFiInv, ControlInv, ControlType
  <1> QED BY <1>2, SketchKeeps

LEMMA DoorStarts ==
    ASSUME WiFiInv, Door("begin"), ~wifi_initialized, begin(FALSE),
           \/ initialised' = TRUE /\ wifi_initialized' = TRUE /\ pc' = "join"
           \/ UNCHANGED <<initialised, wifi_initialized>> /\ pc' = "status1",
           Mishap \/ UNCHANGED mishaps,
           UNCHANGED <<wifi_connected, dhcp_lookup_complete, networkSetup, online>>
    PROVE  WiFiInv'
  <1>1. program = "door" /\ program' = program /\ ~initialised /\ Silent
    BY DEF Door, WiFiInv, ControlInv, ControlType, StillSilent
  <1>2. wlan_start("command", FALSE) /\ UNCHANGED bits
    BY DEF begin
  <1>3. ChipInv'
    BY <1>1, <1>2, StartFollows DEF WiFiInv
  <1>4. Silent'
    BY <1>1, <1>2, NoReports DEF Silent, wlan_start
  <1>5. mishaps' \in 0..Mishaps
    BY MishapIs DEF WiFiInv, ControlInv, ControlType
  <1>6. ControlType'
    BY <1>1, <1>5, ComparedAre DEF WiFiInv, ControlInv, ControlType, Placed
  <1>7. Started' /\ Unbegun' /\ StillSilent'
    BY <1>1, <1>4, ComparedAre DEF Started, Unbegun, StillSilent, Resting
  <1> QED BY <1>3, <1>6, <1>7 DEF WiFiInv, ControlInv

LEMMA DoorKeeps ==
    ASSUME WiFiInv,
           \/ checkConfigure \/ NotYet \/ Initialise \/ Join \/ Connect \/ WaitToJoin \/ JoinedOrAgain
           \/ WaitForAddress \/ AddressOrTimeout \/ displayConnectionDetails \/ isNetworkReady
    PROVE  WiFiInv'
  <1> USE DEF Door, bbwifi, ChipInv, ControlType, WiFiInv, ControlInv
  <1>0. /\ Resting = {"loop", "begin", "halt", "status1", "status2", "status3", "status4"}
        /\ Resting \subseteq Placed /\ Resting \cap Configuring = {}
        /\ {"join", "connect", "joining", "joined", "dhcp", "address", "display"}
             \subseteq Placed \ Configuring
    BY ComparedAre DEF Resting, Placed, Configuring
  <1>1. CASE checkConfigure \/ NotYet
    BY <1>0, <1>1, DoorAsks DEF checkConfigure, NotYet
  <1>2. CASE Initialise
    <2>1. CASE wifi_initialized
      BY <1>0, <1>2, <2>1, DoorAsks DEF Initialise
    <2>2. CASE ~wifi_initialized
      BY <1>2, <2>2, DoorStarts DEF Initialise
    <2> QED BY <2>1, <2>2
  <1>3. CASE Join \/ WaitToJoin \/ JoinedOrAgain \/ WaitForAddress \/ AddressOrTimeout
    <2>1. CASE Join
      BY <1>0, <2>1, DoorAsks DEF Join, Started
    <2>2. CASE WaitToJoin
      BY <1>0, <2>2, DoorAsks DEF WaitToJoin, Started
    <2>3. CASE JoinedOrAgain
      BY <1>0, <2>3, DoorAsks DEF JoinedOrAgain, Started
    <2>4. CASE WaitForAddress
      BY <1>0, <2>4, DoorAsks DEF WaitForAddress, Started
    <2>5. CASE AddressOrTimeout
      BY <1>0, <2>5, DoorAsks DEF AddressOrTimeout, Started, checkDHCP
    <2> QED BY <1>3, <2>1, <2>2, <2>3, <2>4, <2>5
  <1>4. CASE displayConnectionDetails
    BY <1>0, <1>4, DoorAsks DEF displayConnectionDetails, Started
  <1>5. CASE isNetworkReady
    <2>1. /\ pc' \in Resting \ {"begin"} /\ program = "door" /\ program' = program
          /\ online' \in BOOLEAN /\ networkSetup' \in BOOLEAN /\ wifi_connected' \in BOOLEAN
          /\ UNCHANGED <<initialised, wifi_initialized, dhcp_lookup_complete, chip, mishaps>> /\ Ask
      <3>1. PICK here \in DOMAIN Compared :
               /\ Door(here)
               /\ IF getStatus = Compared[here]
                  THEN /\ pc' = "loop"
                       /\ online' = (here = "status4")
                       /\ IF here = "status1" THEN Noticed ELSE UNCHANGED <<networkSetup, wifi_connected>>
                  ELSE /\ pc' = NextRead[here]
                       /\ online' = IF here = "status4" THEN FALSE ELSE online
                       /\ UNCHANGED <<networkSetup, wifi_connected>>
        BY <1>5 DEF isNetworkReady
      <3>2. NextRead[here] \in Resting \ {"begin"}
        BY <1>0, ComparedAre DEF NextRead
      <3>3. pc' \in Resting \ {"begin"}
        BY <1>0, <3>1, <3>2
      <3>4. online' \in BOOLEAN
        BY <3>1
      <3>5. networkSetup' \in BOOLEAN /\ wifi_connected' \in BOOLEAN
        BY <3>1 DEF Noticed
      <3> QED BY <1>5, <3>1, <3>3, <3>4, <3>5 DEF isNetworkReady
    <2> QED BY <1>0, <2>1, DoorAsks
  <1>6. CASE Connect
    <2>1. /\ program = "door" /\ program' = program /\ initialised /\ UNCHANGED <<initialised, bbwifi>>
          /\ connectToAP
      BY <1>0, <1>6 DEF Connect, Started
    <2>2. CASE Ask /\ Mishap /\ pc' = "joined" /\ UNCHANGED chip
      BY <1>0, <2>1, <2>2, DoorAsks
    <2>3. CASE wlan_connect /\ pc' = "joining" /\ UNCHANGED mishaps
      <3>1. ChipInv'
        BY <2>3, LeaveFollows DEF wlan_connect, ChipType
      <3>2. ControlType'
        BY <1>0, <2>1, <2>3
      <3>3. Started' /\ Unbegun' /\ StillSilent'
        BY <2>1, <2>3 DEF Started, Unbegun, StillSilent, Configuring
      <3> QED BY <3>1, <3>2, <3>3
    <2> QED BY <2>1, <2>2, <2>3 DEF connectToAP
  <1> QED BY <1>1, <1>2, <1>3, <1>4, <1>5, <1>6

LEMMA ExamplesKeep ==
    ASSUME WiFiInv,
           \/ setup \/ ForgetProfiles \/ LeaveNetwork \/ startSmartConfig \/ ConfigDone
           \/ WaitToConnect \/ ShowDetails
    PROVE  WiFiInv'
  <1> USE DEF Example, bbwifi, ChipInv, ControlType, WiFiInv, ControlInv
  <1>0. /\ Resting = {"loop", "begin", "halt", "status1", "status2", "status3", "status4"}
        /\ Resting \cup Configuring \cup {"connecting", "lease", "done"} \subseteq Placed
        /\ "halt" \notin Configuring /\ "begin" \notin Configuring
    BY ComparedAre DEF Resting, Placed, Configuring
  <1>1. /\ program \in Examples /\ program' = program /\ program # "door"
        /\ UNCHANGED <<wifi_initialized, wifi_connected, dhcp_lookup_complete, networkSetup, online>>
    BY DEF setup, ForgetProfiles, LeaveNetwork, startSmartConfig, ConfigDone, WaitToConnect,
           ShowDetails, Examples
  <1>2. ASSUME mishaps' \in 0..Mishaps, pc' \in Placed, initialised' \in BOOLEAN
        PROVE  ControlType'
    BY <1>1, <1>2
  <1>3. ASSUME Halts, Mishap \/ TimesOut PROVE WiFiInv'
    BY <1>0, <1>1, <1>2, <1>3, MishapIs, SketchKeeps DEF Halts
  <1>4. CASE setup
    <2>1. CASE Fails
      BY <1>3, <2>1 DEF Fails
    <2>2. CASE /\ begin(program = "reconnect") /\ initialised' = TRUE /\ UNCHANGED mishaps
               /\ pc' = IF program = "create" THEN "configure" ELSE "connecting"
      <3>1. ~initialised /\ Silent
        BY <1>1, <1>4 DEF setup, Unbegun, StillSilent
      <3>2. UNCHANGED bits /\ \E p \in {"command", "profiles"} : \E q \in BOOLEAN : wlan_start(p, q)
        BY <2>2 DEF begin, ChipType
      <3>3. ChipInv'
        BY <3>1, <3>2, StartFollows
      <3>4. program = "create" => Silent'
        BY <2>2, <3>1, NoReports DEF begin, wlan_start, Silent
      <3>5. ControlType' /\ Started' /\ Unbegun'
        BY <1>0, <1>2, <2>2 DEF Started, Unbegun, Configuring
      <3>6. StillSilent'
        BY <1>1, <2>2, <3>4 DEF StillSilent, Configuring, Examples
      <3> QED BY <3>3, <3>5, <3>6
    <2> QED BY <1>4, <2>1, <2>2 DEF setup
  <1>5. CASE ForgetProfiles
    <2>1. CASE Fails
      BY <1>3, <2>1 DEF Fails
    <2>2. CASE /\ bits' = Flushed({}) /\ events' = <<>> /\ policy' = "command" /\ profile' = FALSE
               /\ pc' = "leave" /\ UNCHANGED <<initialised, ap, lease, smart, mishaps>>
      <3>1. Silent /\ pc = "configure"
        BY <1>1, <1>5 DEF ForgetProfiles, StillSilent, Configuring
      <3>2. bits' = FlagsAfter({}, events) /\ bits' \in SUBSET Flags
        BY <2>2, FlushedIs, AfterType
      <3>3. "IsConnected" \notin bits' /\ "HasDHCP" \notin bits'
        <4>1. \A f : f \in FlagsAfter({}, events) =>
                 \E k \in 1..Len(events) : f \in CC3000_UsynchCallback({}, events[k])
          BY DEF FlagsAfter
        <4>2. \A k \in 1..Len(events) : events[k] = "SIMPLE_CONFIG_DONE"
          BY <3>1 DEF Silent
        <4>3. CC3000_UsynchCallback({}, "SIMPLE_CONFIG_DONE") = {"IsSmartConfigFinished"}
          BY DEF CC3000_UsynchCallback, SetBy
        <4> QED BY <3>2, <4>1, <4>2, <4>3
      <3>4. Silent'
        BY <2>2, <3>1, <3>2, <3>3, NoReports DEF Silent, Flags
      <3>5. ChipType' /\ LeaseOfAp'
        BY <2>2, <3>2, NoReports DEF ChipType, LeaseOfAp
      <3>6. Flushed(bits)' = bits'
        BY <2>2, <3>2, FlushedNext, AfterNone
      <3>7. Follows'
        BY <2>2, <3>1, <3>3, <3>6 DEF Follows, Silent
      <3>8. ControlType' /\ Started' /\ Unbegun' /\ StillSilent'
        BY <1>0, <1>2, <2>2, <3>1, <3>4 DEF Started, Unbegun, StillSilent, Configuring
      <3> QED BY <3>5, <3>7, <3>8
    <2> QED BY <1>5, <2>1, <2>2 DEF ForgetProfiles
  <1>6. CASE LeaveNetwork
    <2>1. pc = "leave" /\ Silent /\ initialised
      BY <1>0, <1>1, <1>6 DEF LeaveNetwork, StillSilent, Configuring, Started
    <2>2. ~checkConnected
      BY <2>1 DEF checkConnected, Silent
    <2>3. CASE Fails
      BY <1>3, <2>3 DEF Fails
    <2>4. CASE wlan_start("command", FALSE) /\ UNCHANGED <<bits, mishaps>> /\ pc' = "prefix"
      <3>1. ChipInv'
        BY <2>1, <2>4, StartFollows
      <3>2. Silent'
        BY <2>1, <2>4, NoReports DEF wlan_start, Silent
      <3>3. initialised' = initialised
        BY <1>6 DEF LeaveNetwork
      <3>4. ControlType' /\ Started' /\ Unbegun' /\ StillSilent'
        BY <1>0, <1>2, <2>1, <2>4, <3>2, <3>3 DEF Started, Unbegun, StillSilent, Configuring
      <3> QED BY <3>1, <3>4
    <2> QED BY <1>6, <2>2, <2>3, <2>4 DEF LeaveNetwork
  <1>7. CASE startSmartConfig
    <2>1. CASE Fails
      BY <1>3, <2>1 DEF Fails
    <2>2. CASE Ask /\ smart' = TRUE /\ pc' = "smart"
               /\ UNCHANGED <<initialised, ap, lease, policy, profile, mishaps>>
      <3>1. Silent /\ initialised
        BY <1>0, <1>1, <1>7 DEF startSmartConfig, StillSilent, Configuring, Started
      <3>2. ChipInv'
        BY <2>2, AskFollows DEF ChipType
      <3>3. Silent'
        <4>1. bits' = Flushed(bits) /\ events' = <<>> /\ bits' \subseteq Flags
          BY <2>2, FlushedType DEF Ask
        <4>2. "IsConnected" \notin bits' /\ "HasDHCP" \notin bits'
          BY <3>1, <4>1 DEF Follows, Silent
        <4> QED BY <2>2, <3>1, <4>1, <4>2, NoReports DEF Silent, Flags
      <3>4. ControlType' /\ Started' /\ Unbegun' /\ StillSilent'
        BY <1>0, <1>2, <2>2, <3>1, <3>3 DEF Started, Unbegun, StillSilent, Configuring
      <3> QED BY <3>2, <3>4
    <2> QED BY <1>7, <2>1, <2>2 DEF startSmartConfig
  <1>8. CASE ConfigDone
    <2>1. CASE Fails
      BY <1>3, <2>1 DEF Fails
    <2>2. CASE wlan_start("profiles", profile) /\ pc' = "connecting" /\ UNCHANGED <<initialised, bits, mishaps>>
      <3>1. Silent /\ initialised
        BY <1>0, <1>1, <1>8 DEF ConfigDone, StillSilent, Configuring, Started
      <3>2. ChipInv'
        BY <2>2, <3>1, StartFollows DEF ChipType
      <3>3. ControlType' /\ Started' /\ Unbegun' /\ StillSilent'
        BY <1>0, <1>2, <2>2, <3>1 DEF Started, Unbegun, StillSilent, Configuring
      <3> QED BY <3>2, <3>3
    <2> QED BY <1>8, <2>1, <2>2 DEF ConfigDone
  <1>9. CASE WaitToConnect
    <2>1. CASE TimesOut /\ Halts
      BY <1>3, <2>1
    <2>2. CASE pc' = "lease" /\ UNCHANGED <<initialised, bits, chip, events, mishaps>>
      <3>1. initialised
        BY <1>0, <1>9 DEF WaitToConnect, Started
      <3> QED BY <1>0, <1>1, <1>2, <2>2, <3>1, SketchKeeps DEF Configuring
    <2> QED BY <1>9, <2>1, <2>2 DEF WaitToConnect
  <1>10. CASE ShowDetails
    <2>1. initialised /\ disconnect /\ pc' = "done" /\ UNCHANGED <<initialised, mishaps>>
      BY <1>0, <1>10 DEF ShowDetails, Started
    <2>2. ChipInv'
      BY <2>1, LeaveFollows DEF disconnect, ChipType
    <2>3. ControlType' /\ Started' /\ Unbegun' /\ StillSilent'
      BY <1>0, <1>2, <2>1 DEF Started, Unbegun, StillSilent, Configuring
    <2> QED BY <2>2, <2>3
  <1> QED BY <1>4, <1>5, <1>6, <1>7, <1>8, <1>9, <1>10

\* The chip and the interrupt.
LEMMA ChipKeeps ==
    ASSUME WiFiInv, Handle \/ FindsAp \/ Associates \/ GetsLease \/ LosesAp \/ HearsApp
    PROVE  WiFiInv'
  <1>1. ChipInv'
    BY HandleFollows, FindsApFollows, AssociatesFollows, LeaseFollows, LossFollows, AppFollows
       DEF WiFiInv
  <1>2. UNCHANGED <<program, pc, initialised, bbwifi>> /\ (LosesAp \/ UNCHANGED mishaps)
    BY DEF Handle, FindsAp, Associates, GetsLease, LosesAp, HearsApp, host
  <1>3. mishaps' \in 0..Mishaps
    BY <1>2, MishapIs DEF LosesAp, WiFiInv, ControlInv, ControlType
  <1>4. ControlType' /\ Started' /\ Unbegun'
    BY <1>2, <1>3 DEF WiFiInv, ControlInv, ControlType, Started, Unbegun, bbwifi
  <1>5. ASSUME Silent PROVE Silent'
    <2>1. CASE Handle
      <3>1. /\ events # <<>> /\ bits' = CC3000_UsynchCallback(bits, Head(events))
            /\ events' = Tail(events) /\ UNCHANGED <<ap, lease>>
        BY <2>1 DEF Handle, chip
      <3>2. Head(events) = "SIMPLE_CONFIG_DONE" /\ events' \in Seq({"SIMPLE_CONFIG_DONE"})
        BY <1>5, <3>1 DEF Silent
      <3>3. bits' = bits \cup {"IsSmartConfigFinished"}
        BY <3>1, <3>2 DEF CC3000_UsynchCallback, SetBy
      <3> QED BY <1>5, <3>1, <3>2, <3>3 DEF Silent
    <2>2. CASE HearsApp
      <3>1. events' = Append(events, "SIMPLE_CONFIG_DONE") /\ UNCHANGED <<bits, ap, lease>>
        BY <2>2 DEF HearsApp, Reports, host
      <3>2. events' \in Seq({"SIMPLE_CONFIG_DONE"})
        BY <1>5, <3>1 DEF Silent
      <3> QED BY <1>5, <3>1, <3>2 DEF Silent
    <2>3. ~FindsAp /\ ~Associates /\ ~GetsLease /\ ~LosesAp
      BY <1>5 DEF Silent, FindsAp, Associates, GetsLease, LosesAp
    <2> QED BY <2>1, <2>2, <2>3
  <1>6. StillSilent'
    BY <1>2, <1>5 DEF WiFiInv, ControlInv, StillSilent
  <1> QED BY <1>1, <1>4, <1>6 DEF WiFiInv, ControlInv

---------------------------------------------------------------------------
(* The sketches of the library, and their plans.                           *)
Errands == {"web", "geo", "build", "ntp", "internet", "tweet"}

Ahead == {"version", "mac", "scan", "profiles", "join", "dhcp", "details", "resolve", "page",
          "ping", "leave", "sntp", "round", "time", "listen", "end"}

LEMMA PlanPrograms ==
    DOMAIN Plan = {"web", "geo", "build", "ntp", "internet", "tweet", "echo", "chat"}
  BY DEF Plan

\* A sketch that goes on is at a stage of its plan, after the first.
LEMMA PlanGoesOn ==
    ASSUME program \in DOMAIN Plan, NEW here, GoesOn(here)
    PROVE  /\ pc' \in Ahead
           /\ program \in Servers => pc' \in {"join", "dhcp", "details", "listen"}
  <1>1. PICK i \in 1..(Len(Plan[program]) - 1) : pc' = Plan[program][i + 1]
    BY DEF GoesOn
  <1>2. CASE program \in {"web", "geo"}
    <2>1. Plan[program] = <<"begin", "join", "dhcp", "details", "resolve", "page", "leave", "end">>
      BY <1>2 DEF Plan, WebClient, GeoLocation
    <2> QED BY <1>1, <1>2, <2>1 DEF Ahead, Servers
  <1>3. CASE program = "build"
    <2>1. Plan[program] = <<"begin", "version", "mac", "scan", "profiles", "join", "dhcp", "details",
                            "resolve", "ping", "leave", "end">>
      BY <1>3 DEF Plan, buildtest
    <2> QED BY <1>1, <1>3, <2>1 DEF Ahead, Servers
  <1>4. CASE program = "ntp"
    <2>1. Plan[program] = <<"begin", "version", "profiles", "join", "dhcp", "sntp", "leave", "end">>
      BY <1>4 DEF Plan, ntpTest
    <2> QED BY <1>1, <1>4, <2>1 DEF Ahead, Servers
  <1>5. CASE program = "internet"
    <2>1. Plan[program] = <<"begin", "version", "mac", "profiles", "join", "dhcp", "details", "round">>
      BY <1>5 DEF Plan, InternetTime
    <2> QED BY <1>1, <1>5, <2>1 DEF Ahead, Servers
  <1>6. CASE program = "tweet"
    <2>1. Plan[program] = <<"begin", "version", "profiles", "join", "dhcp", "details", "time">>
      BY <1>6 DEF Plan, SendTweet
    <2> QED BY <1>1, <1>6, <2>1 DEF Ahead, Servers
  <1>7. CASE program \in {"echo", "chat"}
    <2>1. Plan[program] = <<"begin", "join", "dhcp", "details", "listen">>
      BY <1>7 DEF Plan, EchoServer, ChatServer
    <2> QED BY <1>1, <1>7, <2>1 DEF Ahead, Servers
  <1> QED BY <1>2, <1>3, <1>4, <1>5, <1>6, <1>7, PlanPrograms

\* A step of such a sketch, which has none of the places of the others.
LEMMA PlanControl ==
    ASSUME WiFiInv, program \in DOMAIN Plan, UNCHANGED <<program, bbwifi, initialised>>, initialised,
           Mishap \/ TimesOut \/ UNCHANGED mishaps, pc' # "begin"
    PROVE  ControlInv'
  <1>1. program \notin Examples \cup {"door"}
    BY PlanPrograms DEF Examples
  <1>2. mishaps' \in 0..Mishaps
    BY MishapIs DEF WiFiInv, ControlInv, ControlType
  <1>3. ControlType'
    BY <1>1, <1>2 DEF WiFiInv, ControlInv, ControlType, bbwifi
  <1> QED BY <1>1, <1>3 DEF ControlInv, Started, Unbegun, StillSilent

LEMMA PlanStarted ==
    ASSUME WiFiInv, program \in DOMAIN Plan, pc \notin Resting
    PROVE  initialised
  BY DEF WiFiInv, ControlInv, Started

\* A sketch that fails rests, with the chip as it was.
LEMMA PlanFails ==
    ASSUME WiFiInv, program \in DOMAIN Plan, UNCHANGED <<program, bbwifi>>, Fails
    PROVE  WiFiInv'
  <1>1. program \notin Examples \cup {"door"}
    BY PlanPrograms DEF Examples
  <1>2. mishaps' \in 0..Mishaps
    BY MishapIs DEF WiFiInv, ControlInv, ControlType, Fails
  <1>3. ControlType'
    BY <1>1, <1>2 DEF WiFiInv, ControlInv, ControlType, bbwifi, Fails, Halts
  <1> QED BY <1>1, <1>3, SketchKeeps DEF Fails, Halts, Resting, Configuring

\* A step of such a sketch, with what it makes of the chip.
LEMMA PlanKeeps ==
    ASSUME WiFiInv, program \in DOMAIN Plan, pc \notin Resting,
           UNCHANGED <<program, bbwifi, initialised>>, Mishap \/ TimesOut \/ UNCHANGED mishaps,
           pc' # "begin",
           ChipInv' \/ Quiet \/ (Ask /\ UNCHANGED chip)
    PROVE  WiFiInv'
  <1>1. ChipInv'
    BY ChipAlone, AskKeeps DEF WiFiInv, Quiet
  <1>2. ControlInv'
    BY PlanStarted, PlanControl
  <1> QED BY <1>1, <1>2 DEF WiFiInv

LEMMA NotResting ==
    \A p : p \notin {"loop", "begin", "halt", "status1", "status2", "status3", "status4"} => p \notin Resting
  BY ComparedAre DEF Resting

LEMMA PlanBegins == ASSUME WiFiInv, Begins PROVE WiFiInv'
  <1>1. pc = "begin" /\ program \in DOMAIN Plan /\ UNCHANGED <<program, bbwifi>>
    BY DEF Begins, At
  <1>2. CASE Fails
    BY <1>1, <1>2, PlanFails
  <1>3. CASE begin(FALSE) /\ initialised' = TRUE /\ GoesOn("begin") /\ UNCHANGED mishaps
    <2>1. program \notin Examples \cup {"door"}
      BY <1>1, PlanPrograms DEF Examples
    <2>2. ~initialised /\ Silent
      BY <1>1, <2>1 DEF WiFiInv, ControlInv, ControlType, Unbegun, StillSilent
    <2>3. UNCHANGED bits /\ wlan_start("command", FALSE)
      BY <1>3 DEF begin
    <2>4. ChipInv'
      BY <2>2, <2>3, StartFollows DEF WiFiInv
    <2>5. pc' \in Ahead
      BY <1>1, <1>3, PlanGoesOn
    <2>6. ControlType' /\ Started' /\ Unbegun' /\ StillSilent'
      BY <1>1, <1>3, <2>1, <2>5
         DEF WiFiInv, ControlInv, ControlType, Started, Unbegun, StillSilent, Ahead, bbwifi
    <2> QED BY <2>4, <2>6 DEF WiFiInv, ControlInv
  <1> QED BY <1>2, <1>3 DEF Begins

LEMMA NetworkStageKeeps == ASSUME WiFiInv, NetworkStage PROVE WiFiInv'
  <1>1. \A here : At(here) => pc = here /\ program \in DOMAIN Plan /\ UNCHANGED <<program, bbwifi>>
    BY DEF At
  <1>2. ASSUME NEW here, program \in DOMAIN Plan, GoesOn(here) PROVE pc' # "begin"
    BY <1>2, PlanGoesOn DEF Ahead
  <1>3. CASE Begins
    BY <1>3, PlanBegins
  <1>4. CASE ChecksVersion
    <2>1. CASE Fails
      BY <1>1, <1>4, <2>1, PlanFails DEF ChecksVersion
    <2>2. CASE Ask /\ GoesOn("version") /\ UNCHANGED <<initialised, chip, mishaps>>
      BY <1>1, <1>2, <1>4, <2>2, PlanKeeps, NotResting DEF ChecksVersion
    <2> QED BY <1>4, <2>1, <2>2 DEF ChecksVersion
  <1>5. CASE displayMACAddress \/ listSSIDResults \/ ping
    <2>1. PICK here \in {"mac", "scan", "ping"} : Looks(here)
      BY <1>5 DEF displayMACAddress, listSSIDResults, ping
    <2> QED BY <1>1, <1>2, <2>1, PlanKeeps, NotResting DEF Looks
  <1>6. CASE deleteProfiles
    <2>1. CASE Fails
      BY <1>1, <1>6, <2>1, PlanFails DEF deleteProfiles
    <2>2. CASE /\ Ask /\ policy' = "command" /\ profile' = FALSE /\ GoesOn("profiles")
               /\ UNCHANGED <<initialised, ap, lease, smart, mishaps>>
      <3>1. ChipInv'
        BY <2>2, AskFollows DEF WiFiInv, ChipInv, ChipType
      <3> QED BY <1>1, <1>2, <1>6, <2>2, <3>1, PlanKeeps, NotResting DEF deleteProfiles
    <2> QED BY <1>6, <2>1, <2>2 DEF deleteProfiles
  <1>7. CASE Joins
    <2>1. CASE Mishap /\ Ask /\ pc' = "joined" /\ UNCHANGED chip
      BY <1>1, <1>7, <2>1, PlanKeeps, NotResting DEF Joins
    <2>2. CASE wlan_connect /\ pc' = "joining" /\ UNCHANGED mishaps
      <3>1. ChipInv'
        BY <2>2, LeaveFollows DEF wlan_connect, WiFiInv, ChipInv, ChipType
      <3> QED BY <1>1, <1>7, <2>2, <3>1, PlanKeeps, NotResting DEF Joins
    <2> QED BY <1>7, <2>1, <2>2 DEF Joins, connectToAP
  <1>8. CASE WaitsToJoin
    BY <1>1, <1>8, PlanKeeps, NotResting DEF WaitsToJoin, Quiet
  <1>9. CASE JoinsAgain
    BY <1>1, <1>2, <1>9, PlanKeeps, NotResting DEF JoinsAgain, Quiet
  <1>10. CASE Requests
    BY <1>1, <1>2, <1>10, PlanKeeps, NotResting DEF Requests, Quiet
  <1>11. CASE ShowsDetails
    BY <1>1, <1>2, <1>11, PlanKeeps, NotResting DEF ShowsDetails
  <1>12. CASE Resolves
    BY <1>1, <1>2, <1>12, PlanKeeps, NotResting DEF Resolves, Quiet
  <1>13. CASE Leaves
    <2>1. ChipInv'
      BY <1>13, LeaveFollows DEF Leaves, disconnect, WiFiInv, ChipInv, ChipType
    <2> QED BY <1>1, <1>2, <1>13, <2>1, PlanKeeps, NotResting DEF Leaves
  <1> QED BY <1>3, <1>4, <1>5, <1>6, <1>7, <1>8, <1>9, <1>10, <1>11, <1>12, <1>13 DEF NetworkStage

\* What an errand or a server may do to the counter of what went wrong.
LEMMA GivesUpOnIs == ASSUME NEW s, GivesUpOn(s) PROVE Mishap \/ UNCHANGED mishaps
  BY DEF GivesUpOn

LEMMA ErrandKeeps == ASSUME WiFiInv, Errand PROVE WiFiInv'
  <1>1. \A here : At(here) => pc = here /\ program \in DOMAIN Plan /\ UNCHANGED <<program, bbwifi>>
    BY DEF At
  <1>2. ASSUME NEW here, program \in DOMAIN Plan, GoesOn(here) PROVE pc' # "begin"
    BY <1>2, PlanGoesOn DEF Ahead
  <1>3. Quiet => initialised' = initialised
    BY DEF Quiet
  <1>4. CASE ConnectsTCP
    BY <1>1, <1>3, <1>4, PlanKeeps, NotResting DEF ConnectsTCP, Connects, Creates, ConnectFails
  <1>5. CASE ChecksConnection
    BY <1>1, <1>3, <1>5, PlanKeeps, NotResting DEF ChecksConnection, TriesAgain
  <1>6. CASE SendsRequest
    BY <1>1, <1>3, <1>6, PlanKeeps, NotResting DEF SendsRequest, Asks
  <1>7. CASE ReadsPage
    BY <1>1, <1>3, <1>7, PlanKeeps, NotResting DEF ReadsPage
  <1>8. CASE StopsReading
    BY <1>1, <1>3, <1>8, GivesUpOnIs, PlanKeeps, NotResting DEF StopsReading
  <1>9. CASE ClosesPage
    BY <1>1, <1>2, <1>3, <1>9, PlanKeeps, NotResting, PlanGoesOn DEF ClosesPage, AfterPage, Ahead
  <1>10. CASE FindsTimeServer
    BY <1>1, <1>3, <1>10, PlanKeeps, NotResting DEF FindsTimeServer
  <1>11. CASE ConnectsUDP
    BY <1>1, <1>3, <1>11, PlanKeeps, NotResting DEF ConnectsUDP, Connects, Creates, ConnectFails
  <1>12. CASE AsksTime
    BY <1>1, <1>3, <1>12, PlanKeeps, NotResting DEF AsksTime, Asks, TriesAgain
  <1>13. CASE TimeOrNot
    BY <1>1, <1>3, <1>13, GivesUpOnIs, PlanKeeps, NotResting DEF TimeOrNot
  <1>14. CASE Timed
    BY <1>1, <1>3, <1>14, PlanKeeps, NotResting DEF Timed
  <1>15. CASE Round \/ HourLater
    BY <1>1, <1>3, <1>15, PlanKeeps, NotResting DEF Round, HourLater, PollsTime
  <1>16. CASE OpensNTP
    BY <1>1, <1>2, <1>3, <1>16, PlanKeeps, NotResting DEF OpensNTP, Creates
  <1>17. CASE SNTP_GetTime
    BY <1>1, <1>3, <1>17, PlanKeeps, NotResting DEF SNTP_GetTime, Asks
  <1>18. CASE HearsNTP
    BY <1>1, <1>2, <1>3, <1>18, GivesUpOnIs, PlanKeeps, NotResting DEF HearsNTP
  <1> QED BY <1>4, <1>5, <1>6, <1>7, <1>8, <1>9, <1>10, <1>11, <1>12, <1>13, <1>14, <1>15, <1>16,
             <1>17, <1>18 DEF Errand

LEMMA ServerKeeps == ASSUME WiFiInv, ServerStep PROVE WiFiInv'
  <1> USE NotResting
  <1>1. /\ program \in DOMAIN Plan /\ UNCHANGED <<program, bbwifi, initialised>> /\ Quiet
        /\ pc \in {"listen", "bind", "accept", "accepting", "find", "client", "echo", "write"}
    BY PlanPrograms DEF ServerStep, ServerBegin, Listens, SlotTaken, SlotFree, accept, NobodyWaits,
       FindsNone, FindsOne, ClientGone, ReadsByte, Echo, WriteToSlot, SkipsSlot, Serving, Servers,
       wifiRest, Quiet
  <1>2. (Mishap \/ UNCHANGED mishaps) /\ pc' # "begin"
    BY DEF ServerStep, ServerBegin, Listens, SlotTaken, SlotFree, accept, NobodyWaits, GivesUp,
       FindsNone, FindsOne, ClientGone, ReadsByte, Echo, WriteToSlot, SkipsSlot, NextSlot
  <1> QED BY <1>1, <1>2, PlanKeeps

LEMMA PeerKeeps == ASSUME WiFiInv, PeerSends \/ PeerLeaves PROVE WiFiInv'
  <1>1. UNCHANGED <<program, pc, initialised, bbwifi, bits, chip, events>>
        /\ (Mishap \/ UNCHANGED mishaps)
    BY GivesUpOnIs DEF PeerSends, PeerLeaves, vars
  <1>2. mishaps' \in 0..Mishaps
    BY <1>1, MishapIs DEF WiFiInv, ControlInv, ControlType
  <1>3. ChipInv' /\ (Silent => Silent')
    BY <1>1, ChipAlone DEF WiFiInv
  <1>4. ControlType'
    BY <1>1, <1>2 DEF WiFiInv, ControlInv, ControlType, bbwifi
  <1>5. Started' /\ Unbegun' /\ StillSilent'
    BY <1>1, <1>3 DEF WiFiInv, ControlInv, Started, Unbegun, StillSilent
  <1> QED BY <1>3, <1>4, <1>5 DEF WiFiInv, ControlInv

---------------------------------------------------------------------------
(* FlagsFollowChip.                                                        *)
LEMMA WiFiNext == WiFiInv /\ [SketchesNext]_all => WiFiInv'
  <1> SUFFICES ASSUME WiFiInv, [SketchesNext]_all PROVE WiFiInv'
    OBVIOUS
  <1>1. CASE Next
    BY <1>1, DoorKeeps, ExamplesKeep, ChipKeeps DEF Next, Sketch
  <1>2. CASE NetworkStage
    BY <1>2, NetworkStageKeeps
  <1>3. CASE Errand
    BY <1>3, ErrandKeeps
  <1>4. CASE ServerStep
    BY <1>4, ServerKeeps
  <1>5. CASE PeerSends \/ PeerLeaves
    BY <1>5, PeerKeeps
  <1>6. CASE UNCHANGED all
    <2>1. UNCHANGED <<program, pc, initialised, bbwifi, bits, chip, events, mishaps>>
      BY <1>6 DEF all, vars
    <2>2. ChipInv' /\ (Silent => Silent')
      BY <2>1, ChipAlone DEF WiFiInv
    <2>3. ControlType'
      BY <2>1 DEF WiFiInv, ControlInv, ControlType, bbwifi
    <2>4. Started' /\ Unbegun' /\ StillSilent'
      BY <2>1, <2>2 DEF WiFiInv, ControlInv, Started, Unbegun, StillSilent
    <2> QED BY <2>2, <2>3, <2>4 DEF WiFiInv, ControlInv
  <1> QED BY <1>1, <1>2, <1>3, <1>4, <1>5, <1>6 DEF SketchesNext

(* Whatever the chip, the access point, the interrupt and the sketches do:  *)
(* once the callback has seen every report, the flags checkConnected and    *)
(* checkDHCP read are what the chip is.  A start of the chip forgets        *)
(* reports, but no sketch starts it again after it had a connection.        *)
THEOREM FlagsFollowChipTheorem == SketchesSpec => []FlagsFollowChip
  <1>1. SketchInit => WiFiInv
    BY WiFiStart DEF SketchInit
  <1>2. WiFiInv /\ [SketchesNext]_all => WiFiInv'
    BY WiFiNext
  <1>3. WiFiInv => FlagsFollowChip
    BY WiFiInvTypes
  <1> QED BY <1>1, <1>2, <1>3, PTL DEF SketchesSpec

---------------------------------------------------------------------------
(* The sockets: what each of them is, and whose.                           *)
Letter == [who : Nat, n : Nat]
States == {"free", "created", "open", "udp", "listening", "left"}
Connection == [state : States, who : Nat, wire : Seq(Letter), data : Seq(Letter), heard : Seq(Letter)]
Client == [socket : SocketIds \cup {None}, rx : Seq(Letter)]

SocketType ==
    /\ conn \in [SocketIds -> Connection] /\ clients \in [1..Slots -> Client]
    /\ closed_sockets \in SUBSET SocketIds

ServerType ==
    /\ listenSocket \in SocketIds \cup {None} /\ at \in 1..Slots /\ ref \in 1..Slots
    /\ said \in Seq(Letter) /\ visits \in Nat
    /\ pc \in {"echo", "write"} => said # <<>>

State(s) == conn[s].state

\* Whose a socket is shows in its state.
Owned ==
    /\ \A i \in 1..Slots : Socket(i) # None =>
          /\ State(Socket(i)) \in {"open", "udp", "left"}
          /\ \A j \in 1..Slots : Socket(j) = Socket(i) => i = j
    /\ listenSocket # None => State(listenSocket) = "listening"
    /\ \A s \in SocketIds : State(s) \in {"free", "created"} \/ Held(s)

\* A client sketch has one socket while it is on an errand.
OnErrand == {"connected", "request", "reading", "close", "timeconnected", "timewait", "ask", "recvfrom"}
InService == {"bind", "accept", "accepting", "find", "client", "echo", "write"}

OneErrand ==
    pc \in OnErrand =>
        /\ listenSocket = None /\ \A i \in 1..Slots : i # 1 => Socket(i) = None
        /\ \A s \in SocketIds : State(s) # "created"

Between == pc \notin OnErrand \cup InService => \A s \in SocketIds : State(s) = "free"

Serves ==
    /\ pc = "bind" => listenSocket = None
    /\ pc = "accepting" => Socket(at) = None

SocketInv == SocketType /\ ServerType /\ Owned /\ OneErrand /\ Between /\ Serves

---------------------------------------------------------------------------
(* What the calls of a client do to the sockets.                           *)
Alike ==
    /\ \A s \in SocketIds : State(s)' = State(s)
    /\ \A i \in 1..Slots : Socket(i)' = Socket(i)

Dropped(i) ==
    /\ \A s \in SocketIds : State(s)' = IF s = Socket(i) THEN "free" ELSE State(s)
    /\ \A j \in 1..Slots : Socket(j)' = IF j = i THEN None ELSE Socket(j)

Taken(i, s, state) ==
    /\ \A t \in SocketIds : State(t)' = IF t = s THEN state ELSE State(t)
    /\ \A j \in 1..Slots : Socket(j)' = IF j = i THEN s ELSE Socket(j)

LEMMA OpenedIs ==
    ASSUME NEW state \in States, NEW who \in Nat, NEW wire \in Seq(Letter)
    PROVE  /\ Opened(state, who, wire) \in Connection /\ Opened(state, who, wire).state = state
           /\ Opened(state, who, wire).who = who /\ Opened(state, who, wire).wire = wire
           /\ Opened(state, who, wire).data = <<>> /\ Opened(state, who, wire).heard = <<>>
  <1>1. Opened(state, who, wire) =
          [state |-> state, who |-> who, wire |-> wire, data |-> <<>>, heard |-> <<>>]
    <2> DEFINE I == [state |-> "free", who |-> 0, wire |-> <<>>, data |-> <<>>, heard |-> <<>>]
    <2>1. Opened(state, who, wire) = [[[I EXCEPT !.state = state] EXCEPT !.who = who] EXCEPT !.wire = wire]
      BY DEF Opened, Idle
    <2>2. [I EXCEPT !.state = state] =
            [state |-> state, who |-> 0, wire |-> <<>>, data |-> <<>>, heard |-> <<>>]
      OBVIOUS
    <2>3. [[state |-> state, who |-> 0, wire |-> <<>>, data |-> <<>>, heard |-> <<>>] EXCEPT !.who = who] =
            [state |-> state, who |-> who, wire |-> <<>>, data |-> <<>>, heard |-> <<>>]
      OBVIOUS
    <2> QED BY <2>1, <2>2, <2>3
  <1>2. <<>> \in Seq(Letter)
    OBVIOUS
  <1> QED BY <1>1, <1>2 DEF Connection

LEMMA OpenedNone ==
    \A state \in States :
        /\ Opened(state, 0, <<>>) \in Connection /\ Opened(state, 0, <<>>).state = state
        /\ Opened(state, 0, <<>>).heard = <<>>
  <1>1. <<>> \in Seq(Letter) /\ 0 \in Nat
    OBVIOUS
  <1>2. \A state \in States, nil \in Nat, none \in Seq(Letter) :
          /\ Opened(state, nil, none) \in Connection /\ Opened(state, nil, none).state = state
          /\ Opened(state, nil, none).heard = <<>>
    BY OpenedIs
  <1> QED BY <1>1, <1>2

LEMMA IdleIs == Idle \in Connection /\ Idle.state = "free" /\ NoClient \in Client /\ NoClient.socket = None
  <1>1. <<>> \in Seq(Letter)
    OBVIOUS
  <1> QED BY <1>1 DEF Idle, Connection, States, NoClient, Client

LEMMA SocketIs ==
    ASSUME SocketType, NEW i \in 1..Slots
    PROVE  Socket(i) \in SocketIds \cup {None} /\ clients[i].rx \in Seq(Letter)
  <1>1. clients[i] \in Client
    BY DEF SocketType
  <1> QED BY <1>1 DEF Client, Socket

LEMMA ConnIs ==
    ASSUME SocketType, NEW s \in SocketIds
    PROVE  /\ conn[s].state \in States /\ conn[s].who \in Nat /\ conn[s].wire \in Seq(Letter)
           /\ conn[s].data \in Seq(Letter) /\ conn[s].heard \in Seq(Letter)
  <1>1. conn[s] \in Connection
    BY DEF SocketType
  <1> QED BY <1>1 DEF Connection

LEMMA NoSocketId == None \notin SocketIds /\ 1 \in 1..Slots /\ Slots \in Nat
  BY SocketsAssumption

\* A connection and a client that change in place.
LEMMA ConnChanges ==
    ASSUME SocketType, NEW s \in SocketIds, NEW c \in Connection, conn' = [conn EXCEPT ![s] = c]
    PROVE  /\ conn' \in [SocketIds -> Connection] /\ conn'[s] = c
           /\ \A t \in SocketIds : t # s => conn'[t] = conn[t]
  BY DEF SocketType

LEMMA ClientChanges ==
    ASSUME SocketType, NEW i \in 1..Slots, NEW c \in Client, clients' = [clients EXCEPT ![i] = c]
    PROVE  /\ clients' \in [1..Slots -> Client] /\ clients'[i] = c
           /\ \A j \in 1..Slots : j # i => clients'[j] = clients[j]
  BY DEF SocketType

LEMMA ClosesocketIs ==
    ASSUME SocketType, NEW s, closesocket(s)
    PROVE  /\ conn' \in [SocketIds -> Connection]
           /\ \A t \in SocketIds : conn'[t] = IF t = s THEN Idle ELSE conn[t]
  BY IdleIs DEF SocketType, closesocket

LEMMA DropIs ==
    ASSUME SocketType, NEW i \in 1..Slots, closesocket(Socket(i)),
           clients' = [clients EXCEPT ![i] = NoClient], closed_sockets' \subseteq closed_sockets
    PROVE  /\ SocketType' /\ Dropped(i)
           /\ \A t \in SocketIds : conn'[t] = IF t = Socket(i) THEN Idle ELSE conn[t]
           /\ \A j \in 1..Slots : clients'[j] = IF j = i THEN NoClient ELSE clients[j]
  <1>1. /\ conn' \in [SocketIds -> Connection]
        /\ \A t \in SocketIds : conn'[t] = IF t = Socket(i) THEN Idle ELSE conn[t]
    BY ClosesocketIs
  <1>2. /\ clients' \in [1..Slots -> Client] /\ clients'[i] = NoClient
        /\ \A j \in 1..Slots : j # i => clients'[j] = clients[j]
    BY IdleIs, ClientChanges
  <1>3. SocketType'
    BY <1>1, <1>2 DEF SocketType
  <1>4. Dropped(i)
    BY <1>1, <1>2, IdleIs DEF Dropped, State, Socket
  <1> QED BY <1>1, <1>2, <1>3, <1>4

LEMMA CloseIs ==
    ASSUME SocketType, NEW i \in 1..Slots, close(i)
    PROVE  /\ SocketType' /\ Dropped(i)
           /\ \A t \in SocketIds : conn'[t] = IF t = Socket(i) THEN Idle ELSE conn[t]
           /\ \A j \in 1..Slots : clients'[j] = IF j = i THEN NoClient ELSE clients[j]
  BY DropIs DEF close

LEMMA LostIs ==
    ASSUME SocketType, NEW i \in 1..Slots, NotConnected(i)
    PROVE  /\ SocketType' /\ Dropped(i)
           /\ \A t \in SocketIds : conn'[t] = IF t = Socket(i) THEN Idle ELSE conn[t]
           /\ \A j \in 1..Slots : j # i => clients'[j] = clients[j]
  <1>1. CASE Socket(i) = None /\ UNCHANGED socketVars
    <2>1. UNCHANGED <<conn, clients, closed_sockets>>
      BY <1>1 DEF socketVars
    <2> QED BY <1>1, <2>1, NoSocketId DEF Dropped, State, Socket, SocketType
  <1>2. CASE /\ closesocket(Socket(i)) /\ clients' = [clients EXCEPT ![i] = NoClient]
             /\ closed_sockets' = closed_sockets \ {Socket(i)}
    BY <1>2, DropIs
  <1> QED BY <1>1, <1>2 DEF NotConnected

LEMMA CreatesIs ==
    ASSUME SocketType, NEW i \in 1..Slots, NEW state \in States, Creates(i, state)
    PROVE  SocketType' /\ \E s \in SocketIds : State(s) = "free" /\ Taken(i, s, state)
                             /\ conn' = [conn EXCEPT ![s] = Opened(state, 0, <<>>)]
  <1>1. PICK s \in SocketIds : /\ IsNew(s)
                               /\ conn' = [conn EXCEPT ![s] = Opened(state, 0, <<>>)]
                               /\ clients' = [clients EXCEPT ![i] = [socket |-> s, rx |-> <<>>]]
    BY DEF Creates
  <1>2. <<>> \in Seq(Letter) /\ [socket |-> s, rx |-> <<>>] \in Client
    BY DEF Client
  <1>3. Opened(state, 0, <<>>) \in Connection /\ Opened(state, 0, <<>>).state = state
    BY OpenedNone
  <1>4. /\ conn' \in [SocketIds -> Connection] /\ conn'[s] = Opened(state, 0, <<>>)
        /\ \A t \in SocketIds : t # s => conn'[t] = conn[t]
    BY <1>1, <1>3, ConnChanges
  <1>5. /\ clients' \in [1..Slots -> Client] /\ clients'[i] = [socket |-> s, rx |-> <<>>]
        /\ \A j \in 1..Slots : j # i => clients'[j] = clients[j]
    BY <1>1, <1>2, ClientChanges
  <1>6. SocketType'
    BY <1>4, <1>5 DEF SocketType, Creates
  <1>7. State(s) = "free" /\ Taken(i, s, state)
    BY <1>1, <1>3, <1>4, <1>5 DEF IsNew, Free, State, Taken, Socket
  <1> QED BY <1>1, <1>6, <1>7

\* One field of a connection.
LEMMA FieldChanges ==
    ASSUME SocketType, NEW s \in SocketIds, NEW c \in Connection, c.state = conn[s].state,
           conn' = [conn EXCEPT ![s] = c], UNCHANGED <<clients, closed_sockets>>
    PROVE  SocketType' /\ Alike
  <1>1. /\ conn' \in [SocketIds -> Connection] /\ conn'[s] = c
        /\ \A t \in SocketIds : t # s => conn'[t] = conn[t]
    BY ConnChanges
  <1> QED BY <1>1 DEF SocketType, Alike, State, Socket

LEMMA NothingChanges ==
    ASSUME SocketType, UNCHANGED <<conn, clients, closed_sockets>>
    PROVE  SocketType' /\ Alike
  BY DEF SocketType, Alike, State, Socket

LEMMA HearIs ==
    ASSUME SocketType, NEW i \in 1..Slots, NEW c \in Letter, write(i, c)
    PROVE  /\ SocketType' /\ Alike
           /\ \A t \in SocketIds : t # Socket(i) \/ State(t) # "open" => conn'[t] = conn[t]
           /\ \A t \in SocketIds : t = Socket(i) /\ State(t) = "open" =>
                 /\ conn'[t].heard = Append(conn[t].heard, c) /\ conn'[t].who = conn[t].who
                 /\ conn'[t].data = conn[t].data /\ conn'[t].wire = conn[t].wire
  <1>1. CASE Socket(i) # None /\ State(Socket(i)) = "open"
    <2> DEFINE s == Socket(i)
               new == [conn[s] EXCEPT !.heard = Append(@, c)]
    <2>1. s \in SocketIds
      BY <1>1, SocketIs
    <2>2. conn[s] \in Connection /\ conn[s].heard \in Seq(Letter)
      BY <2>1, ConnIs DEF SocketType
    <2>3. Append(conn[s].heard, c) \in Seq(Letter)
      BY <2>2
    <2>4. /\ new \in Connection /\ new.state = conn[s].state /\ new.heard = Append(conn[s].heard, c)
          /\ new.who = conn[s].who /\ new.data = conn[s].data /\ new.wire = conn[s].wire
      BY <2>2, <2>3 DEF Connection
    <2>5. conn' = [conn EXCEPT ![s] = new]
      BY <1>1 DEF write, Hears, State
    <2> HIDE DEF new
    <2>6. SocketType' /\ Alike
      BY <2>1, <2>4, <2>5, FieldChanges DEF write
    <2>7. conn'[s] = new /\ \A t \in SocketIds : t # s => conn'[t] = conn[t]
      BY <2>1, <2>4, <2>5, ConnChanges
    <2> QED BY <1>1, <2>4, <2>6, <2>7
  <1>2. CASE Socket(i) = None \/ State(Socket(i)) # "open"
    BY <1>2, NothingChanges, NoSocketId DEF write, Hears, State
  <1> QED BY <1>1, <1>2

LEMMA AsksIs ==
    ASSUME SocketType, NEW i \in 1..Slots, NEW answer \in Seq(Letter), Asks(i, answer)
    PROVE  SocketType' /\ Alike /\ \A s \in SocketIds : conn'[s].heard = conn[s].heard
  <1>1. CASE UNCHANGED conn
    BY <1>1, NothingChanges DEF Asks
  <1>2. CASE Socket(i) = None /\ conn' = [conn EXCEPT ![Socket(i)].wire = answer]
    <2>1. conn' = conn
      BY <1>2, NoSocketId DEF SocketType
    <2> QED BY <1>1, <2>1
  <1>3. CASE Socket(i) # None /\ conn' = [conn EXCEPT ![Socket(i)].wire = answer]
    <2> DEFINE s == Socket(i)
               new == [conn[s] EXCEPT !.wire = answer]
    <2>1. s \in SocketIds /\ conn[s] \in Connection
      BY <1>3, SocketIs DEF SocketType
    <2>2. new \in Connection /\ new.state = conn[s].state /\ new.heard = conn[s].heard
      BY <2>1 DEF Connection
    <2>3. conn' = [conn EXCEPT ![s] = new]
      BY <1>3
    <2> HIDE DEF new
    <2>4. SocketType' /\ Alike
      BY <2>1, <2>2, <2>3, FieldChanges DEF Asks
    <2>5. conn'[s] = new /\ \A t \in SocketIds : t # s => conn'[t] = conn[t]
      BY <2>1, <2>2, <2>3, ConnChanges
    <2> QED BY <2>2, <2>4, <2>5
  <1> QED BY <1>1, <1>2, <1>3 DEF Asks

LEMMA TailOfBoth ==
    ASSUME NEW S, NEW s \in Seq(S), NEW t \in Seq(S), s # <<>>
    PROVE  /\ Tail(s) \in Seq(S) /\ s \o t \in Seq(S) /\ s \o t # <<>> /\ Head(s \o t) = Head(s)
           /\ Tail(s) \o t = Tail(s \o t)
  <1>1. Tail(s) \in Seq(S) /\ s \o t \in Seq(S) /\ Len(s) > 0 /\ Len(s \o t) = Len(s) + Len(t)
    OBVIOUS
  <1>2. s \o t # <<>> /\ Head(s \o t) = Head(s)
    BY <1>1
  <1>3. Tail(s \o t) \in Seq(S) /\ Tail(s) \o t \in Seq(S) /\ Len(Tail(s) \o t) = Len(Tail(s \o t))
    BY <1>1, <1>2
  <1>4. \A k \in 1..Len(Tail(s) \o t) : (Tail(s) \o t)[k] = Tail(s \o t)[k]
    <2> TAKE k \in 1..Len(Tail(s) \o t)
    <2> DEFINE n == Len(s)
    <2>1. Tail(s \o t)[k] = (s \o t)[k + 1] /\ n \in Nat /\ n > 0 /\ Len(Tail(s)) = n - 1 /\ k \in Nat /\ k > 0
      BY <1>1, <1>2, <1>3
    <2>2. CASE k < n
      <3>1. k \in 1..(n - 1) /\ k + 1 \in 1..n
        BY <2>1, <2>2
      <3>2. (s \o t)[k + 1] = s[k + 1]
        BY <3>1
      <3>3. (Tail(s) \o t)[k] = Tail(s)[k]
        BY <1>1, <2>1, <3>1
      <3>4. Tail(s)[k] = s[k + 1]
        BY <1>1, <2>1, <3>1
      <3> QED BY <2>1, <3>2, <3>3, <3>4
    <2>3. CASE k >= n
      <3>1. (s \o t)[k + 1] = t[k + 1 - n]
        BY <1>1, <2>1, <2>3
      <3>2. (Tail(s) \o t)[k] = t[k - (n - 1)]
        BY <1>1, <2>1, <2>3
      <3>3. k + 1 - n = k - (n - 1)
        BY <2>1
      <3> QED BY <2>1, <3>1, <3>2, <3>3
    <2> QED BY <2>1, <2>2, <2>3
  <1> QED BY <1>1, <1>2, <1>3, <1>4, SeqEqual

LEMMA HeadMoves ==
    ASSUME NEW S, NEW s \in Seq(S), NEW t \in Seq(S), t # <<>>
    PROVE  Append(s, Head(t)) \o Tail(t) = s \o t
  <1>1. Append(s, Head(t)) = s \o <<Head(t)>>
    BY AppendIsConcat
  <1>2. Head(t) \in S /\ Tail(t) \in Seq(S) /\ <<Head(t)>> \in Seq(S)
    OBVIOUS
  <1>3. <<Head(t)>> \o Tail(t) = t
    OBVIOUS
  <1> QED BY <1>1, <1>2, <1>3, ConcatAssociative

\* One byte less of what came; the buffer is filled from the chip when it is empty.
TakesOne(i) ==
    /\ Came(i) # <<>> /\ Char(i) = Head(Came(i))
    /\ \A s \in SocketIds : conn'[s].heard = conn[s].heard /\ conn'[s].who = conn[s].who
                            /\ conn'[s].wire = conn[s].wire
    /\ \A s \in SocketIds : s # Socket(i) => conn'[s].data = conn[s].data
    /\ \A j \in 1..Slots : j # i => clients'[j] = clients[j]
    /\ clients'[i].rx \o conn'[Socket(i)].data = Tail(Came(i))

LEMMA ReadIs ==
    ASSUME SocketType, NEW i \in 1..Slots, read(i)
    PROVE  /\ SocketType' /\ Char(i) \in Letter /\ Socket(i) \in SocketIds
           /\ \/ /\ Dropped(i)
                 /\ \A t \in SocketIds : conn'[t] = IF t = Socket(i) THEN Idle ELSE conn[t]
                 /\ \A j \in 1..Slots : clients'[j] = IF j = i THEN NoClient ELSE clients[j]
              \/ Alike /\ TakesOne(i)
  <1> DEFINE s == Socket(i)
  <1>1. s \in SocketIds
    BY SocketIs DEF read, Readable
  <1>2. conn[s] \in Connection /\ conn[s].data \in Seq(Letter) /\ clients[i] \in Client
        /\ clients[i].rx \in Seq(Letter) /\ clients[i].socket = s
    BY <1>1, ConnIs, SocketIs DEF SocketType, Socket
  <1>3. Came(i) = clients[i].rx \o conn[s].data /\ Came(i) \in Seq(Letter)
    BY <1>2 DEF Came
  <1>4. CASE Came(i) = <<>>
    <2>1. close(i) /\ Char(i) = NUL
      BY <1>4 DEF read, Char
    <2>2. NUL \in Letter
      BY DEF NUL, Byte, Letter
    <2> QED BY <1>1, <2>1, <2>2, CloseIs
  <1>5. CASE Came(i) # <<>>
    <2>1. Char(i) = Head(Came(i)) /\ Char(i) \in Letter
      <3> DEFINE came == Came(i)
      <3> HIDE DEF came
      <3>1. came \in Seq(Letter) /\ came # <<>>
        BY <1>3, <1>5 DEF came
      <3>2. Head(came) \in Letter
        BY <3>1
      <3> QED BY <3>2, <1>5 DEF Char, came
    <2>2. CASE clients[i].rx # <<>>
      <3> DEFINE rx == Tail(clients[i].rx)
                 new == [clients[i] EXCEPT !.rx = rx]
      <3>1. rx \in Seq(Letter) /\ rx \o conn[s].data = Tail(Came(i))
        <4> DEFINE a == clients[i].rx
                   b == conn[s].data
        <4>1. a \in Seq(Letter) /\ b \in Seq(Letter) /\ a # <<>>
          BY <1>2, <2>2
        <4> HIDE DEF a, b
        <4>2. Tail(a) \in Seq(Letter) /\ Tail(a) \o b = Tail(a \o b)
          BY <4>1, TailOfBoth
        <4> QED BY <1>3, <4>2 DEF a, b
      <3>2. UNCHANGED <<conn, closed_sockets>> /\ clients' = [clients EXCEPT ![i] = new]
        BY <1>5, <2>2 DEF read, Rest
      <3> HIDE DEF rx
      <3>3. new \in Client /\ new.rx = rx /\ new.socket = s
        BY <1>2, <3>1 DEF Client
      <3> HIDE DEF new
      <3>4. /\ clients' \in [1..Slots -> Client] /\ clients'[i] = new
            /\ \A j \in 1..Slots : j # i => clients'[j] = clients[j]
        BY <3>2, <3>3, ClientChanges
      <3>5. SocketType' /\ Alike
        BY <1>2, <3>2, <3>3, <3>4 DEF SocketType, Alike, State, Socket
      <3>6. TakesOne(i)
        BY <1>5, <2>1, <3>1, <3>2, <3>3, <3>4 DEF TakesOne
      <3> QED BY <1>1, <2>1, <3>5, <3>6
    <2>3. CASE clients[i].rx = <<>>
      <3> DEFINE rx == Tail(Came(i))
                 new == [clients[i] EXCEPT !.rx = rx]
                 emptied == [conn[s] EXCEPT !.data = <<>>]
      <3>1. rx \in Seq(Letter) /\ rx \o <<>> = rx /\ <<>> \in Seq(Letter)
        BY <1>3, <1>5, ConcatEmptySeq
      <3>2. /\ closed_sockets' = closed_sockets /\ clients' = [clients EXCEPT ![i] = new]
            /\ conn' = [conn EXCEPT ![s] = emptied]
        BY <1>5, <2>3 DEF read, Rest
      <3> HIDE DEF rx
      <3>3. new \in Client /\ new.rx = rx /\ new.socket = s
        BY <1>2, <3>1 DEF Client
      <3>4. /\ emptied \in Connection /\ emptied.state = conn[s].state /\ emptied.data = <<>>
            /\ emptied.heard = conn[s].heard /\ emptied.who = conn[s].who /\ emptied.wire = conn[s].wire
        BY <1>2, <3>1 DEF Connection
      <3> HIDE DEF new, emptied
      <3>5. /\ clients' \in [1..Slots -> Client] /\ clients'[i] = new
            /\ \A j \in 1..Slots : j # i => clients'[j] = clients[j]
        BY <3>2, <3>3, ClientChanges
      <3>6. /\ conn' \in [SocketIds -> Connection] /\ conn'[s] = emptied
            /\ \A t \in SocketIds : t # s => conn'[t] = conn[t]
        BY <1>1, <3>2, <3>4, ConnChanges
      <3>7. SocketType' /\ Alike
        BY <1>2, <3>2, <3>3, <3>4, <3>5, <3>6 DEF SocketType, Alike, State, Socket
      <3>8. clients'[i].rx \o conn'[Socket(i)].data = Tail(Came(i))
        BY <3>1, <3>3, <3>4, <3>5, <3>6 DEF rx
      <3>9. TakesOne(i)
        BY <1>5, <2>1, <3>4, <3>5, <3>6, <3>8 DEF TakesOne
      <3> QED BY <1>1, <2>1, <3>7, <3>9
    <2> QED BY <2>2, <2>3
  <1> QED BY <1>4, <1>5

\* A byte of a peer arrives.
LEMMA SendIs ==
    ASSUME SocketType, PeerSends
    PROVE  /\ SocketType' /\ Alike /\ UNCHANGED clients
           /\ \A s \in SocketIds :
                 /\ conn'[s].heard = conn[s].heard /\ conn'[s].who = conn[s].who
                 /\ conn'[s].data \o conn'[s].wire = conn[s].data \o conn[s].wire
  <1>1. PICK s \in SocketIds :
            /\ conn[s].wire # <<>>
            /\ conn' = [conn EXCEPT ![s].data = Append(@, Head(conn[s].wire)), ![s].wire = Tail(@)]
    BY DEF PeerSends
  <1>2. UNCHANGED <<clients, closed_sockets>>
    BY DEF PeerSends
  <1> DEFINE data == Append(conn[s].data, Head(conn[s].wire))
             wire == Tail(conn[s].wire)
             new == [[conn[s] EXCEPT !.data = data] EXCEPT !.wire = wire]
  <1>3. conn[s] \in Connection /\ conn[s].data \in Seq(Letter) /\ conn[s].wire \in Seq(Letter)
    BY ConnIs DEF SocketType
  <1>4. data \in Seq(Letter) /\ wire \in Seq(Letter) /\ data \o wire = conn[s].data \o conn[s].wire
    <2> DEFINE a == conn[s].data
               b == conn[s].wire
    <2>1. a \in Seq(Letter) /\ b \in Seq(Letter) /\ b # <<>>
      BY <1>1, <1>3
    <2> HIDE DEF a, b
    <2>2. Append(a, Head(b)) \in Seq(Letter) /\ Tail(b) \in Seq(Letter)
      BY <2>1
    <2>3. Append(a, Head(b)) \o Tail(b) = a \o b
      BY <2>1, HeadMoves
    <2> QED BY <2>2, <2>3 DEF a, b
  <1>5. conn' = [conn EXCEPT ![s] = new]
    <2>1. [conn EXCEPT ![s].data = data, ![s].wire = Tail(@)] = [conn EXCEPT ![s] = new]
      BY <1>3 DEF SocketType
    <2> QED BY <1>1, <2>1
  <1> HIDE DEF data, wire
  <1>6. /\ new \in Connection /\ new.state = conn[s].state /\ new.data = data /\ new.wire = wire
        /\ new.heard = conn[s].heard /\ new.who = conn[s].who
    BY <1>3, <1>4 DEF Connection
  <1> HIDE DEF new
  <1>7. SocketType' /\ Alike
    BY <1>2, <1>5, <1>6, FieldChanges
  <1>8. conn'[s] = new /\ \A t \in SocketIds : t # s => conn'[t] = conn[t]
    BY <1>5, <1>6, ConnChanges
  <1> QED BY <1>2, <1>4, <1>6, <1>7, <1>8

\* A peer that leaves.
LEMMA LeaveIs ==
    ASSUME SocketType, PeerLeaves
    PROVE  /\ SocketType' /\ UNCHANGED clients
           /\ \A s \in SocketIds :
                 /\ \/ State(s)' = State(s) /\ conn'[s] = conn[s]
                    \/ State(s) = "open" /\ State(s)' = "left"
                 /\ conn'[s].heard = conn[s].heard /\ conn'[s].who = conn[s].who
  <1>1. PICK s \in SocketIds :
            /\ conn[s].state = "open"
            /\ conn' = [conn EXCEPT ![s].state = "left", ![s].wire = <<>>]
            /\ closed_sockets' = closed_sockets \cup {s}
    BY DEF PeerLeaves
  <1>2. UNCHANGED clients
    BY DEF PeerLeaves
  <1> DEFINE new == [[conn[s] EXCEPT !.state = "left"] EXCEPT !.wire = <<>>]
  <1>3. conn[s] \in Connection /\ <<>> \in Seq(Letter)
    BY DEF SocketType
  <1>4. conn' = [conn EXCEPT ![s] = new]
    <2>1. [conn EXCEPT ![s].state = "left", ![s].wire = <<>>] = [conn EXCEPT ![s] = new]
      BY <1>3 DEF SocketType
    <2> QED BY <1>1, <2>1
  <1>5. /\ new \in Connection /\ new.state = "left"
        /\ new.heard = conn[s].heard /\ new.who = conn[s].who
    BY <1>3 DEF Connection, States
  <1> HIDE DEF new
  <1>6. /\ conn' \in [SocketIds -> Connection] /\ conn'[s] = new
        /\ \A t \in SocketIds : t # s => conn'[t] = conn[t]
    BY <1>4, <1>5, ConnChanges
  <1>7. SocketType'
    BY <1>1, <1>2, <1>6 DEF SocketType
  <1> QED BY <1>1, <1>2, <1>5, <1>6, <1>7 DEF State

---------------------------------------------------------------------------
(* Nobody's socket is in use, nobody else's is lost.                       *)
LEMMA OwnedAlike ==
    ASSUME Owned, Alike, UNCHANGED listenSocket, SocketType, ServerType
    PROVE  Owned'
  <1>1. \A i \in 1..Slots : Socket(i) \in SocketIds \cup {None}
    BY SocketIs
  <1>2. listenSocket \in SocketIds \cup {None}
    BY DEF ServerType
  <1>3. \A i \in 1..Slots : (Socket(i) # None => /\ State(Socket(i)) \in {"open", "udp", "left"}
                                                 /\ \A j \in 1..Slots : Socket(j) = Socket(i) => i = j)'
    BY <1>1 DEF Owned, Alike, State, Socket
  <1>4. (listenSocket # None => State(listenSocket) = "listening")'
    BY <1>2 DEF Owned, Alike, State
  <1>5. \A s \in SocketIds : (State(s) \in {"free", "created"} \/ Held(s))'
    BY DEF Owned, Alike, Held, State, Socket
  <1> QED BY <1>3, <1>4, <1>5 DEF Owned

LEMMA OwnedDropped ==
    ASSUME Owned, NEW i \in 1..Slots, Dropped(i), UNCHANGED listenSocket, SocketType, ServerType
    PROVE  Owned'
  <1>1. \A j \in 1..Slots : Socket(j) \in SocketIds \cup {None}
    BY SocketIs
  <1>2. listenSocket \in SocketIds \cup {None}
    BY DEF ServerType
  <1>3. ASSUME NEW j \in 1..Slots, Socket(j)' # None
        PROVE  /\ State(Socket(j))' \in {"open", "udp", "left"}
               /\ \A k \in 1..Slots : Socket(k)' = Socket(j)' => j = k
    <2>1. j # i /\ Socket(j)' = Socket(j) /\ Socket(j) # Socket(i)
      BY <1>3 DEF Owned, Dropped
    <2>2. State(Socket(j))' = State(Socket(j))
      BY <1>1, <1>3, <2>1 DEF Dropped, State, Socket
    <2> QED BY <1>3, <2>1, <2>2 DEF Owned, Dropped
  <1>4. ASSUME listenSocket # None PROVE State(listenSocket)' = "listening"
    <2>1. listenSocket # Socket(i) /\ listenSocket' = listenSocket
      BY <1>4, SocketIs DEF Owned
    <2> QED BY <1>2, <1>4, <2>1 DEF Owned, Dropped, State
  <1>5. ASSUME NEW s \in SocketIds, State(s)' \notin {"free", "created"} PROVE Held(s)'
    <2>1. s # Socket(i) /\ State(s)' = State(s)
      BY <1>5 DEF Dropped
    <2>2. Held(s)
      BY <1>5, <2>1 DEF Owned
    <2> QED BY <2>1, <2>2 DEF Held, Dropped
  <1> QED BY <1>3, <1>4, <1>5 DEF Owned

\* A free socket for an object that had none.
LEMMA OwnedTaken ==
    ASSUME Owned, NEW i \in 1..Slots, NEW s \in SocketIds, NEW state \in {"open", "udp"},
           State(s) = "free", Socket(i) = None, Taken(i, s, state), UNCHANGED listenSocket,
           SocketType, ServerType
    PROVE  Owned'
  <1>1. \A j \in 1..Slots : Socket(j) \in SocketIds \cup {None}
    BY SocketIs
  <1>2. listenSocket \in SocketIds \cup {None} /\ listenSocket # s /\ s # None
    BY NoSocketId DEF ServerType, Owned
  <1>3. \A j \in 1..Slots : Socket(j) # s
    BY <1>2 DEF Owned
  <1>4. ASSUME NEW j \in 1..Slots, Socket(j)' # None
        PROVE  /\ State(Socket(j))' \in {"open", "udp", "left"}
               /\ \A k \in 1..Slots : Socket(k)' = Socket(j)' => j = k
    <2>1. CASE j = i
      BY <1>3, <2>1 DEF Taken, State, Socket
    <2>2. CASE j # i
      <3>1. Socket(j)' = Socket(j) /\ Socket(j) \in SocketIds
        BY <1>1, <1>4, <2>2 DEF Taken
      <3>2. State(Socket(j))' = State(Socket(j))
        BY <1>3, <3>1 DEF Taken, State, Socket
      <3> QED BY <1>3, <1>4, <2>2, <3>1, <3>2 DEF Owned, Taken
    <2> QED BY <2>1, <2>2
  <1>5. ASSUME listenSocket # None PROVE State(listenSocket)' = "listening"
    BY <1>2, <1>5 DEF Owned, Taken, State
  <1>6. ASSUME NEW t \in SocketIds, State(t)' \notin {"free", "created"} PROVE Held(t)'
    <2>1. CASE t = s
      BY <2>1 DEF Held, Taken
    <2>2. CASE t # s
      <3>1. Held(t)
        BY <1>6, <2>2 DEF Owned, Taken
      <3> QED BY <2>2, <3>1, NoSocketId DEF Held, Taken
    <2> QED BY <2>1, <2>2
  <1> QED BY <1>4, <1>5, <1>6 DEF Owned

---------------------------------------------------------------------------
(* Errands.                                                                *)
LEMMA Quarters == OnErrand \cap InService = {} /\ OnErrand \cap Ahead = {} /\ InService \cap Ahead = {}
                  /\ {"bind", "accepting", "echo", "write"} \subseteq InService
  BY DEF OnErrand, InService, Ahead

\* A step that is not the server's.
LEMMA NotServing ==
    ASSUME SocketInv, UNCHANGED serverVars, pc' \notin InService
    PROVE  ServerType' /\ Serves' /\ UNCHANGED <<listenSocket, at>>
  BY Quarters DEF SocketInv, serverVars, ServerType, Serves

LEMMA NothingOpen ==
    ASSUME SocketInv, pc \notin OnErrand \cup InService
    PROVE  /\ \A s \in SocketIds : State(s) = "free"
           /\ listenSocket = None /\ \A i \in 1..Slots : Socket(i) = None
  <1>1. \A s \in SocketIds : State(s) = "free"
    BY DEF SocketInv, Between
  <1>2. listenSocket = None
    BY <1>1 DEF SocketInv, ServerType, Owned
  <1>3. \A i \in 1..Slots : Socket(i) = None
    BY <1>1, SocketIs DEF SocketInv, Owned
  <1> QED BY <1>1, <1>2, <1>3

LEMMA StaysIdle ==
    ASSUME SocketInv, pc \notin OnErrand \cup InService, pc' \notin OnErrand \cup InService,
           UNCHANGED <<conn, clients, closed_sockets>>, UNCHANGED serverVars
    PROVE  SocketInv'
  <1>1. SocketType' /\ Alike
    BY NothingChanges DEF SocketInv
  <1>2. ServerType' /\ Serves' /\ UNCHANGED listenSocket
    BY NotServing
  <1>3. Owned'
    BY <1>1, <1>2, OwnedAlike DEF SocketInv
  <1>4. OneErrand' /\ Between'
    BY <1>1, NothingOpen DEF OneErrand, Between, Alike, State
  <1> QED BY <1>1, <1>2, <1>3, <1>4 DEF SocketInv

LEMMA BeginsErrand ==
    ASSUME SocketInv, pc \notin OnErrand \cup InService, pc' \in OnErrand, UNCHANGED serverVars,
           SocketType',
           Alike \/ \E state \in {"open", "udp"} : \E s \in SocketIds : State(s) = "free" /\ Taken(1, s, state)
    PROVE  SocketInv'
  <1>1. ServerType' /\ Serves' /\ UNCHANGED listenSocket
    BY NotServing, Quarters
  <1>2. /\ \A s \in SocketIds : State(s) = "free"
        /\ listenSocket = None /\ \A i \in 1..Slots : Socket(i) = None
    BY NothingOpen
  <1>3. CASE Alike
    <2>1. Owned'
      BY <1>1, <1>3, OwnedAlike DEF SocketInv
    <2>2. OneErrand' /\ Between'
      BY <1>1, <1>2, <1>3 DEF OneErrand, Between, Alike, State, Socket
    <2> QED BY <1>1, <2>1, <2>2 DEF SocketInv
  <1>4. CASE \E state \in {"open", "udp"} : \E s \in SocketIds : State(s) = "free" /\ Taken(1, s, state)
    <2>1. PICK state \in {"open", "udp"}, s \in SocketIds : State(s) = "free" /\ Taken(1, s, state)
      BY <1>4
    <2>2. Owned'
      BY <1>1, <1>2, <2>1, NoSocketId, OwnedTaken DEF SocketInv
    <2>3. OneErrand' /\ Between'
      BY <1>1, <1>2, <2>1 DEF OneErrand, Between, Taken, State, Socket
    <2> QED BY <1>1, <2>2, <2>3 DEF SocketInv
  <1> QED BY <1>3, <1>4

LEMMA StaysOnErrand ==
    ASSUME SocketInv, pc \in OnErrand, pc' \in OnErrand, UNCHANGED serverVars,
           SocketType', Alike \/ Dropped(1)
    PROVE  SocketInv'
  <1>1. ServerType' /\ Serves' /\ UNCHANGED listenSocket
    BY NotServing, Quarters
  <1>2. Owned'
    BY <1>1, OwnedAlike, OwnedDropped, NoSocketId DEF SocketInv
  <1>3. /\ listenSocket = None /\ \A i \in 1..Slots : i # 1 => Socket(i) = None
        /\ \A s \in SocketIds : State(s) # "created"
    BY DEF SocketInv, OneErrand
  <1>4. OneErrand'
    <2>1. \A s \in SocketIds : State(s)' # "created"
      BY <1>3 DEF Alike, Dropped
    <2>2. \A i \in 1..Slots : i # 1 => Socket(i)' = None
      BY <1>3 DEF Alike, Dropped
    <2> QED BY <1>1, <1>3, <2>1, <2>2 DEF OneErrand
  <1>5. Between'
    BY DEF Between
  <1> QED BY <1>1, <1>2, <1>4, <1>5 DEF SocketInv

LEMMA EndsErrand ==
    ASSUME SocketInv, pc \in OnErrand, pc' \notin OnErrand \cup InService, UNCHANGED serverVars,
           SocketType', Dropped(1)
    PROVE  SocketInv'
  <1>1. ServerType' /\ Serves' /\ UNCHANGED listenSocket
    BY NotServing
  <1>2. Owned'
    BY <1>1, OwnedDropped, NoSocketId DEF SocketInv
  <1>3. /\ listenSocket = None /\ \A i \in 1..Slots : i # 1 => Socket(i) = None
        /\ \A s \in SocketIds : State(s) # "created"
    BY DEF SocketInv, OneErrand
  <1>4. ASSUME NEW s \in SocketIds PROVE State(s)' = "free"
    <2>1. CASE s = Socket(1)
      BY <2>1 DEF Dropped
    <2>2. CASE s # Socket(1)
      <3>1. ~Held(s)
        BY <1>3, <2>2, NoSocketId DEF Held
      <3>2. State(s) = "free"
        BY <1>3, <3>1 DEF SocketInv, Owned
      <3> QED BY <2>2, <3>2 DEF Dropped
    <2> QED BY <2>1, <2>2
  <1>5. OneErrand' /\ Between'
    BY <1>4 DEF OneErrand, Between
  <1> QED BY <1>1, <1>2, <1>5 DEF SocketInv

LEMMA Answers == Page \in Seq(Letter) /\ Stamp \in Seq(Letter)
  <1>1. \A k \in Nat : Byte(0, k) \in Letter
    BY DEF Byte, Letter
  <1> QED BY <1>1 DEF Page, Stamp, Opening, Closing

\* An attempt to connect: a socket, or none.
LEMMA ConnectIs ==
    ASSUME SocketInv, pc \notin OnErrand \cup InService, NEW state \in {"open", "udp"},
           Connects(1, state) \/ ConnectFails(1)
    PROVE  /\ SocketType'
           /\ Alike \/ \E s \in SocketIds : State(s) = "free" /\ Taken(1, s, state)
           /\ \A s \in SocketIds : conn'[s].heard = conn[s].heard \/ conn'[s].heard = <<>>
  <1>1. CASE Connects(1, state)
    <2>1. state \in States /\ Creates(1, state)
      BY <1>1 DEF Connects, States
    <2>2. SocketType' /\ \E s \in SocketIds : State(s) = "free" /\ Taken(1, s, state)
                            /\ conn' = [conn EXCEPT ![s] = Opened(state, 0, <<>>)]
      BY <2>1, CreatesIs, NoSocketId DEF SocketInv
    <2>3. Opened(state, 0, <<>>).heard = <<>>
      BY <2>1, OpenedNone
    <2>4. \A s \in SocketIds : conn'[s].heard = conn[s].heard \/ conn'[s].heard = <<>>
      BY <2>2, <2>3 DEF SocketInv, SocketType
    <2> QED BY <2>2, <2>4
  <1>2. CASE ConnectFails(1)
    <2>1. UNCHANGED <<conn, closed_sockets>> /\ clients' = [clients EXCEPT ![1] = NoClient]
      BY <1>2 DEF ConnectFails
    <2>2. /\ clients' \in [1..Slots -> Client] /\ clients'[1] = NoClient
          /\ \A j \in 1..Slots : j # 1 => clients'[j] = clients[j]
      BY <2>1, ClientChanges, IdleIs, NoSocketId DEF SocketInv
    <2>3. SocketType'
      BY <2>1, <2>2 DEF SocketInv, SocketType
    <2>4. Alike
      BY <2>1, <2>2, NothingOpen, IdleIs DEF Alike, State, Socket
    <2> QED BY <2>1, <2>3, <2>4
  <1> QED BY <1>1, <1>2

LEMMA ErrandSockets == ASSUME SocketInv, Errand, program \in DOMAIN Plan PROVE SocketInv'
  <1> USE NoSocketId, Quarters
  <1>0. /\ \A here : At(here) => pc = here /\ UNCHANGED serverVars
        /\ \A here : GoesOn(here) => pc' \in Ahead
        /\ SocketType
    BY PlanGoesOn DEF At, SocketInv
  <1>1. \A p : p \in {"page", "timeconnect", "time", "timed", "round", "hour", "sntp", "halt", "end"} =>
                  p \notin OnErrand \cup InService
    BY DEF OnErrand, InService
  <1>2. \A p : p \in {"connected", "request", "reading", "close", "timeconnected", "timewait", "ask",
                      "recvfrom"} => p \in OnErrand
    BY DEF OnErrand
  <1>3. IsConnected(1) \/ UNCHANGED socketVars => UNCHANGED <<conn, clients, closed_sockets>>
    BY DEF IsConnected, socketVars
  <1>4. CASE ConnectsTCP
    BY <1>0, <1>1, <1>2, <1>4, ConnectIs, BeginsErrand DEF ConnectsTCP
  <1>5. CASE ChecksConnection
    <2>1. CASE IsConnected(1) /\ pc' = "request"
      BY <1>0, <1>2, <1>3, <1>5, <2>1, NothingChanges, StaysOnErrand DEF ChecksConnection
    <2>2. CASE NotConnected(1) /\ pc' \in {"page", "hour", "halt"}
      BY <1>0, <1>1, <1>2, <1>5, <2>2, LostIs, EndsErrand DEF ChecksConnection
    <2> QED BY <1>5, <2>1, <2>2 DEF ChecksConnection, TriesAgain
  <1>6. CASE SendsRequest
    <2>1. CASE Asks(1, Page)
      BY <1>0, <1>2, <1>6, <2>1, AsksIs, Answers, StaysOnErrand DEF SendsRequest
    <2>2. CASE UNCHANGED socketVars
      BY <1>0, <1>2, <1>3, <1>6, <2>2, NothingChanges, StaysOnErrand DEF SendsRequest
    <2> QED BY <1>6, <2>1, <2>2 DEF SendsRequest
  <1>7. CASE ReadsPage
    BY <1>0, <1>2, <1>7, ReadIs, StaysOnErrand DEF ReadsPage
  <1>8. CASE StopsReading
    <2>1. CASE NotConnected(1)
      BY <1>0, <1>2, <1>8, <2>1, LostIs, StaysOnErrand DEF StopsReading
    <2>2. CASE IsConnected(1)
      BY <1>0, <1>2, <1>3, <1>8, <2>2, NothingChanges, StaysOnErrand DEF StopsReading
    <2> QED BY <1>8, <2>1, <2>2 DEF StopsReading
  <1>9. CASE ClosesPage
    <2>1. pc' \notin OnErrand \cup InService
      BY <1>0, <1>1, <1>9 DEF ClosesPage, AfterPage
    <2> QED BY <1>0, <1>2, <1>9, <2>1, CloseIs, EndsErrand DEF ClosesPage
  <1>10. CASE FindsTimeServer
    BY <1>0, <1>1, <1>3, <1>10, StaysIdle DEF FindsTimeServer
  <1>11. CASE ConnectsUDP
    BY <1>0, <1>1, <1>2, <1>11, ConnectIs, BeginsErrand DEF ConnectsUDP
  <1>12. CASE AsksTime
    <2>1. CASE Asks(1, Stamp) /\ pc' = "timewait"
      BY <1>0, <1>2, <1>12, <2>1, AsksIs, Answers, StaysOnErrand DEF AsksTime
    <2>2. CASE NotConnected(1) /\ pc' \in {"timeconnect", "timed"}
      BY <1>0, <1>1, <1>2, <1>12, <2>2, LostIs, EndsErrand DEF AsksTime
    <2> QED BY <1>12, <2>1, <2>2 DEF AsksTime, TriesAgain
  <1>13. CASE TimeOrNot
    BY <1>0, <1>1, <1>2, <1>13, CloseIs, EndsErrand DEF TimeOrNot
  <1>14. CASE Timed
    <2>1. pc' \in {"time", "round"} /\ UNCHANGED socketVars /\ At("timed")
      BY <1>14 DEF Timed
    <2> QED BY <1>0, <1>1, <1>3, <2>1, StaysIdle
  <1>15. CASE Round \/ HourLater
    <2>1. pc \in {"round", "hour"} /\ pc' \in {"page", "time", "round"} /\ UNCHANGED socketVars
          /\ UNCHANGED serverVars
      BY <1>0, <1>15 DEF Round, HourLater, PollsTime
    <2> QED BY <1>1, <1>3, <2>1, StaysIdle
  <1>16. CASE OpensNTP
    <2>1. CASE Creates(1, "udp") /\ pc' = "ask"
      <3>1. SocketType' /\ \E s \in SocketIds : State(s) = "free" /\ Taken(1, s, "udp")
        BY <1>0, <2>1, CreatesIs DEF States
      <3> QED BY <1>0, <1>1, <1>2, <1>16, <2>1, <3>1, BeginsErrand DEF OpensNTP
    <2>2. CASE GoesOn("sntp") /\ UNCHANGED socketVars
      BY <1>0, <1>1, <1>3, <1>16, <2>2, StaysIdle DEF OpensNTP
    <2> QED BY <1>16, <2>1, <2>2 DEF OpensNTP
  <1>17. CASE SNTP_GetTime
    BY <1>0, <1>2, <1>17, AsksIs, Answers, StaysOnErrand DEF SNTP_GetTime
  <1>18. CASE HearsNTP
    <2>1. CASE close(1) /\ GoesOn("sntp")
      BY <1>0, <1>2, <1>18, <2>1, CloseIs, EndsErrand DEF HearsNTP
    <2>2. CASE pc' = "ask" /\ UNCHANGED socketVars
      BY <1>0, <1>2, <1>3, <1>18, <2>2, NothingChanges, StaysOnErrand DEF HearsNTP
    <2> QED BY <1>18, <2>1, <2>2 DEF HearsNTP
  <1> QED BY <1>4, <1>5, <1>6, <1>7, <1>8, <1>9, <1>10, <1>11, <1>12, <1>13, <1>14, <1>15, <1>16,
             <1>17, <1>18 DEF Errand

---------------------------------------------------------------------------
(* The server.                                                             *)
LEMMA ServesOn ==
    ASSUME SocketInv, pc' \in InService, SocketType', ServerType', Owned', Serves'
    PROVE  SocketInv'
  BY Quarters DEF SocketInv, OneErrand, Between

LEMMA SlotIs ==
    ASSUME at \in 1..Slots, NEW here, NEW after, NextSlot(here, after)
    PROVE  at' \in 1..Slots /\ pc' \in {here, after}
  BY SocketsAssumption DEF NextSlot

\* What a step of the server leaves as it is.
Follow == UNCHANGED <<listenSocket, said, visits>>

\* A step that changes no socket, or drops one.
LEMMA ServesAlike ==
    ASSUME SocketInv, pc' \in InService, pc' \notin {"bind", "accepting"}, SocketType', ServerType',
           UNCHANGED listenSocket, Alike \/ \E i \in 1..Slots : Dropped(i)
    PROVE  SocketInv'
  <1>1. Owned'
    BY OwnedAlike, OwnedDropped DEF SocketInv
  <1> QED BY <1>1, ServesOn DEF Serves

LEMMA LastIs == ASSUME said \in Seq(Letter), said # <<>> PROVE Last(said) \in Letter
  BY DEF Last

LEMMA ServerBeginSockets == ASSUME SocketInv, ServerBegin PROVE SocketInv'
  <1> USE Quarters
  <1>0. /\ pc = "listen" /\ UNCHANGED <<clients, closed_sockets, at, ref, said, visits>>
        /\ SocketType /\ ServerType /\ pc \notin OnErrand \cup InService
    BY DEF ServerBegin, Serving, SocketInv, OnErrand, InService
  <1>1. /\ \A s \in SocketIds : State(s) = "free"
        /\ listenSocket = None /\ \A i \in 1..Slots : Socket(i) = None
    BY <1>0, NothingOpen
  <1>2. CASE GivesUp /\ UNCHANGED conn
    <2>1. pc' = "accept" /\ UNCHANGED listenSocket
      BY <1>2 DEF GivesUp
    <2>2. SocketType' /\ Alike
      BY <1>0, <1>2, NothingChanges
    <2>3. ServerType'
      BY <1>0, <2>1 DEF ServerType
    <2> QED BY <2>1, <2>2, <2>3, ServesAlike DEF InService
  <1>3. CASE /\ \E s \in SocketIds : IsNew(s) /\ conn' = [conn EXCEPT ![s] = Opened("created", 0, <<>>)]
             /\ pc' = "bind" /\ UNCHANGED listenSocket
    <2>1. PICK s \in SocketIds : conn' = [conn EXCEPT ![s] = Opened("created", 0, <<>>)]
      BY <1>3
    <2>3. Opened("created", 0, <<>>) \in Connection /\ Opened("created", 0, <<>>).state = "created"
      BY OpenedNone DEF States
    <2>4. /\ conn' \in [SocketIds -> Connection] /\ conn'[s].state = "created"
          /\ \A t \in SocketIds : t # s => conn'[t] = conn[t]
      BY <1>0, <2>1, <2>3, ConnChanges
    <2>5. SocketType' /\ ServerType'
      BY <1>0, <1>3, <2>4 DEF SocketType, ServerType
    <2>6. Owned'
      BY <1>0, <1>1, <1>3, <2>4 DEF Owned, State, Socket, Held
    <2>7. Serves'
      BY <1>1, <1>3 DEF Serves
    <2> QED BY <1>3, <2>5, <2>6, <2>7, ServesOn
  <1> QED BY <1>2, <1>3 DEF ServerBegin

LEMMA ListensSockets == ASSUME SocketInv, Listens PROVE SocketInv'
  <1> USE Quarters
  <1>0. /\ pc = "bind" /\ UNCHANGED <<clients, closed_sockets, at, ref, said, visits>>
        /\ SocketType /\ ServerType /\ pc' = "accept" /\ listenSocket = None
    BY DEF Listens, Serving, SocketInv, GivesUp, Serves
  <1>2. CASE GivesUp /\ UNCHANGED conn
    <2>1. pc' = "accept" /\ UNCHANGED listenSocket
      BY <1>2 DEF GivesUp
    <2>2. SocketType' /\ Alike
      BY <1>0, <1>2, NothingChanges
    <2>3. ServerType'
      BY <1>0, <2>1 DEF ServerType
    <2> QED BY <2>1, <2>2, <2>3, ServesAlike DEF InService
  <1>3. CASE \E s \in SocketIds : /\ conn[s].state = "created"
                                  /\ conn' = [conn EXCEPT ![s].state = "listening"]
                                  /\ listenSocket' = s
    <2>1. PICK s \in SocketIds : /\ conn[s].state = "created"
                                 /\ conn' = [conn EXCEPT ![s].state = "listening"]
                                 /\ listenSocket' = s
      BY <1>3
    <2> DEFINE new == [conn[s] EXCEPT !.state = "listening"]
    <2>2. new \in Connection /\ new.state = "listening"
      BY <1>0 DEF SocketType, Connection, States
    <2>3. conn' = [conn EXCEPT ![s] = new]
      BY <2>1
    <2> HIDE DEF new
    <2>4. /\ conn' \in [SocketIds -> Connection] /\ conn'[s] = new
          /\ \A t \in SocketIds : t # s => conn'[t] = conn[t]
      BY <1>0, <2>2, <2>3, ConnChanges
    <2>5. SocketType' /\ ServerType'
      BY <1>0, <2>1, <2>4 DEF SocketType, ServerType
    <2>6. \A i \in 1..Slots : Socket(i)' = Socket(i) /\ Socket(i) # s /\ Socket(i) \in SocketIds \cup {None}
      BY <1>0, <2>1, SocketIs, NoSocketId DEF Socket, SocketInv, Owned, State
    <2>7. Owned'
      <3>1. State(s)' = "listening" /\ \A t \in SocketIds : t # s => State(t)' = State(t)
        BY <2>2, <2>4 DEF State
      <3>2. ASSUME NEW i \in 1..Slots, Socket(i)' # None
            PROVE  /\ State(Socket(i))' \in {"open", "udp", "left"}
                   /\ \A j \in 1..Slots : Socket(j)' = Socket(i)' => i = j
        <4>1. conn'[Socket(i)] = conn[Socket(i)] /\ Socket(i)' = Socket(i)
          BY <2>4, <2>6, <3>2
        <4>2. State(Socket(i))' = State(Socket(i))
          BY <4>1 DEF State
        <4> QED BY <2>6, <3>2, <4>1, <4>2 DEF SocketInv, Owned
      <3>3. State(listenSocket)' = "listening"
        BY <2>1, <3>1 DEF State
      <3>4. \A t \in SocketIds : (State(t) \in {"free", "created"} \/ Held(t))'
        BY <1>0, <2>1, <2>6, <3>1, NoSocketId DEF SocketInv, Owned, Held
      <3> QED BY <3>2, <3>3, <3>4 DEF Owned
    <2>8. Serves'
      BY <1>0 DEF Serves
    <2> QED BY <1>0, <2>5, <2>7, <2>8, ServesOn DEF InService
  <1> QED BY <1>2, <1>3 DEF Listens

\* A visitor: accept gives the socket of a new one to a slot that has none.
LEMMA VisitIs ==
    ASSUME SocketInv, accept
    PROVE  /\ Socket(at) = None /\ at \in 1..Slots /\ UNCHANGED <<listenSocket, ref, said>>
           /\ visits' \in Nat /\ at' \in 1..Slots /\ pc' \in {"accept", "find"}
           /\ SocketType'
           /\ \E s \in SocketIds :
                 /\ State(s) = "free" /\ Taken(at, s, "open")
                 /\ \A t \in SocketIds : t # s => conn'[t] = conn[t]
                 /\ conn'[s].heard = <<>> /\ conn'[s].data = <<>> /\ conn'[s].who = visits'
                 /\ conn'[s].wire = [k \in 1..Bytes |-> Byte(visits', k)]
                 /\ \A j \in 1..Slots : j # at => clients'[j] = clients[j]
                 /\ clients'[at].rx = <<>>
  <1>1. /\ Socket(at) = None /\ at \in 1..Slots /\ visits' = visits + 1 /\ visits \in Nat
        /\ UNCHANGED <<listenSocket, ref, said, closed_sockets>> /\ NextSlot("accept", "find")
        /\ SocketType
    BY DEF accept, Serving, SocketInv, Serves, ServerType
  <1>2. at' \in 1..Slots /\ pc' \in {"accept", "find"} /\ visits' \in Nat
    BY <1>1, SlotIs
  <1> DEFINE wire == [k \in 1..Bytes |-> Byte(visits', k)]
             new == Opened("open", visits', wire)
  <1>3. PICK s \in SocketIds : /\ IsNew(s)
                               /\ conn' = [conn EXCEPT ![s] = new]
                               /\ clients' = [clients EXCEPT ![at] = [socket |-> s, rx |-> <<>>]]
    BY DEF accept
  <1>4. wire \in Seq(Letter)
    <2>1. \A k \in Nat : Byte(visits', k) \in Letter
      BY <1>2 DEF Byte, Letter
    <2>2. Bytes \in Nat /\ \A k \in 1..Bytes : Byte(visits', k) \in Letter
      BY <2>1, ServerAssumption
    <2> QED BY <2>2, IsASeq
  <1>5. "open" \in States
    BY DEF States
  <1> HIDE DEF wire
  <1>6. /\ new \in Connection /\ new.state = "open" /\ new.who = visits' /\ new.wire = wire
        /\ new.data = <<>> /\ new.heard = <<>>
    <2>1. ASSUME NEW state \in States, NEW who \in Nat
          PROVE  /\ Opened(state, who, wire) \in Connection /\ Opened(state, who, wire).state = state
                 /\ Opened(state, who, wire).who = who /\ Opened(state, who, wire).wire = wire
                 /\ Opened(state, who, wire).data = <<>> /\ Opened(state, who, wire).heard = <<>>
      BY <1>4, <2>1, OpenedIs
    <2> QED BY <1>2, <1>5, <2>1
  <1> HIDE DEF new
  <1>7. [socket |-> s, rx |-> <<>>] \in Client
    BY DEF Client
  <1>8. /\ conn' \in [SocketIds -> Connection] /\ conn'[s] = new
        /\ \A t \in SocketIds : t # s => conn'[t] = conn[t]
    BY <1>1, <1>3, <1>6, ConnChanges
  <1>9. /\ clients' \in [1..Slots -> Client] /\ clients'[at] = [socket |-> s, rx |-> <<>>]
        /\ \A j \in 1..Slots : j # at => clients'[j] = clients[j]
    BY <1>1, <1>3, <1>7, ClientChanges
  <1>10. SocketType'
    BY <1>1, <1>8, <1>9 DEF SocketType
  <1>11. State(s) = "free" /\ Taken(at, s, "open")
    BY <1>3, <1>6, <1>8, <1>9 DEF IsNew, Free, State, Taken, Socket
  <1>12. conn'[s].wire = [k \in 1..Bytes |-> Byte(visits', k)] /\ clients'[at].rx = <<>>
    BY <1>6, <1>8, <1>9 DEF wire
  <1> QED BY <1>1, <1>2, <1>6, <1>8, <1>9, <1>10, <1>11, <1>12

LEMMA VisitSockets == ASSUME SocketInv, accept PROVE SocketInv'
  <1>1. /\ Socket(at) = None /\ at \in 1..Slots /\ UNCHANGED <<listenSocket, ref, said>>
        /\ visits' \in Nat /\ at' \in 1..Slots /\ pc' \in {"accept", "find"} /\ SocketType'
        /\ \E s \in SocketIds : State(s) = "free" /\ Taken(at, s, "open")
    BY VisitIs
  <1>2. Owned'
    BY <1>1, OwnedTaken DEF SocketInv
  <1>3. ServerType' /\ Serves' /\ pc' \in InService
    BY <1>1 DEF SocketInv, ServerType, Serves, InService
  <1> QED BY <1>1, <1>2, <1>3, ServesOn

LEMMA ServerSockets == ASSUME SocketInv, ServerStep PROVE SocketInv'
  <1>0. /\ SocketType /\ ServerType /\ at \in 1..Slots /\ ref \in 1..Slots
        /\ \A p : p \in {"accept", "find", "client", "echo", "write"} =>
              p \in InService /\ p \notin {"bind", "accepting"}
    BY DEF SocketInv, ServerType, InService
  <1>1. UNCHANGED socketVars => UNCHANGED <<conn, clients, closed_sockets>>
    BY DEF socketVars
  <1>2. \A i : IsConnected(i) => UNCHANGED <<conn, clients, closed_sockets>>
    BY <1>1 DEF IsConnected
  <1>3. ASSUME NEW i \in 1..Slots, IsConnected(i) \/ NotConnected(i)
        PROVE  SocketType' /\ (Alike \/ Dropped(i))
    BY <1>0, <1>2, <1>3, NothingChanges, LostIs
  \* The loops over the slots, when nothing is read.
  <1>4. ASSUME UNCHANGED <<listenSocket, ref, said, visits>>,
               pc \in InService, pc' \in {"accept", "find", "write"}, at' \in 1..Slots,
               pc' = "write" => pc = "write",
               SocketType', Alike \/ Dropped(at) \/ Dropped(ref)
        PROVE  SocketInv'
    <2>1. ServerType'
      BY <1>0, <1>4 DEF ServerType
    <2> QED BY <1>0, <1>4, <2>1, ServesAlike
  <1>5. CASE SlotTaken
    <2>1. pc' \in {"accept", "find"} /\ at' \in 1..Slots /\ pc = "accept"
      BY <1>0, <1>5, SlotIs DEF SlotTaken, Serving
    <2> QED BY <1>0, <1>3, <1>4, <1>5, <2>1 DEF SlotTaken
  <1>6. CASE SlotFree
    <2>1. pc' = "accepting" /\ UNCHANGED <<listenSocket, at, ref, said, visits>>
      BY <1>6 DEF SlotFree, serverVars
    <2>2. SocketType' /\ Dropped(at)
      BY <1>0, <1>6, LostIs DEF SlotFree
    <2>3. Owned'
      BY <1>0, <2>1, <2>2, OwnedDropped DEF SocketInv
    <2>4. ServerType' /\ Serves' /\ pc' \in InService
      BY <1>0, <2>1, <2>2 DEF ServerType, Serves, InService, Dropped, Socket
    <2> QED BY <2>2, <2>3, <2>4, ServesOn
  <1>7. CASE accept
    BY <1>7, VisitSockets
  <1>8. CASE NobodyWaits
    <2>1. pc' \in {"accept", "find"} /\ at' \in 1..Slots /\ pc \in InService
      BY <1>0, <1>8, SlotIs DEF NobodyWaits, Serving, InService
    <2> QED BY <1>0, <1>1, <1>4, <1>8, <2>1, NothingChanges DEF NobodyWaits
  <1>9. CASE FindsNone
    <2>1. pc' \in {"accept", "find"} /\ at' \in 1..Slots /\ pc \in InService
      BY <1>0, <1>9, SlotIs DEF FindsNone, Serving, InService
    <2> QED BY <1>0, <1>3, <1>4, <1>9, <2>1 DEF FindsNone
  <1>10. CASE FindsOne
    <2>1. ServerType' /\ pc' = "client" /\ UNCHANGED listenSocket /\ SocketType' /\ Alike
      BY <1>0, <1>2, <1>10, NothingChanges, NoSocketId DEF FindsOne, ServerType
    <2> QED BY <1>0, <2>1, ServesAlike
  <1>11. CASE ClientGone
    <2>1. pc' = "accept" /\ pc = "client" /\ UNCHANGED <<listenSocket, at, ref, said, visits>>
      BY <1>11 DEF ClientGone, serverVars, Serving
    <2> QED BY <1>0, <1>3, <1>4, <1>11, <2>1 DEF ClientGone
  <1>12. CASE ReadsByte
    <2>1. SocketType' /\ Char(ref) \in Letter /\ (Alike \/ Dropped(ref))
      BY <1>0, <1>12, ReadIs DEF ReadsByte
    <2>2. said \in Seq(Letter) /\ said' = Append(said, Char(ref))
      BY <1>0, <1>12 DEF ReadsByte, ServerType
    <2>3. said' \in Seq(Letter) /\ said' # <<>>
      BY <2>1, <2>2
    <2>4. pc' \in {"echo", "write"} /\ UNCHANGED <<listenSocket, at, ref, visits>>
      BY <1>12 DEF ReadsByte
    <2>5. ServerType'
      BY <1>0, <2>3, <2>4 DEF ServerType
    <2> QED BY <1>0, <2>1, <2>4, <2>5, ServesAlike
  <1>13. CASE Echo
    <2>1. pc = "echo" /\ pc' = "accept" /\ UNCHANGED <<listenSocket, at, ref, said, visits>>
      BY <1>13 DEF Echo, serverVars, Serving
    <2>2. Last(said) \in Letter
      BY <1>0, <2>1, LastIs DEF ServerType
    <2>3. SocketType' /\ Alike
      BY <1>0, <1>13, <2>2, HearIs DEF Echo
    <2> QED BY <1>0, <1>4, <2>1, <2>3
  <1>14. CASE WriteToSlot \/ SkipsSlot
    <2>1. pc = "write" /\ pc' \in {"write", "accept"} /\ at' \in 1..Slots
          /\ UNCHANGED <<listenSocket, ref, said, visits>>
      BY <1>0, <1>14, SlotIs DEF WriteToSlot, SkipsSlot, Serving
    <2>2. Last(said) \in Letter
      BY <1>0, <2>1, LastIs DEF ServerType
    <2>3. SocketType' /\ (Alike \/ Dropped(at))
      BY <1>0, <1>3, <1>14, <2>2, HearIs DEF WriteToSlot, SkipsSlot
    <2> QED BY <1>0, <1>4, <2>1, <2>3
  <1> QED BY <1>5, <1>6, <1>7, <1>8, <1>9, <1>10, <1>11, <1>12, <1>13, <1>14,
             ServerBeginSockets, ListensSockets DEF ServerStep

---------------------------------------------------------------------------
(* Everybody else.                                                         *)
LEMMA PeerSockets == ASSUME SocketInv, PeerSends \/ PeerLeaves, UNCHANGED serverVars PROVE SocketInv'
  <1>1. UNCHANGED <<pc, listenSocket, at, ref, said, visits>>
    BY DEF PeerSends, PeerLeaves, vars, serverVars
  <1>2. SocketType /\ ServerType /\ ServerType'
    BY <1>1 DEF SocketInv, ServerType
  <1>3. CASE PeerSends
    <2>1. SocketType' /\ Alike
      BY <1>2, <1>3, SendIs
    <2>2. Owned'
      BY <1>1, <1>2, <2>1, OwnedAlike DEF SocketInv
    <2>3. OneErrand' /\ Between' /\ Serves'
      BY <1>1, <1>2, <2>1 DEF SocketInv, ServerType, OneErrand, Between, Serves, Alike, State, Socket
    <2> QED BY <1>2, <2>1, <2>2, <2>3 DEF SocketInv
  <1>4. CASE PeerLeaves
    <2>1. /\ SocketType' /\ UNCHANGED clients
          /\ \A s \in SocketIds : State(s)' = State(s) \/ (State(s) = "open" /\ State(s)' = "left")
      BY <1>2, <1>4, LeaveIs
    <2>2. \A i \in 1..Slots : Socket(i)' = Socket(i) /\ Socket(i) \in SocketIds \cup {None}
      BY <1>2, <2>1, SocketIs DEF Socket
    <2>3. Owned'
      <3>1. ASSUME NEW i \in 1..Slots, Socket(i)' # None
            PROVE  /\ State(Socket(i))' \in {"open", "udp", "left"}
                   /\ \A j \in 1..Slots : Socket(j)' = Socket(i)' => i = j
        <4>1. Socket(i) \in SocketIds /\ Socket(i)' = Socket(i)
          BY <2>2, <3>1
        <4>2. State(Socket(i)) \in {"open", "udp", "left"} /\ \A j \in 1..Slots : Socket(j) = Socket(i) => i = j
          BY <3>1, <4>1 DEF SocketInv, Owned
        <4>3. conn'[Socket(i)].state \in {"open", "udp", "left"}
          BY <2>1, <4>1, <4>2 DEF State
        <4> QED BY <2>2, <4>1, <4>2, <4>3 DEF State
      <3>2. ASSUME listenSocket # None PROVE State(listenSocket)' = "listening"
        BY <1>1, <1>2, <2>1, <3>2 DEF SocketInv, Owned, ServerType, State
      <3>3. \A s \in SocketIds : (State(s) \in {"free", "created"} \/ Held(s))'
        BY <1>1, <2>1, <2>2 DEF SocketInv, Owned, Held
      <3> QED BY <1>1, <3>1, <3>2, <3>3 DEF Owned
    <2>4. OneErrand' /\ Between' /\ Serves'
      BY <1>1, <1>2, <2>1, <2>2 DEF SocketInv, ServerType, OneErrand, Between, Serves
    <2> QED BY <1>2, <2>1, <2>3, <2>4 DEF SocketInv
  <1> QED BY <1>3, <1>4

\* A sketch without a network yet, the chip and the interrupt.
LEMMA NetworkIs ==
    ASSUME NetworkStage
    PROVE  /\ pc \in Ahead \cup {"begin", "joining", "joined"} /\ UNCHANGED <<program, socketVars, serverVars>>
           /\ program \in DOMAIN Plan
           /\ pc' \in Ahead \cup {"halt", "joining", "joined"}
           /\ program \in Servers =>
                 pc' \in {"join", "joining", "joined", "dhcp", "details", "listen", "halt"}
  <1>1. /\ pc \in Ahead \cup {"begin", "joining", "joined"} /\ UNCHANGED <<program, socketVars, serverVars>>
        /\ program \in DOMAIN Plan
    BY DEF NetworkStage, Begins, ChecksVersion, displayMACAddress, listSSIDResults, ping, deleteProfiles,
       Joins, WaitsToJoin, JoinsAgain, Requests, ShowsDetails, Resolves, Leaves, Looks, At, NoTraffic,
       Ahead
  <1>2. pc' \in {"halt", "join", "joining", "joined"} \/ \E here : GoesOn(here)
    BY DEF NetworkStage, Begins, ChecksVersion, displayMACAddress, listSSIDResults, ping,
       deleteProfiles, Joins, connectToAP, WaitsToJoin, JoinsAgain, Requests, ShowsDetails, Resolves,
       Leaves, Looks, Fails, Halts
  <1>3. \A here : GoesOn(here) =>
           pc' \in Ahead /\ (program \in Servers => pc' \in {"join", "dhcp", "details", "listen"})
    BY <1>1, PlanGoesOn
  <1> QED BY <1>1, <1>2, <1>3 DEF Ahead

LEMMA NetworkSockets ==
    ASSUME SocketInv, NetworkStage PROVE SocketInv'
  <1>1. pc \notin OnErrand \cup InService /\ pc' \notin OnErrand \cup InService
    BY NetworkIs, Quarters DEF OnErrand, InService
  <1> QED BY <1>1, NetworkIs, StaysIdle DEF socketVars

LEMMA SketchIs ==
    ASSUME WiFiInv, WiFiInv', Sketch
    PROVE  /\ program \in Examples \cup {"door"} /\ program' = program
           /\ pc \notin OnErrand \cup InService /\ pc' \notin OnErrand \cup InService
  <1>1. program \in Examples \cup {"door"} /\ program' = program
    BY DEF Sketch, checkConfigure, NotYet, Initialise, Join, Connect, WaitToJoin, JoinedOrAgain,
       WaitForAddress, AddressOrTimeout, displayConnectionDetails, isNetworkReady, setup,
       ForgetProfiles, LeaveNetwork, startSmartConfig, ConfigDone, WaitToConnect, ShowDetails,
       Door, Example
  <1>2. pc \in Placed /\ pc' \in Placed
    BY <1>1 DEF WiFiInv, ControlInv, ControlType
  <1>3. Placed \cap (OnErrand \cup InService) = {}
    BY ComparedAre DEF Placed, OnErrand, InService
  <1> QED BY <1>1, <1>2, <1>3

LEMMA OthersSockets ==
    ASSUME SocketInv, WiFiInv, WiFiInv', Next, UNCHANGED Others
    PROVE  SocketInv'
  <1>1. UNCHANGED <<conn, clients, closed_sockets, listenSocket, at, ref, said, visits>>
        /\ UNCHANGED serverVars
    BY DEF Others, socketVars, serverVars
  <1>2. CASE Sketch
    <2>1. pc \notin OnErrand \cup InService /\ pc' \notin OnErrand \cup InService
      BY <1>2, SketchIs
    <2> QED BY <1>1, <2>1, StaysIdle
  <1>3. CASE Handle \/ FindsAp \/ Associates \/ GetsLease \/ LosesAp \/ HearsApp
    <2>1. pc' = pc
      BY <1>3 DEF Handle, FindsAp, Associates, GetsLease, LosesAp, HearsApp, host
    <2>2. SocketType' /\ Alike
      BY <1>1, NothingChanges DEF SocketInv
    <2> QED BY <1>1, <2>1, <2>2
            DEF SocketInv, ServerType, Owned, OneErrand, Between, Serves, Held, State, Socket
  <1> QED BY <1>2, <1>3 DEF Next

LEMMA SocketStart == SketchInit => SocketInv
  <1> SUFFICES ASSUME SketchInit PROVE SocketInv
    OBVIOUS
  <1>1. /\ \A s \in SocketIds : conn[s] = Idle
        /\ \A i \in 1..Slots : clients[i] = NoClient
        /\ listenSocket = None /\ at = 1 /\ ref = 1 /\ said = <<>> /\ visits = 0 /\ pc \in {"loop", "begin"}
    BY DEF SketchInit, SocketInit, ServerInit, Init
  <1>2. SocketType
    BY IdleIs DEF SketchInit, SocketInit, SocketType
  <1>3. <<>> \in Seq(Letter)
    OBVIOUS
  <1>4. ServerType
    BY <1>1, <1>3, NoSocketId DEF ServerType
  <1>5. Owned /\ Between
    BY <1>1, IdleIs DEF Owned, Between, State, Socket
  <1>6. OneErrand /\ Serves
    BY <1>1 DEF OneErrand, Serves, OnErrand
  <1> QED BY <1>2, <1>4, <1>5, <1>6 DEF SocketInv

LEMMA SocketNext == SocketInv /\ WiFiInv /\ WiFiInv' /\ [SketchesNext]_all => SocketInv'
  <1> SUFFICES ASSUME SocketInv, WiFiInv, WiFiInv', [SketchesNext]_all PROVE SocketInv'
    OBVIOUS
  <1>1. CASE Next /\ UNCHANGED Others
    BY <1>1, OthersSockets
  <1>2. CASE NetworkStage
    BY <1>2, NetworkSockets
  <1>3. CASE Errand
    <2>1. program \in DOMAIN Plan
      BY <1>3 DEF Errand, ConnectsTCP, ChecksConnection, SendsRequest, ReadsPage, StopsReading, ClosesPage,
         FindsTimeServer, ConnectsUDP, AsksTime, TimeOrNot, Timed, Round, HourLater, OpensNTP, SNTP_GetTime,
         HearsNTP, At
    <2> QED BY <1>3, <2>1, ErrandSockets
  <1>4. CASE ServerStep
    BY <1>4, ServerSockets
  <1>5. CASE (PeerSends \/ PeerLeaves) /\ UNCHANGED serverVars
    BY <1>5, PeerSockets
  <1>6. CASE UNCHANGED all
    <2>1. UNCHANGED <<pc, conn, clients, closed_sockets, listenSocket, at, ref, said, visits>>
      BY <1>6 DEF all, vars, socketVars, serverVars
    <2>2. SocketType' /\ Alike
      BY <2>1, NothingChanges DEF SocketInv
    <2> QED BY <2>1, <2>2
            DEF SocketInv, ServerType, Owned, OneErrand, Between, Serves, Held, State, Socket
  <1> QED BY <1>1, <1>2, <1>3, <1>4, <1>5, <1>6 DEF SketchesNext

LEMMA SocketsInvKept == SocketInv => SocketsKept
  <1> SUFFICES ASSUME SocketInv PROVE SocketsKept
    OBVIOUS
  <1>1. \A s \in SocketIds : s \in InUse <=> State(s) # "free"
    BY DEF InUse, Free, State
  <1>2. ASSUME NEW i \in 1..Slots, Socket(i) # None
        PROVE  /\ Socket(i) \in InUse \ {listenSocket}
               /\ \A j \in 1..Slots : Socket(j) = Socket(i) => i = j
    <2>1. Socket(i) \in SocketIds /\ State(Socket(i)) \in {"open", "udp", "left"}
      BY <1>2, SocketIs DEF SocketInv, Owned
    <2>2. Socket(i) # listenSocket
      BY <1>2, <2>1 DEF SocketInv, Owned
    <2>3. \A j \in 1..Slots : Socket(j) = Socket(i) => i = j
      BY <1>2 DEF SocketInv, Owned
    <2> QED BY <1>1, <2>1, <2>2, <2>3
  <1>3. \A s \in InUse : Held(s) \/ conn[s].state = "created"
    BY <1>1 DEF SocketInv, Owned, State, InUse
  <1>4. ASSUME pc \in {"end", "halt", "round", "hour"} PROVE InUse = {}
    <2>1. pc \notin OnErrand \cup InService
      BY <1>4 DEF OnErrand, InService
    <2>2. \A s \in SocketIds : State(s) = "free"
      BY <2>1, NothingOpen
    <2> QED BY <1>1, <2>2 DEF InUse
  <1> QED BY <1>2, <1>3, <1>4 DEF SocketsKept

(* The few sockets of the chip are kept: a number is in one place only, none *)
(* in use is forgotten but the one a failed begin() of the server gave up,   *)
(* and a sketch through with an errand has closed what it opened.            *)
THEOREM SocketsKeptTheorem == SketchesSpec => []SocketsKept
  <1>1. SketchInit => WiFiInv
    BY WiFiStart DEF SketchInit
  <1>2. WiFiInv /\ [SketchesNext]_all => WiFiInv'
    BY WiFiNext
  <1>3. SketchInit => SocketInv
    BY SocketStart
  <1>4. SocketInv /\ WiFiInv /\ WiFiInv' /\ [SketchesNext]_all => SocketInv'
    BY SocketNext
  <1>5. SocketInv => SocketsKept
    BY SocketsInvKept
  <1> QED BY <1>1, <1>2, <1>3, <1>4, <1>5, PTL DEF SketchesSpec

---------------------------------------------------------------------------
(* What the visitors of a server hear.                                     *)
Numbered(who, seq, from) == \A k \in 1..Len(seq) : seq[k] = Byte(who, from + k)

IsOpen(i)  == Socket(i) # None /\ State(Socket(i)) = "open"
Heard(i)   == conn[Socket(i)].heard
Who(i)     == conn[Socket(i)].who
Waiting(i) == clients[i].rx \o conn[Socket(i)].data \o conn[Socket(i)].wire

\* A byte read and not yet given back, a byte not yet written to the slot.
Pending(i) == IF pc = "echo" /\ i = ref THEN 1 ELSE 0
Unsaid(i)  == IF pc = "write" /\ i >= at THEN 1 ELSE 0

\* What a visitor says and hears is its bytes in their order, the waiting after the heard.
EchoInv ==
    program = "echo" =>
        /\ \A s \in SocketIds : Numbered(conn[s].who, conn[s].heard, 0)
        /\ \A i \in 1..Slots : IsOpen(i) =>
              /\ Numbered(Who(i), Waiting(i), Len(Heard(i)) + Pending(i))
              /\ Pending(i) = 1 => Last(said) = Byte(Who(i), Len(Heard(i)) + 1)

\* A visitor that is there has heard all since it came, but the byte to be written.
Stretch(seq) == \E i, j \in 0..Len(said) : seq = SubSeq(said, i + 1, j)
UpTo(seq, n) == \E k \in 0..Len(said) : seq = SubSeq(said, k + 1, n)

ChatInv ==
    program = "chat" =>
        /\ \A s \in SocketIds : Stretch(conn[s].heard)
        /\ \A i \in 1..Slots : IsOpen(i) => UpTo(Heard(i), Len(said) - Unsaid(i))

\* The others listen to nobody, and a server runs no errand.
Silence == program \notin Servers => \A s \in SocketIds : conn[s].heard = <<>>

ServerPlaced ==
    /\ program \in Servers =>
          pc \in {"begin", "join", "joining", "joined", "dhcp", "details", "listen", "halt"} \cup InService
    /\ pc = "client" => program \in Servers /\ at = 1
    /\ pc = "echo" => program = "echo"
    /\ pc = "write" => program = "chat"

HeardInv == EchoInv /\ ChatInv /\ Silence /\ ServerPlaced

LEMMA NumberedTail ==
    ASSUME NEW who, NEW from \in Nat, NEW seq \in Seq(Letter), seq # <<>>, Numbered(who, seq, from)
    PROVE  Head(seq) = Byte(who, from + 1) /\ Numbered(who, Tail(seq), from + 1)
  <1>1. Len(seq) \in Nat /\ 1 \in 1..Len(seq) /\ Head(seq) = seq[1] /\ Len(Tail(seq)) = Len(seq) - 1
    OBVIOUS
  <1>2. ASSUME NEW k \in 1..Len(Tail(seq)) PROVE Tail(seq)[k] = Byte(who, (from + 1) + k)
    <2>1. k + 1 \in 1..Len(seq) /\ from + (k + 1) = (from + 1) + k
      BY <1>1
    <2>2. Tail(seq)[k] = seq[k + 1]
      BY <1>1
    <2>3. seq[k + 1] = Byte(who, from + (k + 1))
      BY <2>1 DEF Numbered
    <2> QED BY <2>1, <2>2, <2>3
  <1> QED BY <1>1, <1>2 DEF Numbered

LEMMA NumberedAppend ==
    ASSUME NEW who, NEW seq \in Seq(Letter), NEW c \in Letter, Numbered(who, seq, 0),
           c = Byte(who, Len(seq) + 1)
    PROVE  Numbered(who, Append(seq, c), 0)
  <1> DEFINE n == Len(seq)
             t == Append(seq, c)
  <1>1. n \in Nat /\ Len(t) = n + 1 /\ t[n + 1] = c /\ \A k \in 1..n : t[k] = seq[k]
    OBVIOUS
  <1>2. \A k \in 1..n : seq[k] = Byte(who, 0 + k)
    BY DEF Numbered
  <1> HIDE DEF t
  <1>3. ASSUME NEW k \in 1..(n + 1) PROVE t[k] = Byte(who, 0 + k)
    <2>1. CASE k \in 1..n
      BY <1>1, <1>2, <2>1
    <2>2. CASE k = n + 1
      <3>1. 0 + k = n + 1
        BY <1>1, <2>2
      <3> QED BY <1>1, <2>2, <3>1
    <2> QED BY <1>1, <2>1, <2>2
  <1> HIDE DEF n
  <1>4. Numbered(who, t, 0)
    BY <1>1, <1>3 DEF Numbered
  <1> QED BY <1>4 DEF t

LEMMA NumberedAll ==
    ASSUME NEW who, NEW seq \in Seq(Letter), Numbered(who, seq, 0)
    PROVE  seq = [k \in 1..Len(seq) |-> Byte(who, k)]
  <1>1. \A k \in 1..Len(seq) : 0 + k = k
    OBVIOUS
  <1>2. \A k \in 1..Len(seq) : seq[k] = Byte(who, k)
    BY <1>1 DEF Numbered
  <1> QED BY <1>2

LEMMA NothingNumbered == \A who, from : Numbered(who, <<>>, from)
  BY DEF Numbered

\* Parts of what was said, before and after a byte more.
LEMMA PartOfAppend ==
    ASSUME NEW S, NEW seq \in Seq(S), NEW c \in S, NEW i \in 0..Len(seq), NEW j \in 0..Len(seq)
    PROVE  SubSeq(Append(seq, c), i + 1, j) = SubSeq(seq, i + 1, j)
  <1> DEFINE t == Append(seq, c)
             a == SubSeq(t, i + 1, j)
             b == SubSeq(seq, i + 1, j)
  <1>1. t \in Seq(S) /\ Len(t) = Len(seq) + 1 /\ \A k \in 1..Len(seq) : t[k] = seq[k]
    OBVIOUS
  <1>2. i + 1 \in 1..(Len(seq) + 1) /\ j \in 0..Len(seq) /\ Len(seq) \in Nat
    OBVIOUS
  <1> HIDE DEF t
  <1>3. CASE i >= j
    BY <1>1, <1>2, <1>3, SubSeqEmpty
  <1>4. CASE i < j
    <2>1. /\ a \in Seq(S) /\ b \in Seq(S) /\ Len(a) = Len(b) /\ Len(a) = j - i
          /\ \A k \in 1..(j - i) : a[k] = t[i + k] /\ b[k] = seq[i + k]
      BY <1>1, <1>2, <1>4
    <2>2. \A k \in 1..(j - i) : i + k \in 1..Len(seq)
      BY <1>2, <1>4
    <2>3. \A k \in 1..Len(a) : a[k] = b[k]
      BY <1>1, <2>1, <2>2
    <2> HIDE DEF a, b
    <2>4. a = b
      BY <2>1, <2>3, SeqEqual
    <2> QED BY <2>4 DEF a, b, t
  <1> QED BY <1>2, <1>3, <1>4 DEF t

LEMMA StretchAppend ==
    ASSUME NEW seq, NEW c \in Letter, said \in Seq(Letter), said' = Append(said, c), Stretch(seq)
    PROVE  \E i, j \in 0..Len(said') : seq = SubSeq(said', i + 1, j)
  <1>1. PICK i \in 0..Len(said), j \in 0..Len(said) : seq = SubSeq(said, i + 1, j)
    BY DEF Stretch
  <1>2. SubSeq(said', i + 1, j) = seq
    BY <1>1, PartOfAppend
  <1>3. Len(said') = Len(said) + 1 /\ Len(said) \in Nat
    OBVIOUS
  <1>4. i \in 0..Len(said') /\ j \in 0..Len(said')
    BY <1>3
  <1> QED BY <1>2, <1>4

\* A visitor that had heard all before a byte more.
LEMMA UpToAppend ==
    ASSUME NEW seq, NEW c \in Letter, said \in Seq(Letter), said' = Append(said, c),
           UpTo(seq, Len(said))
    PROVE  \E k \in 0..Len(said') : seq = SubSeq(said', k + 1, Len(said') - 1)
  <1>1. PICK k \in 0..Len(said) : seq = SubSeq(said, k + 1, Len(said))
    BY DEF UpTo
  <1>2. Len(said') = Len(said) + 1 /\ Len(said) \in Nat /\ Len(said) \in 0..Len(said)
    OBVIOUS
  <1>3. SubSeq(said', k + 1, Len(said)) = seq
    BY <1>1, <1>2, PartOfAppend
  <1>4. k \in 0..Len(said') /\ Len(said') - 1 = Len(said)
    BY <1>2
  <1> QED BY <1>3, <1>4

\* A visitor that hears the last byte.
LEMMA UpToLast ==
    ASSUME NEW seq, said \in Seq(Letter), said # <<>>, UpTo(seq, Len(said) - 1)
    PROVE  UpTo(Append(seq, Last(said)), Len(said))
  <1> DEFINE n == Len(said)
  <1>1. n \in Nat /\ n > 0 /\ Last(said) = said[n] /\ said[n] \in Letter
    BY DEF Last
  <1>2. PICK k \in 0..n : seq = SubSeq(said, k + 1, n - 1)
    BY DEF UpTo
  <1>3. PICK m \in 1..n : seq = SubSeq(said, m, n - 1)
    <2>1. CASE k < n
      <3>1. k + 1 \in 1..n
        BY <1>1, <2>1
      <3> QED BY <1>2, <3>1
    <2>2. CASE k = n
      <3>1. n \in 1..n /\ n - 1 < n /\ n - 1 < k + 1 /\ n \in Int /\ n - 1 \in Int /\ k + 1 \in Int
        BY <1>1, <2>2
      <3>2. SubSeq(said, n, n - 1) = <<>> /\ SubSeq(said, k + 1, n - 1) = <<>>
        BY <3>1, SubSeqEmpty
      <3> QED BY <1>2, <3>1, <3>2
    <2> QED BY <1>1, <2>1, <2>2
  <1> DEFINE c == said[n]
  <1>4. seq \in Seq(Letter) /\ Append(seq, c) = seq \o <<c>>
    <2>1. \A q \in m..(n - 1) : said[q] \in Letter
      BY <1>1
    <2>2. m \in Int /\ n - 1 \in Int
      BY <1>1
    <2>3. SubSeq(said, m, n - 1) \in Seq(Letter)
      BY <2>1, <2>2, SubSeqProperties
    <2>4. seq \in Seq(Letter)
      BY <1>3, <2>3
    <2> HIDE DEF n, c
    <2>5. c \in Letter
      BY <1>1 DEF c
    <2> QED BY <2>4, <2>5, AppendIsConcat
  <1>5. SubSeq(said, m, n) = SubSeq(said, m, n - 1) \o <<c>>
    <2>1. n \in m..Len(said)
      BY <1>1
    <2> QED BY <2>1, SubSeqRecursiveSecond
  <1>6. m - 1 \in 0..n /\ (m - 1) + 1 = m
    BY <1>1
  <1>7. Append(seq, c) = SubSeq(said, (m - 1) + 1, n)
    BY <1>3, <1>4, <1>5, <1>6
  <1>8. Last(said) = c
    BY <1>1
  <1> HIDE DEF c
  <1> QED BY <1>6, <1>7, <1>8 DEF UpTo

---------------------------------------------------------------------------
(* Most steps: a slot as it was, one with no open socket, or a new visitor. *)
SameSlot(i) ==
    /\ IsOpen(i) /\ Heard(i)' = Heard(i) /\ Who(i)' = Who(i) /\ Waiting(i)' = Waiting(i)
    /\ Pending(i)' = Pending(i) /\ Unsaid(i)' = Unsaid(i)

NewSlot(i) ==
    /\ Heard(i)' = <<>> /\ Numbered(Who(i)', Waiting(i)', 0)
    /\ Pending(i)' = 0 /\ Unsaid(i)' = 0

Plain ==
    /\ UNCHANGED <<program, said>>
    /\ \A s \in SocketIds :
          \/ conn'[s].heard = <<>>
          \/ conn'[s].heard = conn[s].heard /\ conn'[s].who = conn[s].who
    /\ program \in Servers => \A i \in 1..Slots : IsOpen(i)' => SameSlot(i) \/ NewSlot(i)

LEMMA NothingHeard ==
    ASSUME said \in Seq(Letter)
    PROVE  Stretch(<<>>) /\ UpTo(<<>>, Len(said))
  <1>1. Len(said) \in Nat /\ Len(said) \in 0..Len(said) /\ Len(said) < Len(said) + 1
        /\ Len(said) \in Int /\ Len(said) + 1 \in Int
    OBVIOUS
  <1>2. SubSeq(said, Len(said) + 1, Len(said)) = <<>>
    BY <1>1, SubSeqEmpty
  <1> QED BY <1>1, <1>2 DEF Stretch, UpTo

LEMMA PlainKeeps ==
    ASSUME HeardInv, SocketInv, Plain, ServerPlaced'
    PROVE  HeardInv'
  <1>1. said \in Seq(Letter) /\ said' = said /\ program' = program /\ Len(said) - 0 = Len(said)
    BY DEF Plain, SocketInv, ServerType
  <1>2. EchoInv'
    <2> SUFFICES ASSUME program = "echo"
                 PROVE  /\ \A s \in SocketIds : Numbered(conn[s].who, conn[s].heard, 0)'
                        /\ \A i \in 1..Slots : (IsOpen(i) =>
                              /\ Numbered(Who(i), Waiting(i), Len(Heard(i)) + Pending(i))
                              /\ Pending(i) = 1 => Last(said) = Byte(Who(i), Len(Heard(i)) + 1))'
      BY <1>1 DEF EchoInv
    <2>1. ASSUME NEW s \in SocketIds PROVE Numbered(conn[s].who, conn[s].heard, 0)'
      <3>1. Numbered(conn'[s].who, conn'[s].heard, 0)
        BY NothingNumbered DEF Plain, HeardInv, EchoInv
      <3> QED BY <3>1 DEF Numbered, Byte
    <2>2. ASSUME NEW i \in 1..Slots, IsOpen(i)'
          PROVE  /\ Numbered(Who(i)', Waiting(i)', Len(Heard(i)') + Pending(i)')
                 /\ Pending(i)' = 1 => Last(said') = Byte(Who(i)', Len(Heard(i)') + 1)
      <3>1. CASE SameSlot(i)
        BY <1>1, <3>1 DEF SameSlot, HeardInv, EchoInv
      <3>2. CASE NewSlot(i)
        <4>1. Len(<<>>) + 0 = 0
          OBVIOUS
        <4>2. Len(Heard(i)') + Pending(i)' = 0 /\ Pending(i)' # 1
          BY <3>2, <4>1 DEF NewSlot
        <4> QED BY <3>2, <4>2 DEF NewSlot
      <3> QED BY <2>2, <3>1, <3>2 DEF Plain, Servers
    <2>3. ASSUME NEW i \in 1..Slots, IsOpen(i)'
          PROVE  (/\ Numbered(Who(i), Waiting(i), Len(Heard(i)) + Pending(i))
                  /\ Pending(i) = 1 => Last(said) = Byte(Who(i), Len(Heard(i)) + 1))'
      BY <2>2, <2>3 DEF Numbered, Byte
    <2> QED BY <2>1, <2>3
  <1>3. ChatInv'
    <2> SUFFICES ASSUME program = "chat"
                 PROVE  /\ \A s \in SocketIds : Stretch(conn[s].heard)'
                        /\ \A i \in 1..Slots : IsOpen(i)' => UpTo(Heard(i), Len(said) - Unsaid(i))'
      BY <1>1 DEF ChatInv
    <2>1. ASSUME NEW s \in SocketIds PROVE Stretch(conn[s].heard)'
      <3>1. Stretch(conn'[s].heard)
        BY <1>1, NothingHeard DEF Plain, HeardInv, ChatInv
      <3> QED BY <1>1, <3>1 DEF Stretch
    <2>2. ASSUME NEW i \in 1..Slots, IsOpen(i)'
          PROVE  UpTo(Heard(i)', Len(said) - Unsaid(i)')
      <3>1. CASE SameSlot(i)
        BY <1>1, <3>1 DEF SameSlot, HeardInv, ChatInv
      <3>2. CASE NewSlot(i)
        BY <1>1, <3>2, NothingHeard DEF NewSlot
      <3> QED BY <2>2, <3>1, <3>2 DEF Plain, Servers
    <2>3. ASSUME NEW i \in 1..Slots, IsOpen(i)'
          PROVE  UpTo(Heard(i), Len(said) - Unsaid(i))'
      BY <1>1, <2>2, <2>3 DEF UpTo
    <2> QED BY <2>1, <2>3
  <1>4. Silence'
    BY <1>1 DEF Plain, HeardInv, Silence
  <1> QED BY <1>2, <1>3, <1>4 DEF HeardInv

LEMMA Unhurried ==
    ASSUME pc \notin {"echo", "write"}, pc' \notin {"echo", "write"}
    PROVE  \A i \in 1..Slots : Pending(i)' = Pending(i) /\ Unsaid(i)' = Unsaid(i) /\ Pending(i)' = 0 /\ Unsaid(i)' = 0
  BY DEF Pending, Unsaid

LEMMA SamePlain ==
    ASSUME UNCHANGED <<program, said, conn, clients>>,
           \A i \in 1..Slots : Pending(i)' = Pending(i) /\ Unsaid(i)' = Unsaid(i)
    PROVE  Plain
  <1>1. \A s \in SocketIds : conn'[s].heard = conn[s].heard /\ conn'[s].who = conn[s].who
    OBVIOUS
  <1>2. ASSUME NEW i \in 1..Slots, IsOpen(i)' PROVE SameSlot(i)
    BY <1>2 DEF SameSlot, IsOpen, Heard, Who, Waiting, Socket, State
  <1> QED BY <1>1, <1>2 DEF Plain

\* A slot whose connection is the one it was.
LEMMA SlotStays ==
    ASSUME NEW i \in 1..Slots, IsOpen(i)', clients'[i] = clients[i], conn'[Socket(i)] = conn[Socket(i)]
    PROVE  IsOpen(i) /\ Heard(i)' = Heard(i) /\ Who(i)' = Who(i) /\ Waiting(i)' = Waiting(i)
  <1>1. Socket(i)' = Socket(i)
    BY DEF Socket
  <1>2. conn'[Socket(i)'] = conn[Socket(i)]
    BY <1>1
  <1> QED BY <1>1, <1>2 DEF IsOpen, Heard, Who, Waiting, State

LEMMA LosesPlain ==
    ASSUME SocketInv, UNCHANGED <<program, said>>, NEW i \in 1..Slots, NotConnected(i),
           \A j \in 1..Slots : j # i => Pending(j)' = Pending(j) /\ Unsaid(j)' = Unsaid(j)
    PROVE  Plain
  <1>1. /\ SocketType /\ Dropped(i)
        /\ \A t \in SocketIds : conn'[t] = IF t = Socket(i) THEN Idle ELSE conn[t]
        /\ \A j \in 1..Slots : j # i => clients'[j] = clients[j]
    BY LostIs DEF SocketInv
  <1>2. Idle.heard = <<>>
    BY DEF Idle
  <1>3. ASSUME NEW j \in 1..Slots, IsOpen(j)' PROVE SameSlot(j)
    <2>1. j # i /\ Socket(j)' = Socket(j) /\ Socket(j) # None
      BY <1>1, <1>3 DEF IsOpen, Dropped
    <2>2. Socket(j) \in SocketIds /\ Socket(j) # Socket(i)
      BY <1>1, <2>1, SocketIs DEF SocketInv, Owned
    <2>3. conn'[Socket(j)] = conn[Socket(j)] /\ clients'[j] = clients[j]
      BY <1>1, <2>1, <2>2
    <2> QED BY <1>3, <2>1, <2>3, SlotStays DEF SameSlot
  <1> QED BY <1>1, <1>2, <1>3 DEF Plain

LEMMA VisitPlain == ASSUME SocketInv, accept PROVE Plain
  <1>1. /\ Socket(at) = None /\ at \in 1..Slots /\ UNCHANGED said
        /\ visits' \in Nat /\ pc' \in {"accept", "find"}
        /\ SocketType'
    BY VisitIs
  <1>2. PICK s \in SocketIds :
            /\ State(s) = "free" /\ Taken(at, s, "open")
            /\ \A t \in SocketIds : t # s => conn'[t] = conn[t]
            /\ conn'[s].heard = <<>> /\ conn'[s].data = <<>> /\ conn'[s].who = visits'
            /\ conn'[s].wire = [k \in 1..Bytes |-> Byte(visits', k)]
            /\ \A j \in 1..Slots : j # at => clients'[j] = clients[j]
            /\ clients'[at].rx = <<>>
    BY VisitIs
  <1>0. PICK a \in 1..Slots : a = at
    BY <1>1
  <1>3. program' = program /\ pc = "accepting" /\ SocketType
    BY DEF accept, Serving, wifiRest, SocketInv
  <1>4. \A i \in 1..Slots : Pending(i)' = Pending(i) /\ Unsaid(i)' = Unsaid(i) /\ Pending(i)' = 0 /\ Unsaid(i)' = 0
    BY <1>1, <1>3, Unhurried
  <1>5. ASSUME NEW j \in 1..Slots, IsOpen(j)', j # a PROVE SameSlot(j)
    <2>1. Socket(j)' = Socket(j) /\ Socket(j) # None
      BY <1>0, <1>2, <1>5 DEF IsOpen, Taken
    <2>2. Socket(j) \in SocketIds /\ Socket(j) # s
      BY <1>2, <1>3, <2>1, SocketIs DEF SocketInv, Owned
    <2>3. conn'[Socket(j)] = conn[Socket(j)] /\ clients'[j] = clients[j]
      BY <1>0, <1>2, <1>5, <2>2
    <2> QED BY <1>4, <1>5, <2>3, SlotStays DEF SameSlot
  <1>6. NewSlot(a)
    <2>1. Socket(a)' = s
      BY <1>0, <1>2 DEF Taken
    <2> DEFINE wire == conn'[s].wire
    <2>2. wire \in Seq(Letter)
      <3>1. conn'[s] \in Connection
        BY <1>1 DEF SocketType
      <3> QED BY <3>1 DEF Connection
    <2>3. <<>> \o <<>> \o wire = wire
      BY <2>2
    <2>4. clients'[a].rx \o conn'[s].data \o conn'[s].wire = conn'[s].wire
      BY <1>0, <1>2, <2>3
    <2>5. ASSUME NEW k \in 1..Len(wire) PROVE wire[k] = Byte(visits', 0 + k)
      <3>1. Len(wire) = Bytes
        BY <1>2, ServerAssumption
      <3>2. k \in 1..Bytes /\ 0 + k = k
        BY <3>1
      <3> QED BY <1>2, <3>2
    <2>6. Numbered(visits', wire, 0)
      BY <2>5 DEF Numbered
    <2>8. Waiting(a)' = wire /\ Who(a)' = visits' /\ Heard(a)' = <<>>
      <3>1. conn'[Socket(a)'] = conn'[s]
        BY <2>1
      <3> QED BY <1>2, <2>4, <3>1 DEF Waiting, Who, Heard
    <2> HIDE DEF wire
    <2> QED BY <1>1, <1>4, <2>6, <2>8 DEF NewSlot
  <1> QED BY <1>1, <1>2, <1>3, <1>5, <1>6 DEF Plain

LEMMA ListenPlain ==
    ASSUME SocketInv, ServerBegin \/ Listens
    PROVE  Plain
  <1>1. /\ pc \in {"listen", "bind"} /\ pc' \in {"bind", "accept"}
        /\ UNCHANGED <<program, said, clients>> /\ SocketType
    BY DEF ServerBegin, Listens, GivesUp, Serving, wifiRest, SocketInv
  <1>2. \A i \in 1..Slots : Pending(i)' = Pending(i) /\ Unsaid(i)' = Unsaid(i)
    BY <1>1, Unhurried
  <1>3. CASE UNCHANGED conn
    BY <1>1, <1>2, <1>3, SamePlain
  <1>4. CASE ServerBegin /\ \E s \in SocketIds : conn' = [conn EXCEPT ![s] = Opened("created", 0, <<>>)]
    <2>1. PICK s \in SocketIds : conn' = [conn EXCEPT ![s] = Opened("created", 0, <<>>)]
      BY <1>4
    <2>2. Opened("created", 0, <<>>).heard = <<>>
      BY OpenedNone DEF States
    <2>3. conn'[s].heard = <<>> /\ \A t \in SocketIds : t # s => conn'[t] = conn[t]
      BY <1>1, <2>1, <2>2 DEF SocketType
    <2>4. pc \notin OnErrand \cup InService
      BY <1>4 DEF ServerBegin, Serving, OnErrand, InService
    <2>5. \A i \in 1..Slots : Socket(i)' = None
      BY <1>1, <2>4, NothingOpen DEF Socket
    <2> QED BY <1>1, <2>3, <2>5 DEF Plain, IsOpen
  <1>5. CASE \E s \in SocketIds : /\ conn[s].state = "created"
                                  /\ conn' = [conn EXCEPT ![s].state = "listening"]
    <2>1. PICK s \in SocketIds : /\ conn[s].state = "created"
                                 /\ conn' = [conn EXCEPT ![s].state = "listening"]
      BY <1>5
    <2>2. conn'[s].heard = conn[s].heard /\ conn'[s].who = conn[s].who
          /\ \A t \in SocketIds : t # s => conn'[t] = conn[t]
      <3>1. conn[s] \in Connection
        BY <1>1 DEF SocketType
      <3> QED BY <1>1, <2>1, <3>1 DEF SocketType, Connection
    <2>3. ASSUME NEW i \in 1..Slots, IsOpen(i)' PROVE SameSlot(i)
      <3>1. Socket(i) # None /\ clients'[i] = clients[i]
        BY <1>1, <2>3 DEF IsOpen, Socket
      <3>2. Socket(i) \in SocketIds /\ Socket(i) # s
        BY <1>1, <2>1, <3>1, SocketIs DEF SocketInv, Owned, State
      <3>3. conn'[Socket(i)] = conn[Socket(i)]
        BY <2>2, <3>2
      <3> QED BY <1>2, <2>3, <3>1, <3>3, SlotStays DEF SameSlot
    <2> QED BY <1>1, <2>2, <2>3 DEF Plain
  <1> QED BY <1>3, <1>4, <1>5 DEF ServerBegin, Listens

LEMMA LoopPlain ==
    ASSUME SocketInv,
           SlotTaken \/ SlotFree \/ NobodyWaits \/ FindsNone \/ FindsOne \/ ClientGone \/ SkipsSlot
    PROVE  Plain
  <1>1. at \in 1..Slots /\ ref \in 1..Slots /\ UNCHANGED <<program, said>>
    BY DEF SocketInv, ServerType, SlotTaken, SlotFree, NobodyWaits, FindsNone, FindsOne, ClientGone,
       SkipsSlot, Serving, wifiRest, serverVars
  <1>2. \A i : IsConnected(i) => UNCHANGED <<conn, clients>>
    BY DEF IsConnected, socketVars
  <1>3. CASE SkipsSlot
    <2>1. NotConnected(at) /\ NextSlot("write", "accept") /\ pc = "write" /\ UNCHANGED ref
      BY <1>3 DEF SkipsSlot, Serving
    <2>2. \A j \in 1..Slots : j # at => Pending(j)' = Pending(j) /\ Unsaid(j)' = Unsaid(j)
      <3>1. CASE at < Slots
        <4>1. at' = at + 1 /\ pc' = "write"
          BY <2>1, <3>1 DEF NextSlot
        <4> QED BY <1>1, <2>1, <4>1, NoSocketId DEF Pending, Unsaid
      <3>2. CASE ~(at < Slots)
        <4>1. pc' = "accept" /\ at = Slots
          BY <1>1, <2>1, <3>2, NoSocketId DEF NextSlot
        <4> QED BY <1>1, <2>1, <4>1, NoSocketId DEF Pending, Unsaid
      <3> QED BY <3>1, <3>2
    <2> QED BY <1>1, <2>1, <2>2, LosesPlain
  <1>4. CASE ~SkipsSlot
    <2>1. pc \in {"accept", "accepting", "find", "client"} /\ pc' \in {"accept", "accepting", "find", "client"}
      BY <1>4 DEF SlotTaken, SlotFree, NobodyWaits, FindsNone, FindsOne, ClientGone, Serving, NextSlot
    <2>2. \A i \in 1..Slots : Pending(i)' = Pending(i) /\ Unsaid(i)' = Unsaid(i)
      BY <2>1, Unhurried
    <2>3. UNCHANGED <<conn, clients>> \/ NotConnected(at) \/ NotConnected(ref)
      BY <1>2, <1>4 DEF SlotTaken, SlotFree, NobodyWaits, FindsNone, FindsOne, ClientGone, socketVars
    <2>4. CASE UNCHANGED <<conn, clients>>
      BY <1>1, <2>2, <2>4, SamePlain
    <2>5. CASE NotConnected(at)
      BY <1>1, <2>2, <2>5, LosesPlain
    <2>6. CASE NotConnected(ref)
      BY <1>1, <2>2, <2>6, LosesPlain
    <2> QED BY <2>3, <2>4, <2>5, <2>6
  <1> QED BY <1>3, <1>4

LEMMA PeerPlain == ASSUME SocketInv, PeerSends \/ PeerLeaves, UNCHANGED serverVars PROVE Plain
  <1>1. UNCHANGED <<pc, program, listenSocket, at, ref, said, visits>> /\ SocketType
    BY DEF PeerSends, PeerLeaves, vars, serverVars, SocketInv
  <1>2. \A i \in 1..Slots : Pending(i)' = Pending(i) /\ Unsaid(i)' = Unsaid(i)
    BY <1>1 DEF Pending, Unsaid
  <1>3. CASE PeerSends
    <2>1. /\ Alike /\ UNCHANGED clients
          /\ \A s \in SocketIds :
                /\ conn'[s].heard = conn[s].heard /\ conn'[s].who = conn[s].who
                /\ conn'[s].data \o conn'[s].wire = conn[s].data \o conn[s].wire
          /\ SocketType'
      BY <1>1, <1>3, SendIs
    <2>2. ASSUME NEW i \in 1..Slots, IsOpen(i)' PROVE SameSlot(i)
      <3> DEFINE s == Socket(i)
      <3>1. s \in SocketIds /\ Socket(i)' = s /\ State(s)' = State(s)
        BY <1>1, <2>1, <2>2, SocketIs DEF IsOpen, Alike
      <3>2. /\ clients[i].rx \in Seq(Letter) /\ conn[s].data \in Seq(Letter) /\ conn[s].wire \in Seq(Letter)
        BY <1>1, <3>1, SocketIs, ConnIs
      <3>3. conn'[s].data \in Seq(Letter) /\ conn'[s].wire \in Seq(Letter)
        <4>1. conn'[s] \in Connection
          BY <2>1, <3>1 DEF SocketType
        <4> QED BY <4>1 DEF Connection
      <3> HIDE DEF s
      <3>4. clients[i].rx \o conn'[s].data \o conn'[s].wire = clients[i].rx \o conn[s].data \o conn[s].wire
        <4> DEFINE rx == clients[i].rx
                   d1 == conn[s].data
                   w1 == conn[s].wire
                   d2 == conn'[s].data
                   w2 == conn'[s].wire
        <4>1. rx \in Seq(Letter) /\ d1 \in Seq(Letter) /\ w1 \in Seq(Letter) /\ d2 \in Seq(Letter)
              /\ w2 \in Seq(Letter)
          BY <3>2, <3>3
        <4>2. d2 \o w2 = d1 \o w1
          BY <2>1, <3>1
        <4> HIDE DEF rx, d1, w1, d2, w2
        <4>3. (rx \o d2) \o w2 = rx \o (d2 \o w2)
          BY <4>1
        <4>4. (rx \o d1) \o w1 = rx \o (d1 \o w1)
          BY <4>1
        <4>5. (rx \o d2) \o w2 = (rx \o d1) \o w1
          BY <4>2, <4>3, <4>4
        <4> QED BY <4>5 DEF rx, d1, w1, d2, w2
      <3>5. Waiting(i)' = Waiting(i)
        <4>1. conn'[Socket(i)'] = conn'[s] /\ conn[Socket(i)] = conn[s] /\ clients' = clients
          BY <2>1, <3>1 DEF s
        <4> QED BY <3>4, <4>1 DEF Waiting
      <3>6. Heard(i)' = Heard(i) /\ Who(i)' = Who(i)
        <4>1. conn'[Socket(i)'] = conn'[s] /\ conn[Socket(i)] = conn[s]
          BY <3>1 DEF s
        <4> QED BY <2>1, <3>1, <4>1 DEF Heard, Who
      <3>7. IsOpen(i)
        BY <2>2, <3>1 DEF IsOpen, State, s
      <3> QED BY <1>2, <3>5, <3>6, <3>7 DEF SameSlot
    <2> QED BY <1>1, <2>1, <2>2 DEF Plain
  <1>4. CASE PeerLeaves
    <2>1. /\ UNCHANGED clients
          /\ \A s \in SocketIds :
                 /\ \/ State(s)' = State(s) /\ conn'[s] = conn[s]
                    \/ State(s) = "open" /\ State(s)' = "left"
                 /\ conn'[s].heard = conn[s].heard /\ conn'[s].who = conn[s].who
      BY <1>1, <1>4, LeaveIs
    <2>2. ASSUME NEW i \in 1..Slots, IsOpen(i)' PROVE SameSlot(i)
      <3>1. Socket(i)' = Socket(i) /\ Socket(i) # None /\ conn'[Socket(i)].state = "open"
        BY <2>1, <2>2 DEF IsOpen, Socket, State
      <3>2. Socket(i) \in SocketIds
        BY <1>1, <3>1, SocketIs
      <3>3. conn'[Socket(i)] = conn[Socket(i)]
        BY <2>1, <3>1, <3>2 DEF State
      <3> QED BY <1>2, <2>1, <2>2, <3>3, SlotStays DEF SameSlot
    <2> QED BY <1>1, <2>1, <2>2 DEF Plain
  <1> QED BY <1>3, <1>4

---------------------------------------------------------------------------
(* A byte read, given back, or written to the slots.                       *)
\* What is to come after the next byte of an open slot.
LEMMA WaitingTail ==
    ASSUME SocketType, NEW i \in 1..Slots, IsOpen(i), Alike, TakesOne(i)
    PROVE  /\ Waiting(i) \in Seq(Letter) /\ Waiting(i) # <<>> /\ Char(i) = Head(Waiting(i))
           /\ Waiting(i)' = Tail(Waiting(i))
  <1> DEFINE s == Socket(i)
             came == Came(i)
             wire == conn[s].wire
  <1>1. s \in SocketIds /\ Socket(i)' = s
    BY SocketIs DEF IsOpen, Alike
  <1>2. /\ clients[i].rx \in Seq(Letter) /\ conn[s].data \in Seq(Letter) /\ wire \in Seq(Letter)
    BY <1>1, SocketIs, ConnIs
  <1>3. came \in Seq(Letter) /\ came # <<>> /\ Char(i) = Head(came) /\ Waiting(i) = came \o wire
    BY <1>2 DEF Came, Waiting, TakesOne
  <1>4. Waiting(i)' = Tail(came) \o wire
    <2>1. conn'[Socket(i)'] = conn'[s] /\ conn'[s].wire = wire
      BY <1>1 DEF TakesOne
    <2> QED BY <1>1, <2>1 DEF Waiting, TakesOne
  <1> HIDE DEF came, wire
  <1>5. came \o wire \in Seq(Letter) /\ came \o wire # <<>> /\ Head(came \o wire) = Head(came)
        /\ Tail(came) \o wire = Tail(came \o wire)
    BY <1>2, <1>3, TailOfBoth
  <1> QED BY <1>3, <1>4, <1>5

LEMMA ReadHeard == ASSUME HeardInv, SocketInv, ReadsByte, ServerPlaced' PROVE HeardInv'
  <1>1. /\ pc = "client" /\ program \in Servers /\ program' = program /\ UNCHANGED <<at, ref>>
        /\ pc' = (IF program = "echo" THEN "echo" ELSE "write") /\ said' = Append(said, Char(ref))
        /\ SocketType /\ ref \in 1..Slots /\ said \in Seq(Letter) /\ read(ref) /\ at = 1
    BY DEF ReadsByte, Serving, wifiRest, SocketInv, ServerType, HeardInv, ServerPlaced
  <1>2. PICK r \in 1..Slots : r = ref
    BY <1>1
  <1>3. /\ Char(r) \in Letter
        /\ \/ /\ Dropped(r)
              /\ \A t \in SocketIds : conn'[t] = IF t = Socket(r) THEN Idle ELSE conn[t]
              /\ \A j \in 1..Slots : clients'[j] = IF j = r THEN NoClient ELSE clients[j]
           \/ Alike /\ TakesOne(r)
    BY <1>1, <1>2, ReadIs
  <1>4. \A t \in SocketIds : conn'[t].heard = <<>> \/ (conn'[t].heard = conn[t].heard /\ conn'[t].who = conn[t].who)
    <2>1. Idle.heard = <<>>
      BY DEF Idle
    <2> QED BY <1>3, <2>1 DEF TakesOne
  <1>5. ASSUME NEW j \in 1..Slots, IsOpen(j)'
        PROVE  IsOpen(j) /\ Heard(j)' = Heard(j) /\ Who(j)' = Who(j) /\ (j # r => Waiting(j)' = Waiting(j))
    <2>1. CASE Dropped(r) /\ \A t \in SocketIds : conn'[t] = IF t = Socket(r) THEN Idle ELSE conn[t]
      <3>1. j # r /\ Socket(j)' = Socket(j) /\ Socket(j) # None
        BY <1>5, <2>1 DEF IsOpen, Dropped
      <3>2. Socket(j) \in SocketIds /\ Socket(j) # Socket(r)
        BY <1>1, <3>1, SocketIs DEF SocketInv, Owned
      <3>3. conn'[Socket(j)] = conn[Socket(j)] /\ (clients'[j] = clients[j] \/ Alike)
        BY <1>3, <2>1, <3>1, <3>2
      <3>4. clients'[j] = clients[j]
        BY <1>3, <3>1, <3>3 DEF TakesOne
      <3> QED BY <1>5, <3>3, <3>4, SlotStays
    <2>2. CASE Alike /\ TakesOne(r)
      <3>1. Socket(j)' = Socket(j) /\ Socket(j) \in SocketIds /\ Socket(j) # None
        BY <1>1, <1>5, <2>2, SocketIs DEF IsOpen, Alike
      <3>2. IsOpen(j)
        BY <1>5, <2>2, <3>1 DEF IsOpen, Alike, State
      <3>3. conn'[Socket(j)'] = conn'[Socket(j)]
        BY <3>1
      <3>4. Heard(j)' = Heard(j) /\ Who(j)' = Who(j)
        BY <2>2, <3>1, <3>3 DEF Heard, Who, TakesOne
      <3>5. ASSUME j # r PROVE Waiting(j)' = Waiting(j)
        <4>1. Socket(j) # Socket(r) /\ clients'[j] = clients[j]
          BY <2>2, <3>1, <3>5 DEF SocketInv, Owned, TakesOne
        <4>2. conn'[Socket(j)].data = conn[Socket(j)].data /\ conn'[Socket(j)].wire = conn[Socket(j)].wire
          BY <2>2, <3>1, <4>1 DEF TakesOne
        <4> QED BY <3>3, <4>1, <4>2 DEF Waiting
      <3> QED BY <3>2, <3>4, <3>5
    <2> QED BY <1>3, <2>1, <2>2
  <1>6. EchoInv'
    <2> SUFFICES ASSUME program = "echo"
                 PROVE  /\ \A s \in SocketIds : Numbered(conn[s].who, conn[s].heard, 0)'
                        /\ \A i \in 1..Slots : (IsOpen(i) =>
                              /\ Numbered(Who(i), Waiting(i), Len(Heard(i)) + Pending(i))
                              /\ Pending(i) = 1 => Last(said) = Byte(Who(i), Len(Heard(i)) + 1))'
      BY <1>1 DEF EchoInv
    <2>1. ASSUME NEW s \in SocketIds PROVE Numbered(conn[s].who, conn[s].heard, 0)'
      <3>1. Numbered(conn'[s].who, conn'[s].heard, 0)
        BY <1>4, NothingNumbered DEF HeardInv, EchoInv
      <3> QED BY <3>1 DEF Numbered, Byte
    <2>2. ASSUME NEW i \in 1..Slots, IsOpen(i)'
          PROVE  /\ Numbered(Who(i)', Waiting(i)', Len(Heard(i)') + Pending(i)')
                 /\ Pending(i)' = 1 => Last(said') = Byte(Who(i)', Len(Heard(i)') + 1)
      <3>0. pc' = "echo" /\ Pending(i) = 0 /\ (i # r => Pending(i)' = 0) /\ (i = r => Pending(i)' = 1)
        BY <1>1, <1>2 DEF Pending
      <3>1. /\ IsOpen(i) /\ Heard(i)' = Heard(i) /\ Who(i)' = Who(i)
            /\ Numbered(Who(i), Waiting(i), Len(Heard(i)) + Pending(i))
        BY <1>5, <2>2 DEF HeardInv, EchoInv
      <3>2. CASE i # r
        BY <1>5, <2>2, <3>0, <3>1, <3>2
      <3>3. CASE i = r
        <4>1. Alike /\ TakesOne(i)
          BY <1>3, <2>2, <3>3 DEF IsOpen, Dropped
        <4>2. /\ Waiting(i) \in Seq(Letter) /\ Waiting(i) # <<>> /\ Char(i) = Head(Waiting(i))
              /\ Waiting(i)' = Tail(Waiting(i))
          BY <1>1, <3>1, <4>1, WaitingTail
        <4> DEFINE n == Len(Heard(i))
        <4>3. n \in Nat /\ n + 0 = n
          <5>1. Socket(i) \in SocketIds
            BY <1>1, <3>1, SocketIs DEF IsOpen
          <5>2. Heard(i) \in Seq(Letter)
            BY <1>1, <5>1, ConnIs DEF Heard
          <5> QED BY <5>2
        <4>4. Numbered(Who(i), Waiting(i), n)
          BY <3>0, <3>1, <4>3
        <4> HIDE DEF n
        <4>5. Char(i) = Byte(Who(i), n + 1) /\ Numbered(Who(i), Tail(Waiting(i)), n + 1)
          BY <4>2, <4>3, <4>4, NumberedTail
        <4>6. Last(said') = Char(i)
          <5>1. said' = Append(said, Char(i)) /\ Char(i) \in Letter
            BY <1>1, <1>2, <1>3, <3>3
          <5>2. Len(said') = Len(said) + 1 /\ said'[Len(said) + 1] = Char(i)
            BY <1>1, <5>1
          <5> QED BY <5>2 DEF Last
        <4> QED BY <3>0, <3>1, <3>3, <4>2, <4>5, <4>6 DEF n
      <3> QED BY <3>2, <3>3
    <2>3. ASSUME NEW i \in 1..Slots, IsOpen(i)'
          PROVE  (/\ Numbered(Who(i), Waiting(i), Len(Heard(i)) + Pending(i))
                  /\ Pending(i) = 1 => Last(said) = Byte(Who(i), Len(Heard(i)) + 1))'
      BY <2>2, <2>3 DEF Numbered, Byte
    <2> QED BY <2>1, <2>3
  <1>7. ChatInv'
    <2> SUFFICES ASSUME program = "chat"
                 PROVE  /\ \A s \in SocketIds : Stretch(conn[s].heard)'
                        /\ \A i \in 1..Slots : IsOpen(i)' => UpTo(Heard(i), Len(said) - Unsaid(i))'
      BY <1>1 DEF ChatInv
    <2>0. said' = Append(said, Char(r)) /\ said' \in Seq(Letter) /\ Char(r) \in Letter
      BY <1>1, <1>2, <1>3
    <2>1. ASSUME NEW s \in SocketIds PROVE Stretch(conn[s].heard)'
      <3>1. Stretch(conn'[s].heard)
        BY <1>1, <1>4, NothingHeard DEF HeardInv, ChatInv
      <3>2. \E i, j \in 0..Len(said') : conn'[s].heard = SubSeq(said', i + 1, j)
        BY <1>1, <2>0, <3>1, StretchAppend
      <3> QED BY <3>2 DEF Stretch
    <2>2. ASSUME NEW i \in 1..Slots, IsOpen(i)'
          PROVE  UpTo(Heard(i), Len(said) - Unsaid(i))'
      <3>1. IsOpen(i) /\ Heard(i)' = Heard(i)
        BY <1>5, <2>2
      <3>2. Unsaid(i) = 0 /\ Unsaid(i)' = 1 /\ Len(said) - 0 = Len(said)
        BY <1>1 DEF Unsaid
      <3>3. UpTo(Heard(i), Len(said))
        BY <3>1, <3>2 DEF HeardInv, ChatInv
      <3>4. \E k \in 0..Len(said') : Heard(i) = SubSeq(said', k + 1, Len(said') - 1)
        BY <1>1, <2>0, <3>3, UpToAppend
      <3> QED BY <3>1, <3>2, <3>4 DEF UpTo
    <2> QED BY <2>1, <2>2
  <1>8. Silence'
    BY <1>1 DEF Silence
  <1> QED BY <1>6, <1>7, <1>8 DEF HeardInv

\* The slot a byte is written to, if its visitor is there, and the others.
LEMMA WriteSlots ==
    ASSUME SocketInv, NEW r \in 1..Slots, NEW c \in Letter, write(r, c)
    PROVE  /\ \A s \in SocketIds :
                 \/ conn'[s].heard = conn[s].heard /\ conn'[s].who = conn[s].who
                 \/ IsOpen(r) /\ s = Socket(r) /\ conn'[s].who = conn[s].who
                    /\ conn'[s].heard = Append(conn[s].heard, c)
           /\ \A i \in 1..Slots : IsOpen(i)' =>
                 /\ IsOpen(i) /\ Who(i)' = Who(i) /\ Waiting(i)' = Waiting(i)
                 /\ Heard(i)' = IF i = r THEN Append(Heard(i), c) ELSE Heard(i)
  <1>1. /\ SocketType /\ Alike /\ UNCHANGED clients
        /\ \A t \in SocketIds : t # Socket(r) \/ State(t) # "open" => conn'[t] = conn[t]
        /\ \A t \in SocketIds : t = Socket(r) /\ State(t) = "open" =>
              /\ conn'[t].heard = Append(conn[t].heard, c) /\ conn'[t].who = conn[t].who
              /\ conn'[t].data = conn[t].data /\ conn'[t].wire = conn[t].wire
    BY HearIs DEF SocketInv, write
  <1>2. ASSUME NEW s \in SocketIds
        PROVE  \/ conn'[s].heard = conn[s].heard /\ conn'[s].who = conn[s].who
               \/ IsOpen(r) /\ s = Socket(r) /\ conn'[s].who = conn[s].who
                  /\ conn'[s].heard = Append(conn[s].heard, c)
    <2>1. CASE s = Socket(r) /\ State(s) = "open"
      <3>1. IsOpen(r)
        BY <2>1, NoSocketId DEF IsOpen
      <3> QED BY <1>1, <2>1, <3>1
    <2>2. CASE ~(s = Socket(r) /\ State(s) = "open")
      BY <1>1, <2>2
    <2> QED BY <2>1, <2>2
  <1>3. ASSUME NEW i \in 1..Slots, IsOpen(i)'
        PROVE  /\ IsOpen(i) /\ Who(i)' = Who(i) /\ Waiting(i)' = Waiting(i)
               /\ Heard(i)' = IF i = r THEN Append(Heard(i), c) ELSE Heard(i)
    <2> DEFINE s == Socket(i)
    <2>1. s \in SocketIds /\ Socket(i)' = s /\ s # None
      BY <1>1, <1>3, SocketIs DEF IsOpen, Alike
    <2>2. IsOpen(i) /\ State(s) = "open"
      BY <1>1, <1>3, <2>1 DEF IsOpen, Alike, State
    <2>3. conn'[Socket(i)'] = conn'[s] /\ clients'[i] = clients[i]
      BY <1>1, <2>1
    <2>4. CASE i = r
      <3>1. /\ conn'[s].heard = Append(conn[s].heard, c) /\ conn'[s].who = conn[s].who
            /\ conn'[s].data = conn[s].data /\ conn'[s].wire = conn[s].wire
        BY <1>1, <2>1, <2>2, <2>4
      <3> QED BY <2>2, <2>3, <2>4, <3>1 DEF Who, Heard, Waiting
    <2>5. CASE i # r
      <3>1. s # Socket(r)
        BY <2>1, <2>5 DEF SocketInv, Owned
      <3>2. conn'[s] = conn[s]
        BY <1>1, <2>1, <3>1
      <3> QED BY <2>2, <2>3, <2>5, <3>2 DEF Who, Heard, Waiting
    <2> QED BY <2>4, <2>5
  <1> QED BY <1>2, <1>3

LEMMA EchoHeard == ASSUME HeardInv, SocketInv, Echo, ServerPlaced' PROVE HeardInv'
  <1>1. /\ pc = "echo" /\ pc' = "accept" /\ program = "echo" /\ program' = program
        /\ UNCHANGED <<at, ref, said>> /\ ref \in 1..Slots /\ SocketType
        /\ Last(said) \in Letter /\ write(ref, Last(said))
    BY LastIs DEF Echo, Serving, wifiRest, serverVars, SocketInv, ServerType, HeardInv, ServerPlaced
  <1>2. PICK r \in 1..Slots : r = ref
    BY <1>1
  <1> DEFINE c == Last(said)
  <1>3. c \in Letter /\ write(r, c)
    BY <1>1, <1>2
  <1> HIDE DEF c
  <1>4. /\ \A s \in SocketIds :
              \/ conn'[s].heard = conn[s].heard /\ conn'[s].who = conn[s].who
              \/ IsOpen(r) /\ s = Socket(r) /\ conn'[s].who = conn[s].who
                 /\ conn'[s].heard = Append(conn[s].heard, c)
        /\ \A i \in 1..Slots : IsOpen(i)' =>
              /\ IsOpen(i) /\ Who(i)' = Who(i) /\ Waiting(i)' = Waiting(i)
              /\ Heard(i)' = IF i = r THEN Append(Heard(i), c) ELSE Heard(i)
    BY <1>3, WriteSlots
  <1>5. \A i \in 1..Slots : IsOpen(i) => Heard(i) \in Seq(Letter) /\ Len(Heard(i)) \in Nat
    <2> TAKE i \in 1..Slots
    <2> HAVE IsOpen(i)
    <2>1. Socket(i) \in SocketIds
      BY <1>1, SocketIs DEF IsOpen
    <2>2. Heard(i) \in Seq(Letter)
      BY <1>1, <2>1, ConnIs DEF Heard
    <2> QED BY <2>2
  <1>6. IsOpen(r) => c = Byte(Who(r), Len(Heard(r)) + 1)
    <2>1. Pending(r) = 1
      BY <1>1, <1>2 DEF Pending
    <2> QED BY <1>1, <2>1 DEF HeardInv, EchoInv, c
  <1>7. ASSUME NEW s \in SocketIds PROVE Numbered(conn[s].who, conn[s].heard, 0)'
    <2>1. Numbered(conn[s].who, conn[s].heard, 0)
      BY <1>1 DEF HeardInv, EchoInv
    <2>2. CASE IsOpen(r) /\ s = Socket(r) /\ conn'[s].who = conn[s].who
               /\ conn'[s].heard = Append(conn[s].heard, c)
      <3>1. Who(r) = conn[s].who /\ Heard(r) = conn[s].heard /\ conn[s].heard \in Seq(Letter)
        BY <1>1, <2>2, ConnIs DEF Who, Heard
      <3>2. Numbered(conn[s].who, Append(conn[s].heard, c), 0)
        BY <1>3, <1>6, <2>1, <2>2, <3>1, NumberedAppend
      <3>3. Numbered(conn'[s].who, conn'[s].heard, 0)
        BY <2>2, <3>2
      <3> QED BY <3>3 DEF Numbered, Byte
    <2>3. CASE conn'[s].heard = conn[s].heard /\ conn'[s].who = conn[s].who
      <3>1. Numbered(conn'[s].who, conn'[s].heard, 0)
        BY <2>1, <2>3
      <3> QED BY <3>1 DEF Numbered, Byte
    <2> QED BY <1>4, <2>2, <2>3
  <1>8. ASSUME NEW i \in 1..Slots, IsOpen(i)'
        PROVE  (/\ Numbered(Who(i), Waiting(i), Len(Heard(i)) + Pending(i))
                /\ Pending(i) = 1 => Last(said) = Byte(Who(i), Len(Heard(i)) + 1))'
    <2>1. /\ IsOpen(i) /\ Who(i)' = Who(i) /\ Waiting(i)' = Waiting(i)
          /\ Heard(i)' = IF i = r THEN Append(Heard(i), c) ELSE Heard(i)
          /\ Heard(i) \in Seq(Letter) /\ Len(Heard(i)) \in Nat
          /\ Numbered(Who(i), Waiting(i), Len(Heard(i)) + Pending(i))
      BY <1>1, <1>4, <1>5, <1>8 DEF HeardInv, EchoInv
    <2>2. Pending(i)' = 0 /\ Pending(i) = IF i = r THEN 1 ELSE 0
      BY <1>1, <1>2 DEF Pending
    <2>3. Len(Heard(i)') + Pending(i)' = Len(Heard(i)) + Pending(i)
      <3>1. CASE i = r
        <4> DEFINE h == Heard(i)
        <4>1. h \in Seq(Letter) /\ Heard(i)' = Append(h, c) /\ Pending(i) = 1
          BY <2>1, <2>2, <3>1
        <4> HIDE DEF h
        <4>2. Len(Append(h, c)) + 0 = Len(h) + 1
          BY <1>3, <4>1
        <4> QED BY <2>2, <4>1, <4>2 DEF h
      <3>2. CASE i # r
        BY <2>1, <2>2, <3>2
      <3> QED BY <3>1, <3>2
    <2>4. Numbered(Who(i)', Waiting(i)', Len(Heard(i)') + Pending(i)')
      BY <2>1, <2>3
    <2> QED BY <2>2, <2>4 DEF Numbered, Byte
  <1>9. EchoInv'
    BY <1>7, <1>8 DEF EchoInv
  <1>10. ChatInv' /\ Silence'
    BY <1>1 DEF ChatInv, Silence, Servers
  <1> QED BY <1>9, <1>10 DEF HeardInv

LEMMA WriteHeard == ASSUME HeardInv, SocketInv, WriteToSlot, ServerPlaced' PROVE HeardInv'
  <1>1. /\ pc = "write" /\ program = "chat" /\ program' = program
        /\ UNCHANGED <<ref, said>> /\ at \in 1..Slots /\ SocketType /\ NextSlot("write", "accept")
        /\ said \in Seq(Letter) /\ said # <<>>
        /\ Last(said) \in Letter /\ write(at, Last(said))
    BY LastIs DEF WriteToSlot, Serving, wifiRest, SocketInv, ServerType, HeardInv, ServerPlaced
  <1>2. PICK r \in 1..Slots : r = at
    BY <1>1
  <1> DEFINE c == Last(said)
  <1>3. c \in Letter /\ write(r, c)
    BY <1>1, <1>2
  <1> HIDE DEF c
  <1>4. /\ \A s \in SocketIds :
              \/ conn'[s].heard = conn[s].heard /\ conn'[s].who = conn[s].who
              \/ IsOpen(r) /\ s = Socket(r) /\ conn'[s].who = conn[s].who
                 /\ conn'[s].heard = Append(conn[s].heard, c)
        /\ \A i \in 1..Slots : IsOpen(i)' =>
              /\ IsOpen(i) /\ Who(i)' = Who(i) /\ Waiting(i)' = Waiting(i)
              /\ Heard(i)' = IF i = r THEN Append(Heard(i), c) ELSE Heard(i)
    BY <1>3, WriteSlots
  <1>5. \A i \in 1..Slots : Unsaid(i)' = IF i = r THEN 0 ELSE Unsaid(i)
    <2>1. CASE at < Slots
      <3>1. at' = at + 1 /\ pc' = "write"
        BY <1>1, <2>1 DEF NextSlot
      <3> QED BY <1>1, <1>2, <3>1, NoSocketId DEF Unsaid
    <2>2. CASE ~(at < Slots)
      <3>1. pc' = "accept" /\ at = Slots
        BY <1>1, <2>2, NoSocketId DEF NextSlot
      <3> QED BY <1>1, <1>2, <3>1, NoSocketId DEF Unsaid
    <2> QED BY <2>1, <2>2
  <1>6. IsOpen(r) => UpTo(Append(Heard(r), c), Len(said))
    <2> HAVE IsOpen(r)
    <2>1. Unsaid(r) = 1
      BY <1>1, <1>2 DEF Unsaid
    <2>2. UpTo(Heard(r), Len(said) - 1)
      BY <1>1, <2>1 DEF HeardInv, ChatInv
    <2> QED BY <1>1, <2>2, UpToLast DEF c
  <1>7. ASSUME NEW s \in SocketIds PROVE Stretch(conn[s].heard)'
    <2>1. Stretch(conn[s].heard)
      BY <1>1 DEF HeardInv, ChatInv
    <2>2. CASE IsOpen(r) /\ s = Socket(r) /\ conn'[s].heard = Append(conn[s].heard, c)
      <3>1. UpTo(conn'[s].heard, Len(said))
        BY <1>6, <2>2 DEF Heard
      <3>2. Len(said) \in 0..Len(said)
        BY <1>1
      <3>3. \E i, j \in 0..Len(said) : conn'[s].heard = SubSeq(said, i + 1, j)
        BY <3>1, <3>2 DEF UpTo
      <3> QED BY <1>1, <3>3 DEF Stretch
    <2>3. CASE conn'[s].heard = conn[s].heard
      BY <1>1, <2>1, <2>3 DEF Stretch
    <2> QED BY <1>4, <2>2, <2>3
  <1>8. ASSUME NEW i \in 1..Slots, IsOpen(i)' PROVE UpTo(Heard(i), Len(said) - Unsaid(i))'
    <2>1. IsOpen(i) /\ Heard(i)' = IF i = r THEN Append(Heard(i), c) ELSE Heard(i)
      BY <1>4, <1>8
    <2>2. UpTo(Heard(i)', Len(said) - Unsaid(i)')
      <3>1. CASE i = r
        <4>1. Len(said) - 0 = Len(said)
          BY <1>1
        <4> QED BY <1>5, <1>6, <2>1, <3>1, <4>1
      <3>2. CASE i # r
        BY <1>1, <1>5, <2>1, <3>2 DEF HeardInv, ChatInv
      <3> QED BY <3>1, <3>2
    <2> QED BY <1>1, <2>2 DEF UpTo
  <1>9. ChatInv'
    BY <1>7, <1>8 DEF ChatInv
  <1>10. EchoInv' /\ Silence'
    BY <1>1 DEF EchoInv, Silence, Servers
  <1> QED BY <1>9, <1>10 DEF HeardInv

---------------------------------------------------------------------------
(* The sketches that serve nobody hear nobody.                             *)
LEMMA ErrandPlain ==
    ASSUME HeardInv, SocketInv, Errand
    PROVE  Plain /\ ServerPlaced'
  <1> USE NoSocketId
  <1>0. /\ SocketType /\ program \in DOMAIN Plan /\ UNCHANGED <<program, said>>
        /\ pc \in {"page", "connected", "request", "reading", "close", "time", "timeconnect",
                   "timeconnected", "timewait", "timed", "round", "hour", "sntp", "ask", "recvfrom"}
    BY DEF Errand, ConnectsTCP, ChecksConnection, SendsRequest, ReadsPage, StopsReading, ClosesPage,
       FindsTimeServer, ConnectsUDP, AsksTime, TimeOrNot, Timed, Round, HourLater, OpensNTP, SNTP_GetTime,
       HearsNTP, At, SocketInv, serverVars
  <1>1. program \notin Servers
    BY <1>0 DEF HeardInv, ServerPlaced, InService
  <1>2. \A s \in SocketIds : conn[s].heard = <<>>
    BY <1>1 DEF HeardInv, Silence
  <1>3. Idle.heard = <<>>
    BY DEF Idle
  <1>4. UNCHANGED socketVars => UNCHANGED conn
    BY DEF socketVars
  <1>5. IsConnected(1) => UNCHANGED conn
    BY <1>4 DEF IsConnected
  <1>6. (NotConnected(1) \/ close(1) \/ read(1)) => \A s \in SocketIds : conn'[s].heard = <<>>
    BY <1>0, <1>2, <1>3, LostIs, CloseIs, ReadIs DEF TakesOne
  <1>7. Asks(1, Page) \/ Asks(1, Stamp) => \A s \in SocketIds : conn'[s].heard = <<>>
    BY <1>0, <1>2, AsksIs, Answers
  <1>8. ASSUME NEW state \in {"open", "udp"}, Connects(1, state) \/ ConnectFails(1), pc \in {"page", "timeconnect"}
        PROVE  \A s \in SocketIds : conn'[s].heard = <<>>
    <2>1. pc \notin OnErrand \cup InService
      BY <1>8 DEF OnErrand, InService
    <2> QED BY <1>2, <1>8, <2>1, ConnectIs
  <1>9. ASSUME Creates(1, "udp") PROVE \A s \in SocketIds : conn'[s].heard = <<>>
    <2>1. PICK s \in SocketIds : conn' = [conn EXCEPT ![s] = Opened("udp", 0, <<>>)]
      BY <1>9 DEF Creates
    <2>2. Opened("udp", 0, <<>>).heard = <<>>
      BY OpenedNone DEF States
    <2> QED BY <1>0, <1>2, <2>1, <2>2 DEF SocketType
  <1>10. \A s \in SocketIds : conn'[s].heard = <<>>
    BY <1>2, <1>4, <1>5, <1>6, <1>7, <1>8, <1>9
       DEF Errand, ConnectsTCP, ChecksConnection, SendsRequest, ReadsPage, StopsReading, ClosesPage,
           FindsTimeServer, ConnectsUDP, AsksTime, TimeOrNot, Timed, Round, HourLater, OpensNTP, SNTP_GetTime,
           HearsNTP, At
  <1>11. \A here : GoesOn(here) => pc' \in Ahead
    BY <1>0, PlanGoesOn
  <1>12. pc' \notin {"client", "echo", "write"}
    BY <1>11 DEF Ahead, Errand, ConnectsTCP, ChecksConnection, SendsRequest, ReadsPage, StopsReading, ClosesPage,
       AfterPage, TriesAgain, PollsTime,
       FindsTimeServer, ConnectsUDP, AsksTime, TimeOrNot, Timed, Round, HourLater, OpensNTP, SNTP_GetTime,
       HearsNTP
  <1> QED BY <1>0, <1>1, <1>10, <1>12 DEF Plain, ServerPlaced

---------------------------------------------------------------------------
(* Every step.                                                             *)
LEMMA ServerPlacedNext == ASSUME HeardInv, SocketInv, ServerStep PROVE ServerPlaced'
  <1>1. /\ program \in Servers /\ program' = program /\ at \in 1..Slots
        /\ pc = "echo" => program = "echo"
        /\ pc = "write" => program = "chat"
        /\ pc = "client" => at = 1
    BY DEF ServerStep, ServerBegin, Listens, SlotTaken, SlotFree, accept, NobodyWaits, FindsNone, FindsOne,
       ClientGone, ReadsByte, Echo, WriteToSlot, SkipsSlot, Serving, wifiRest, SocketInv, ServerType,
       HeardInv, ServerPlaced
  <1>2. ASSUME pc' \in {"bind", "accept", "accepting", "find"} PROVE ServerPlaced'
    BY <1>1, <1>2 DEF ServerPlaced, InService
  <1>3. CASE ServerBegin \/ Listens \/ SlotFree \/ ClientGone \/ Echo
    BY <1>2, <1>3 DEF ServerBegin, Listens, SlotFree, ClientGone, Echo, GivesUp
  <1>4. CASE SlotTaken \/ accept \/ NobodyWaits \/ FindsNone
    BY <1>1, <1>2, <1>4, SlotIs DEF SlotTaken, accept, NobodyWaits, FindsNone
  <1>5. CASE FindsOne
    BY <1>1, <1>5 DEF FindsOne, ServerPlaced, InService
  <1>6. CASE ReadsByte
    BY <1>1, <1>6 DEF ReadsByte, ServerPlaced, InService, Servers
  <1>7. CASE WriteToSlot \/ SkipsSlot
    <2>1. pc = "write" /\ pc' \in {"write", "accept"}
      BY <1>1, <1>7, SlotIs DEF WriteToSlot, SkipsSlot, Serving
    <2> QED BY <1>1, <2>1 DEF ServerPlaced, InService
  <1> QED BY <1>3, <1>4, <1>5, <1>6, <1>7 DEF ServerStep

LEMMA ServerHears == ASSUME HeardInv, SocketInv, ServerStep PROVE HeardInv'
  <1>1. ServerPlaced'
    BY ServerPlacedNext
  <1>2. CASE ReadsByte
    BY <1>1, <1>2, ReadHeard
  <1>3. CASE Echo
    BY <1>1, <1>3, EchoHeard
  <1>4. CASE WriteToSlot
    BY <1>1, <1>4, WriteHeard
  <1>5. CASE accept
    BY <1>1, <1>5, VisitPlain, PlainKeeps
  <1>6. CASE ServerBegin \/ Listens
    BY <1>1, <1>6, ListenPlain, PlainKeeps
  <1>7. CASE SlotTaken \/ SlotFree \/ NobodyWaits \/ FindsNone \/ FindsOne \/ ClientGone \/ SkipsSlot
    BY <1>1, <1>7, LoopPlain, PlainKeeps
  <1> QED BY <1>2, <1>3, <1>4, <1>5, <1>6, <1>7 DEF ServerStep

\* A step that has nothing to do with the visitors.
LEMMA ElsewherePlain ==
    ASSUME HeardInv, SocketInv, UNCHANGED <<program, said, conn, clients, at, ref>>,
           \/ pc' = pc
           \/ pc \notin InService /\ pc' \notin InService
              /\ (program \in Servers =>
                    pc' \in {"join", "joining", "joined", "dhcp", "details", "listen", "halt"})
    PROVE  HeardInv'
  <1>1. \A i \in 1..Slots : Pending(i)' = Pending(i) /\ Unsaid(i)' = Unsaid(i)
    <2>1. CASE pc' = pc
      BY <2>1 DEF Pending, Unsaid
    <2>2. CASE pc \notin InService /\ pc' \notin InService
      <3>1. pc \notin {"echo", "write"} /\ pc' \notin {"echo", "write"}
        BY <2>2 DEF InService
      <3> QED BY <3>1, Unhurried
    <2> QED BY <2>1, <2>2
  <1>2. ServerPlaced'
    BY DEF HeardInv, ServerPlaced, InService
  <1> QED BY <1>1, <1>2, SamePlain, PlainKeeps

LEMMA HeardStart == SketchInit => HeardInv
  <1> SUFFICES ASSUME SketchInit PROVE HeardInv
    OBVIOUS
  <1>1. /\ \A s \in SocketIds : conn[s].heard = <<>>
        /\ \A i \in 1..Slots : Socket(i) = None
        /\ said = <<>> /\ pc \in {"loop", "begin"} /\ (program \in Servers => pc = "begin")
    BY DEF SketchInit, SocketInit, ServerInit, Init, Idle, NoClient, Socket, Servers
  <1>2. \A i \in 1..Slots : ~IsOpen(i)
    BY <1>1 DEF IsOpen
  <1>3. <<>> \in Seq(Letter)
    OBVIOUS
  <1>4. Stretch(<<>>)
    BY <1>1, <1>3, NothingHeard
  <1>5. EchoInv /\ ChatInv /\ Silence
    BY <1>1, <1>2, <1>4, NothingNumbered DEF EchoInv, ChatInv, Silence
  <1>6. ServerPlaced
    BY <1>1 DEF ServerPlaced
  <1> QED BY <1>5, <1>6 DEF HeardInv

LEMMA HeardNext ==
    HeardInv /\ SocketInv /\ WiFiInv /\ WiFiInv' /\ [SketchesNext]_all => HeardInv'
  <1> SUFFICES ASSUME HeardInv, SocketInv, WiFiInv, WiFiInv', [SketchesNext]_all PROVE HeardInv'
    OBVIOUS
  <1>1. CASE Next /\ UNCHANGED Others
    <2>1. UNCHANGED <<conn, clients, at, ref, said>>
      BY <1>1 DEF Others, socketVars, serverVars
    <2>2. CASE Sketch
      <3>1. /\ program \notin Servers /\ program' = program
            /\ pc \notin InService /\ pc' \notin InService
        BY <2>2, SketchIs DEF Examples, Servers
      <3> QED BY <2>1, <3>1, ElsewherePlain
    <2>3. CASE Handle \/ FindsAp \/ Associates \/ GetsLease \/ LosesAp \/ HearsApp
      <3>1. UNCHANGED <<program, pc>>
        BY <2>3 DEF Handle, FindsAp, Associates, GetsLease, LosesAp, HearsApp, host
      <3> QED BY <2>1, <3>1, ElsewherePlain
    <2> QED BY <1>1, <2>2, <2>3 DEF Next
  <1>2. CASE NetworkStage
    <2>1. UNCHANGED <<program, said, conn, clients, at, ref>>
      BY <1>2, NetworkIs DEF socketVars, serverVars
    <2>2. pc \notin InService /\ pc' \notin InService
      BY <1>2, NetworkIs, Quarters DEF InService
    <2> QED BY <1>2, <2>1, <2>2, NetworkIs, ElsewherePlain
  <1>3. CASE Errand
    BY <1>3, ErrandPlain, PlainKeeps
  <1>4. CASE ServerStep
    BY <1>4, ServerHears
  <1>5. CASE (PeerSends \/ PeerLeaves) /\ UNCHANGED serverVars
    <2>1. UNCHANGED <<program, pc, at>>
      BY <1>5 DEF PeerSends, PeerLeaves, vars, serverVars
    <2>2. ServerPlaced'
      BY <2>1 DEF HeardInv, ServerPlaced
    <2> QED BY <1>5, <2>2, PeerPlain, PlainKeeps
  <1>6. CASE UNCHANGED all
    <2>1. UNCHANGED <<program, pc, said, conn, clients, at, ref>>
      BY <1>6 DEF all, vars, socketVars, serverVars
    <2> QED BY <2>1, ElsewherePlain
  <1> QED BY <1>1, <1>2, <1>3, <1>4, <1>5, <1>6 DEF SketchesNext

LEMMA HeardIsInOrder == HeardInv /\ SocketType => HeardInOrder
  <1> SUFFICES ASSUME HeardInv, SocketType, NEW s \in SocketIds
               PROVE  IF program = "chat"
                      THEN \E i, j \in 0..Len(said) : conn[s].heard = SubSeq(said, i + 1, j)
                      ELSE conn[s].heard = [k \in 1..Len(conn[s].heard) |-> Byte(conn[s].who, k)]
    BY DEF HeardInOrder
  <1>1. conn[s].heard \in Seq(Letter)
    BY ConnIs
  <1>2. CASE program = "chat"
    BY <1>2 DEF HeardInv, ChatInv, Stretch
  <1>3. CASE program # "chat"
    <2>1. Numbered(conn[s].who, conn[s].heard, 0)
      BY <1>3, NothingNumbered DEF HeardInv, EchoInv, Silence, Servers
    <2> QED BY <1>1, <1>3, <2>1, NumberedAll
  <1> QED BY <1>2, <1>3

(* A visitor of EchoServer hears its own bytes, all that were read of it    *)
(* and in their order; one of ChatServer a stretch without a gap of what    *)
(* was said, whichever slots and socket numbers were used again meanwhile.  *)
THEOREM HeardInOrderTheorem == SketchesSpec => []HeardInOrder
  <1>1. SketchInit => WiFiInv
    BY WiFiStart DEF SketchInit
  <1>2. WiFiInv /\ [SketchesNext]_all => WiFiInv'
    BY WiFiNext
  <1>3. SketchInit => SocketInv
    BY SocketStart
  <1>4. SocketInv /\ WiFiInv /\ WiFiInv' /\ [SketchesNext]_all => SocketInv'
    BY SocketNext
  <1>5. SketchInit => HeardInv
    BY HeardStart
  <1>6. HeardInv /\ SocketInv /\ WiFiInv /\ WiFiInv' /\ [SketchesNext]_all => HeardInv'
    BY HeardNext
  <1>7. HeardInv /\ SocketInv => HeardInOrder
    BY HeardIsInOrder DEF SocketInv
  <1> QED BY <1>1, <1>2, <1>3, <1>4, <1>5, <1>6, <1>7, PTL DEF SketchesSpec
=============================================================================
