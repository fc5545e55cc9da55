-------------------------- MODULE NicReportProofs ---------------------------
(***************************************************************************)
(* Proof that NicQueuePair reports what it completes to the interrupt       *)
(* dispatcher and in the statistics, as CompletionsAreReported says.  The   *)
(* counters that process_once adds to are compared with the cardinality of  *)
(* the sets of log entries they stand for; what a packet adds to each set   *)
(* is counted first, then the actions are taken one by one.                 *)
(***************************************************************************)
EXTENDS NicQueuePairProofs, FiniteSetTheorems

(* Leaves are for Zenon; the ones with arithmetic, sequences or records in   *)
(* them name SMT.                                                           *)
USE Zenon

(* Indices beyond those counted so far add their number. *)
LEMMA Added ==
  ASSUME NEW L \in Nat, NEW S \in SUBSET (1..L), NEW a \in Nat, NEW b \in Nat, L < a, a <= b + 1
  PROVE  Cardinality(S) \in Nat /\ Cardinality(S \cup (a..b)) = Cardinality(S) + (b - a + 1)
<1>1. IsFiniteSet(1..L)
  BY SMT, FS_Interval
<1>2. IsFiniteSet(S) /\ Cardinality(S) \in Nat
  BY <1>1, FS_Subset, FS_CardinalityType
<1>3. IsFiniteSet(a..b) /\ Cardinality(a..b) = b - a + 1
  <2>1. a \in Int /\ b \in Int
    BY SMT
  <2>2. IsFiniteSet(a..b) /\ Cardinality(a..b) = IF a > b THEN 0 ELSE b - a + 1
    BY <2>1, FS_Interval
  <2> QED
    BY SMT, <2>2
<1>4. S \cap (a..b) = {}
  BY SMT
<1>5. Cardinality(S \cap (a..b)) = 0
  BY <1>4, FS_EmptySet
<1>6. Cardinality(S \cup (a..b)) = Cardinality(S) + Cardinality(a..b) - Cardinality(S \cap (a..b))
  BY <1>2, <1>3, FS_Union
<1> QED
  BY SMT, <1>2, <1>3, <1>5, <1>6

(* The transmit completions the dispatcher is told of. *)
Told == Cardinality({k \in DOMAIN tx_log : ~Failed(tx_log[k].tx)})

SegmentsSent == Cardinality({k \in RxSince : SentWhole(rx_log[k].tx)})

(* The counters are what the logs say, since the statistics were reset.     *)
(* Here the transmit events are given exactly: a packet that failed at a    *)
(* receive buffer raises none.                                              *)
Tallied ==
  /\ uncounted[1] \in 0..Len(tx_log) /\ uncounted[2] \in 0..Len(rx_log)
  /\ enable_tx_interrupts => tx_events = Told
  /\ enable_rx_interrupts => rx_events = Len(rx_log)
  /\ stats.rx_packets = RxCount("Success")
  /\ stats.tx_packets = SegmentsSent
  /\ \A c \in Drops : stats.drops[c] = TxCount(c) + RxCount(c)

(* The receive completions of a packet: n successes, and perhaps the failure *)
(* that ends the loop.                                                      *)
Ran(rx, n, last) ==
  /\ rx \in Seq(RxEntries) /\ n \in Nat /\ last # "Success"
  /\ Len(rx) = n \/ Len(rx) = n + 1
  /\ \A j \in 1..Len(rx) : rx[j].tx = TxTaken + 1 /\ rx[j].code = IF j <= n THEN "Success" ELSE last

(* The log they are added to. *)
LEMMA RxGrows ==
  ASSUME Inv, Tallied, NEW rx \in Seq(RxEntries), rx_log' = rx_log \o rx, uncounted' = uncounted
  PROVE  /\ Len(rx_log) \in Nat /\ Len(rx) \in Nat /\ Len(rx_log') = Len(rx_log) + Len(rx)
         /\ DOMAIN rx_log = 1..Len(rx_log) /\ DOMAIN rx_log' = 1..(Len(rx_log) + Len(rx))
         /\ RxSince \subseteq 1..Len(rx_log)
         /\ RxSince' = RxSince \cup ((Len(rx_log) + 1)..(Len(rx_log) + Len(rx)))
         /\ \A k \in 1..Len(rx_log) : rx_log'[k] = rx_log[k]
         /\ \A j \in 1..Len(rx) : rx_log'[Len(rx_log) + j] = rx[j]
<1>1. rx_log \in Seq(RxEntries) /\ uncounted[2] \in 0..Len(rx_log) /\ Len(rx_log) \in Nat /\ Len(rx) \in Nat
  BY SMTT(20) DEF Inv, Typed, Tallied
<1>2. /\ rx_log \o rx \in Seq(RxEntries) /\ Len(rx_log \o rx) = Len(rx_log) + Len(rx)
      /\ \A k \in 1..Len(rx_log) : (rx_log \o rx)[k] = rx_log[k]
      /\ \A j \in 1..Len(rx) : (rx_log \o rx)[Len(rx_log) + j] = rx[j]
  BY SMT, <1>1
<1>3. DOMAIN rx_log = 1..Len(rx_log) /\ DOMAIN (rx_log \o rx) = 1..(Len(rx_log) + Len(rx))
  BY SMT, <1>1, <1>2
<1>4. /\ RxSince = (uncounted[2] + 1)..Len(rx_log)
      /\ RxSince' = (uncounted[2] + 1)..(Len(rx_log) + Len(rx))
  BY <1>2 DEF RxSince
<1>5. RxSince \subseteq 1..Len(rx_log)
  BY SMT, <1>1, <1>4
<1>6. RxSince' = RxSince \cup ((Len(rx_log) + 1)..(Len(rx_log) + Len(rx)))
  BY SMT, <1>1, <1>4
<1> QED
  BY <1>1, <1>2, <1>3, <1>5, <1>6

(* What they add to the counts of receive completions. *)
LEMMA RxAdds ==
  ASSUME Inv, Tallied, NEW rx, NEW n, NEW last, Ran(rx, n, last), rx_log' = rx_log \o rx, uncounted' = uncounted
  PROVE  /\ RxCount("Success") \in Nat /\ RxCount("Success")' = RxCount("Success") + n
         /\ \A c \in Drops : /\ RxCount(c) \in Nat
                             /\ RxCount(c)' = RxCount(c) + IF Len(rx) = n + 1 /\ c = last THEN 1 ELSE 0
<1> DEFINE L == Len(rx_log)
<1>1. rx \in Seq(RxEntries) /\ n \in Nat /\ last # "Success" /\ (Len(rx) = n \/ Len(rx) = n + 1)
  BY DEF Ran
<1>2. /\ L \in Nat /\ Len(rx) \in Nat /\ RxSince \subseteq 1..L
      /\ RxSince' = RxSince \cup ((L + 1)..(L + Len(rx)))
      /\ \A k \in 1..L : rx_log'[k] = rx_log[k]
      /\ \A j \in 1..Len(rx) : rx_log'[L + j] = rx[j]
  BY <1>1, RxGrows
<1> HIDE DEF L
<1>3. ASSUME NEW k \in (L + 1)..(L + Len(rx))
      PROVE  /\ k \in (L + 1)..(L + n) => rx_log'[k].code = "Success"
             /\ k \notin (L + 1)..(L + n) => rx_log'[k].code = last /\ k = L + n + 1 /\ Len(rx) = n + 1
  <2>1. k - L \in 1..Len(rx) /\ L + (k - L) = k /\ (k - L <= n <=> k \in (L + 1)..(L + n))
    <3>1. PICK m \in Nat : m = Len(rx)
      BY <1>2
    <3>2. L \in Nat /\ n \in Nat /\ k \in (L + 1)..(L + m)
      BY <1>1, <1>2, <3>1
    <3>3. k - L \in 1..m /\ L + (k - L) = k /\ (k - L <= n <=> k \in (L + 1)..(L + n))
      BY SMT, <3>2
    <3> QED
      BY <3>1, <3>3
  <2>2. rx_log'[k].code = IF k - L <= n THEN "Success" ELSE last
    BY <1>2, <2>1 DEF Ran
  <2>3. k \notin (L + 1)..(L + n) => k = L + n + 1 /\ Len(rx) = n + 1
    <3>1. PICK m \in Nat : m = Len(rx)
      BY <1>2
    <3>2. n \in Nat /\ (m = n \/ m = n + 1) /\ k \in Int /\ L + 1 <= k /\ k <= L + m /\ L \in Nat
      BY SMT, <1>1, <1>2, <3>1
    <3>3. ~(k <= L + n) => k = L + n + 1 /\ m = n + 1
      BY SMT, <3>2
    <3> QED
      BY SMT, <3>1, <3>2, <3>3
  <2> QED
    BY <2>1, <2>2, <2>3
<1>4. ASSUME NEW c, NEW a \in Nat, NEW b \in Nat, L < a, a <= b + 1, a..b \subseteq (L + 1)..(L + Len(rx)),
             \A k \in (L + 1)..(L + Len(rx)) : rx_log'[k].code = c <=> k \in a..b
      PROVE  RxCount(c) \in Nat /\ RxCount(c)' = RxCount(c) + (b - a + 1)
  <2> DEFINE S == {k \in RxSince : rx_log[k].code = c}
  <2>1. {k \in RxSince' : rx_log'[k].code = c} = S \cup (a..b)
    BY <1>2, <1>4
  <2>2. S \in SUBSET (1..L)
    BY <1>2
  <2> HIDE DEF S
  <2>3. Cardinality(S) \in Nat /\ Cardinality(S \cup (a..b)) = Cardinality(S) + (b - a + 1)
    <3>1. L \in Nat /\ L < a /\ a <= b + 1
      BY <1>2, <1>4
    <3> QED
      BY ZenonT(30), <2>2, <3>1, Added
  <2>4. RxCount(c) = Cardinality(S) /\ RxCount(c)' = Cardinality({k \in RxSince' : rx_log'[k].code = c})
    BY DEF RxCount, S
  <2> QED
    BY <2>1, <2>3, <2>4
<1>5. RxCount("Success") \in Nat /\ RxCount("Success")' = RxCount("Success") + n
  <2>1. \A k \in (L + 1)..(L + Len(rx)) : rx_log'[k].code = "Success" <=> k \in (L + 1)..(L + n)
    BY <1>1, <1>3
  <2>2. /\ L + 1 \in Nat /\ L + n \in Nat /\ L < L + 1 /\ L + 1 <= L + n + 1
        /\ (L + 1)..(L + n) \subseteq (L + 1)..(L + Len(rx)) /\ (L + n) - (L + 1) + 1 = n
    BY SMT, <1>1, <1>2
  <2> QED
    BY ZenonT(30), <1>4, <2>1, <2>2
<1>6. ASSUME NEW c \in Drops
      PROVE  /\ RxCount(c) \in Nat
             /\ RxCount(c)' = RxCount(c) + IF Len(rx) = n + 1 /\ c = last THEN 1 ELSE 0
  <2>1. c # "Success"
    BY DEF Drops
  <2>2. CASE Len(rx) = n + 1 /\ c = last
    <3>1. \A k \in (L + 1)..(L + Len(rx)) : rx_log'[k].code = c <=> k \in (L + n + 1)..(L + n + 1)
      <4>1. \A k \in (L + n + 1)..(L + n + 1) : k = L + n + 1 /\ k \notin (L + 1)..(L + n)
        BY SMT, <1>1, <1>2
      <4>2. L + n + 1 \in (L + n + 1)..(L + n + 1)
        BY SMT, <1>1, <1>2
      <4> QED
        BY <1>3, <2>1, <2>2, <4>1, <4>2
    <3>2. /\ L + n + 1 \in Nat /\ L < L + n + 1 /\ L + n + 1 <= (L + n + 1) + 1
          /\ (L + n + 1)..(L + n + 1) \subseteq (L + 1)..(L + Len(rx)) /\ (L + n + 1) - (L + n + 1) + 1 = 1
      BY SMT, <1>1, <1>2, <2>2
    <3> QED
      BY <1>4, <2>2, <3>1, <3>2
  <2>3. CASE ~(Len(rx) = n + 1 /\ c = last)
    <3>1. \A k \in (L + 1)..(L + Len(rx)) : rx_log'[k].code = c <=> k \in (L + 1)..L
      <4>1. \A k \in (L + 1)..L : FALSE
        BY SMT, <1>2
      <4> QED
        BY <1>3, <2>1, <2>3, <4>1
    <3>2. /\ L + 1 \in Nat /\ L < L + 1 /\ L + 1 <= L + 1
          /\ (L + 1)..L \subseteq (L + 1)..(L + Len(rx)) /\ L - (L + 1) + 1 = 0
      BY SMT, <1>2
    <3>3. RxCount(c) \in Nat /\ RxCount(c)' = RxCount(c) + 0
      <4>1. RxCount(c) \in Nat /\ RxCount(c)' = RxCount(c) + (L - (L + 1) + 1)
        BY <1>2, <1>4, <3>1, <3>2
      <4> QED
        BY <3>2, <4>1
    <3> QED
      BY <2>3, <3>3
  <2> QED
    BY <2>2, <2>3
<1> QED
  BY <1>5, <1>6

(* What a transmit completion adds to the counts of its side. *)
LEMMA TxAdds ==
  ASSUME Inv, Tallied, NEW code \in Codes, uncounted' = uncounted,
         tx_log' = Append(tx_log, [tx |-> TxTaken + 1, code |-> code])
  PROVE  \A c \in Drops : TxCount(c) \in Nat /\ TxCount(c)' = TxCount(c) + IF c = code THEN 1 ELSE 0
<1> DEFINE L == Len(tx_log)
<1>1. PICK e : e = [tx |-> TxTaken + 1, code |-> code]
  OBVIOUS
<1>2. TxTaken \in Nat
  BY Counts DEF Inv
<1>3. e \in TxEntries /\ e.code = code
  BY SMT, <1>1, <1>2 DEF TxEntries
<1>4. tx_log \in Seq(TxEntries) /\ L \in Nat /\ uncounted[1] \in 0..L
  BY SMT DEF Inv, Typed, Tallied
<1>5. Len(tx_log') = L + 1 /\ tx_log'[L + 1] = e /\ \A k \in 1..L : tx_log'[k] = tx_log[k]
  BY SMT, <1>1, <1>3, <1>4
<1>6. TxSince = (uncounted[1] + 1)..L /\ TxSince' = (uncounted[1] + 1)..(L + 1)
  BY <1>5 DEF TxSince
<1> HIDE DEF L
<1>7. TxSince \subseteq 1..L /\ TxSince' = TxSince \cup {L + 1} /\ L + 1 \notin 1..L
  BY SMT, <1>4, <1>6
<1> SUFFICES ASSUME NEW c \in Drops
             PROVE  TxCount(c) \in Nat /\ TxCount(c)' = TxCount(c) + IF c = code THEN 1 ELSE 0
  OBVIOUS
<1> DEFINE S == {k \in TxSince : tx_log[k].code = c}
<1>8. S \in SUBSET (1..L)
  BY <1>7
<1>9. TxCount(c) = Cardinality(S) /\ TxCount(c)' = Cardinality({k \in TxSince' : tx_log'[k].code = c})
  BY DEF TxCount
<1>10. CASE c = code
  <2>1. {k \in TxSince' : tx_log'[k].code = c} = S \cup {L + 1}
    BY <1>3, <1>5, <1>7, <1>10
  <2>2. {L + 1} = (L + 1)..(L + 1)
    BY SMT, <1>4
  <2>3. L + 1 \in Nat /\ L < L + 1 /\ L + 1 <= (L + 1) + 1 /\ (L + 1) - (L + 1) + 1 = 1
    BY SMT, <1>4
  <2> HIDE DEF S
  <2>4. /\ Cardinality(S) \in Nat
        /\ Cardinality(S \cup ((L + 1)..(L + 1))) = Cardinality(S) + ((L + 1) - (L + 1) + 1)
    BY <1>4, <1>8, <2>3, Added
  <2> QED
    BY <1>9, <1>10, <2>1, <2>2, <2>3, <2>4
<1>11. CASE c # code
  <2>1. {k \in TxSince' : tx_log'[k].code = c} = S
    BY <1>3, <1>5, <1>7, <1>11
  <2>2. L + 1 \in Nat /\ L < L + 1 /\ L + 1 <= L + 1
    BY SMT, <1>4
  <2> HIDE DEF S
  <2>3. Cardinality(S) \in Nat
    BY <1>4, <1>8, <2>2, Added
  <2>4. TxCount(c)' = TxCount(c) /\ TxCount(c) \in Nat
    BY <1>9, <2>1, <2>3
  <2>5. \A m \in Nat : m + 0 = m
    BY SMT
  <2> QED
    BY <1>11, <2>4, <2>5
<1> QED
  BY <1>10, <1>11

(* Only the descriptor at hand can fail now. *)
LEMMA Failing ==
  ASSUME Inv, Tallied, NEW rx, NEW n, NEW last, Ran(rx, n, last), rx_log' = rx_log \o rx,
         uncounted' = uncounted, NEW now, now = TxTaken + 1
  PROVE  /\ \A i \in 1..TxTaken : Failed(i)' <=> Failed(i)
         /\ Failed(now)' <=> Len(rx) = n + 1
<1> DEFINE L == Len(rx_log)
<1>1. rx \in Seq(RxEntries) /\ n \in Nat /\ last # "Success" /\ (Len(rx) = n \/ Len(rx) = n + 1)
  BY DEF Ran
<1>2. /\ L \in Nat /\ Len(rx) \in Nat /\ DOMAIN rx_log = 1..L /\ DOMAIN rx_log' = 1..(L + Len(rx))
      /\ \A k \in 1..L : rx_log'[k] = rx_log[k]
      /\ \A j \in 1..Len(rx) : rx_log'[L + j] = rx[j]
  BY <1>1, RxGrows
<1> HIDE DEF L
<1>3. TxTaken \in Nat
  BY Counts DEF Inv
<1>4. \A k \in 1..L : rx_log[k].tx \in 1..TxTaken
  BY DEF Inv, Logged, L
<1>5. TxTaken + 1 \notin 1..TxTaken
  BY SMT, <1>3
<1>6. \A j \in 1..Len(rx) : rx[j].tx = TxTaken + 1 /\ rx[j].code = IF j <= n THEN "Success" ELSE last
  BY DEF Ran
<1>7. \A k \in 1..(L + Len(rx)) : k \in 1..L \/ (k - L \in 1..Len(rx) /\ L + (k - L) = k)
  BY SMT, <1>2
<1>8. \A k \in 1..L : k \in 1..(L + Len(rx))
  BY SMT, <1>2
<1>9. \A i : Failed(i)' <=> \E k \in 1..(L + Len(rx)) : rx_log'[k].tx = i /\ rx_log'[k].code # "Success"
  BY <1>2 DEF Failed
<1>10. ASSUME NEW i \in 1..TxTaken PROVE Failed(i)' <=> Failed(i)
  <2>1. i # TxTaken + 1
    BY <1>5
  <2> QED
    <3>1. Failed(i) <=> \E k \in 1..L : rx_log[k].tx = i /\ rx_log[k].code # "Success"
      BY <1>2 DEF Failed
    <3>2. ASSUME Failed(i) PROVE Failed(i)'
      <4>1. PICK k \in 1..L : rx_log[k].tx = i /\ rx_log[k].code # "Success"
        BY <3>1, <3>2
      <4>2. k \in 1..(L + Len(rx)) /\ rx_log'[k] = rx_log[k]
        BY <1>2, <1>8
      <4> QED
        BY <1>9, <4>1, <4>2
    <3>3. ASSUME Failed(i)' PROVE Failed(i)
      <4>1. PICK k \in 1..(L + Len(rx)) : rx_log'[k].tx = i /\ rx_log'[k].code # "Success"
        BY <1>9, <3>3
      <4>2. ~(k - L \in 1..Len(rx) /\ L + (k - L) = k)
        BY <1>2, <1>6, <2>1, <4>1
      <4>3. k \in 1..L /\ rx_log'[k] = rx_log[k]
        BY <1>2, <1>7, <4>2
      <4> QED
        BY <3>1, <4>1, <4>3
    <3> QED
      BY <3>2, <3>3
<1>11. ASSUME Len(rx) = n + 1 PROVE Failed(now)'
  <2>1. n + 1 \in 1..Len(rx) /\ ~(n + 1 <= n) /\ L + (n + 1) \in 1..(L + Len(rx))
    BY SMT, <1>1, <1>2, <1>11
  <2>2. rx[n + 1].tx = TxTaken + 1 /\ rx[n + 1].code = last
    BY <1>6, <2>1
  <2> QED
    BY <1>1, <1>2, <1>9, <2>1, <2>2
<1>12. ASSUME Len(rx) = n PROVE ~Failed(now)'
  <2>1. \A j \in 1..Len(rx) : j <= n
    BY SMT, <1>1, <1>12
  <2>2. \A j \in 1..Len(rx) : rx[j].code = "Success"
    BY <1>6, <2>1
  <2>3. ASSUME Failed(now)' PROVE FALSE
    <3>1. PICK k \in 1..(L + Len(rx)) : rx_log'[k].tx = TxTaken + 1 /\ rx_log'[k].code # "Success"
      BY <1>9, <2>3
    <3>2. CASE k \in 1..L
      BY <1>2, <1>4, <1>5, <3>1, <3>2
    <3>3. CASE k - L \in 1..Len(rx) /\ L + (k - L) = k
      <4>1. rx_log'[k] = rx[k - L]
        BY <1>2, <3>3
      <4> QED
        BY <2>2, <3>1, <3>3, <4>1
    <3> QED
      BY <1>7, <3>2, <3>3
  <2> QED
    BY <2>3
<1>13. n # n + 1
  BY SMT, <1>1
<1> QED
  BY <1>1, <1>10, <1>11, <1>12, <1>13

(* The transmit completions the dispatcher is told of: one more, unless the *)
(* receive side failed.                                                     *)
LEMMA Telling ==
  ASSUME Inv, Tallied, NEW code \in Codes, NEW now, now = TxTaken + 1,
         \A i \in 1..TxTaken : Failed(i)' <=> Failed(i),
         tx_log' = Append(tx_log, [tx |-> now, code |-> code])
  PROVE  /\ Told \in Nat
         /\ Failed(now)' => Told' = Told
         /\ ~Failed(now)' => Told' = Told + 1
<1>1. PICK e : e = [tx |-> now, code |-> code]
  OBVIOUS
<1>2. TxTaken \in Nat
  BY Counts DEF Inv
<1>3. e \in TxEntries /\ e.tx = now
  BY SMT, <1>1, <1>2 DEF TxEntries
<1>4. tx_log \in Seq(TxEntries) /\ Len(tx_log) \in Nat
  BY SMT DEF Inv, Typed
<1>5. PICK L \in Nat : L = Len(tx_log)
  BY <1>4
<1>6. DOMAIN tx_log = 1..L /\ \A k \in 1..L : tx_log[k].tx \in 1..TxTaken
  BY SMT, <1>4, <1>5 DEF Inv, Logged
<1>7. DOMAIN tx_log' = 1..(L + 1) /\ tx_log'[L + 1] = e /\ \A k \in 1..L : tx_log'[k] = tx_log[k]
  BY SMT, <1>1, <1>3, <1>4, <1>5
<1> DEFINE S == {k \in 1..L : ~Failed(tx_log[k].tx)}
           T == {k \in 1..(L + 1) : ~(Failed(tx_log[k].tx)')}
<1>8. Told = Cardinality(S) /\ Told' = Cardinality(T)
  BY <1>6, <1>7 DEF Told
<1>9. \A k \in 1..L : Failed(tx_log[k].tx)' <=> Failed(tx_log[k].tx)
  <2> SUFFICES ASSUME NEW k \in 1..L PROVE Failed(tx_log[k].tx)' <=> Failed(tx_log[k].tx)
    OBVIOUS
  <2>1. PICK i \in 1..TxTaken : i = tx_log[k].tx /\ i = tx_log'[k].tx
    BY <1>6, <1>7
  <2>2. Failed(tx_log[k].tx)' <=> Failed(i)'
    BY <2>1 DEF Failed
  <2>3. Failed(tx_log[k].tx) <=> Failed(i)
    BY <2>1
  <2> QED
    BY <2>2, <2>3
<1>10. Failed(tx_log[L + 1].tx)' <=> Failed(now)'
  BY <1>3, <1>7 DEF Failed
<1>11. 1..(L + 1) = (1..L) \cup {L + 1} /\ L + 1 \notin 1..L /\ {L + 1} = (L + 1)..(L + 1)
  BY SMT
<1>12. S \in SUBSET (1..L)
  OBVIOUS
<1>13. Failed(now)' => T = S
  BY <1>9, <1>10, <1>11
<1>14. ~Failed(now)' => T = S \cup ((L + 1)..(L + 1))
  BY <1>9, <1>10, <1>11
<1>15. L + 1 \in Nat /\ L < L + 1 /\ L + 1 <= (L + 1) + 1 /\ (L + 1) - (L + 1) + 1 = 1
  BY SMT
<1> HIDE DEF S, T
<1>16. /\ Cardinality(S) \in Nat
       /\ Cardinality(S \cup ((L + 1)..(L + 1))) = Cardinality(S) + ((L + 1) - (L + 1) + 1)
  BY <1>12, <1>15, Added
<1> QED
  BY <1>8, <1>13, <1>14, <1>15, <1>16

(* The segments of packets sent whole: all those of this one, or none. *)
LEMMA Sending ==
  ASSUME Inv, Tallied, NEW rx, NEW n, NEW last, Ran(rx, n, last), rx_log' = rx_log \o rx,
         uncounted' = uncounted, NEW now, now = TxTaken + 1,
         \A i \in 1..TxTaken : SentWhole(i)' <=> SentWhole(i)
  PROVE  /\ SegmentsSent \in Nat
         /\ SentWhole(now)' => SegmentsSent' = SegmentsSent + Len(rx)
         /\ ~SentWhole(now)' => SegmentsSent' = SegmentsSent
<1>1. rx \in Seq(RxEntries) /\ \A j \in 1..Len(rx) : rx[j].tx = now
  BY DEF Ran
<1>2. Len(rx_log) \in Nat
  BY <1>1, RxGrows
<1>3. PICK L \in Nat : L = Len(rx_log)
  BY <1>2
<1>4. /\ Len(rx) \in Nat /\ RxSince \subseteq 1..L
      /\ RxSince' = RxSince \cup ((L + 1)..(L + Len(rx)))
      /\ \A k \in 1..L : rx_log'[k] = rx_log[k]
      /\ \A j \in 1..Len(rx) : rx_log'[L + j] = rx[j]
  BY <1>1, <1>3, RxGrows
<1>5. \A k \in 1..L : rx_log[k].tx \in 1..TxTaken
  BY <1>3 DEF Inv, Logged
<1>6. ASSUME NEW k \in RxSince PROVE SentWhole(rx_log[k].tx)' <=> SentWhole(rx_log[k].tx)
  <2>1. PICK i \in 1..TxTaken : i = rx_log[k].tx /\ i = rx_log'[k].tx
    BY <1>4, <1>5
  <2>2. SentWhole(rx_log[k].tx)' <=> SentWhole(i)'
    BY SMT, <2>1 DEF SentWhole, Failed
  <2>3. SentWhole(rx_log[k].tx) <=> SentWhole(i)
    BY <2>1
  <2> QED
    BY <2>2, <2>3
<1>7. ASSUME NEW k \in (L + 1)..(L + Len(rx)) PROVE SentWhole(rx_log[k].tx)' <=> SentWhole(now)'
  <2>1. k - L \in 1..Len(rx) /\ L + (k - L) = k
    BY SMT, <1>4
  <2>2. rx_log'[k].tx = now
    BY <1>1, <1>4, <2>1
  <2> QED
    BY SMT, <2>2 DEF SentWhole, Failed
<1> DEFINE S == {k \in RxSince : SentWhole(rx_log[k].tx)}
           T == {k \in RxSince' : SentWhole(rx_log[k].tx)'}
<1>8. SegmentsSent = Cardinality(S) /\ SegmentsSent' = Cardinality(T)
  BY DEF SegmentsSent
<1>9. S \in SUBSET (1..L)
  BY <1>4
<1>10. SentWhole(now)' => T = S \cup ((L + 1)..(L + Len(rx)))
  BY <1>4, <1>6, <1>7
<1>11. ~SentWhole(now)' => T = S
  BY <1>4, <1>6, <1>7
<1>12. L + 1 \in Nat /\ L + Len(rx) \in Nat /\ L < L + 1 /\ L + 1 <= L + Len(rx) + 1
       /\ (L + Len(rx)) - (L + 1) + 1 = Len(rx)
  BY SMT, <1>4
<1> HIDE DEF S, T
<1>13. /\ Cardinality(S) \in Nat
       /\ Cardinality(S \cup ((L + 1)..(L + Len(rx)))) = Cardinality(S) + ((L + Len(rx)) - (L + 1) + 1)
  BY <1>9, <1>12, Added
<1> QED
  BY <1>8, <1>10, <1>11, <1>12, <1>13

(* Packets sent whole: those of before, and this one if it succeeded. *)
LEMMA WholeAdds ==
  ASSUME Inv, Tallied, NEW code \in Codes, uncounted' = uncounted, NEW now, now = TxTaken + 1,
         \A i \in 1..TxTaken : Failed(i)' <=> Failed(i),
         tx_log' = Append(tx_log, [tx |-> now, code |-> code])
  PROVE  /\ \A i \in 1..TxTaken : SentWhole(i)' <=> SentWhole(i)
         /\ SentWhole(now)' <=> ~Failed(now)' /\ code = "Success"
<1>1. PICK e : e = [tx |-> now, code |-> code]
  OBVIOUS
<1>2. TxTaken \in Nat
  BY Counts DEF Inv
<1>3. e \in TxEntries /\ e.tx = now /\ e.code = code /\ now \notin 1..TxTaken
  BY SMT, <1>1, <1>2 DEF TxEntries
<1>4. tx_log \in Seq(TxEntries) /\ Len(tx_log) \in Nat /\ uncounted[1] \in 0..Len(tx_log)
  BY SMT DEF Inv, Typed, Tallied
<1>5. PICK L \in Nat : L = Len(tx_log)
  BY <1>4
<1>6. \A k \in 1..L : tx_log[k].tx \in 1..TxTaken
  BY <1>5 DEF Inv, Logged
<1>7. Len(tx_log') = L + 1 /\ tx_log'[L + 1] = e /\ \A k \in 1..L : tx_log'[k] = tx_log[k]
  BY SMT, <1>1, <1>3, <1>4, <1>5
<1>8. TxSince = (uncounted[1] + 1)..L /\ TxSince' = (uncounted[1] + 1)..(L + 1)
  BY <1>5, <1>7 DEF TxSince
<1>9. TxSince \subseteq 1..L /\ TxSince' = TxSince \cup {L + 1}
  BY SMT, <1>4, <1>5, <1>8
<1>10. \A i : SentWhole(i)' <=>
               ~(Failed(i)') /\ \E j \in TxSince' : tx_log'[j].tx = i /\ tx_log'[j].code = "Success"
  BY DEF SentWhole
<1>11. \A i : SentWhole(i) <=>
               ~Failed(i) /\ \E j \in TxSince : tx_log[j].tx = i /\ tx_log[j].code = "Success"
  BY DEF SentWhole
<1>12. ASSUME NEW i \in 1..TxTaken PROVE SentWhole(i)' <=> SentWhole(i)
  <2>1. \A j \in TxSince : tx_log'[j] = tx_log[j]
    BY <1>7, <1>9
  <2>2. tx_log'[L + 1].tx # i
    BY <1>3, <1>7
  <2> QED
    BY <1>9, <1>10, <1>11, <2>1, <2>2
<1>13. \A j \in TxSince : tx_log'[j].tx # now
  BY <1>3, <1>6, <1>7, <1>9
<1>14. SentWhole(now)' <=> ~Failed(now)' /\ code = "Success"
  BY <1>3, <1>7, <1>9, <1>10, <1>13
<1> QED
  BY <1>12, <1>14

(* How a completion is told of and counted. *)
Accounted(rx, n, last, code, interrupt, reason, transmitted) ==
  /\ interrupt <=> Len(rx) = n
  /\ transmitted = IF code = "Success" /\ Len(rx) = n THEN n ELSE 0
  /\ \A c \in Drops : (c = code \/ (Len(rx) = n + 1 /\ c = last)) <=> c = reason
  /\ ~(code \in Drops /\ Len(rx) = n + 1 /\ code = last)
  /\ stats' = Counted(reason, n, transmitted)

(* The statistics after it. *)
LEMMA StatsAdd ==
  ASSUME NEW reason, NEW n, NEW transmitted, stats' = Counted(reason, n, transmitted)
  PROVE  /\ stats'.rx_packets = stats.rx_packets + n
         /\ stats'.tx_packets = stats.tx_packets + transmitted
         /\ \A c \in Drops : stats'.drops[c] = stats.drops[c] + IF c = reason THEN 1 ELSE 0
BY DEF Counted

(* A descriptor that is completed keeps the tallies. *)
LEMMA TallyCompleted ==
  ASSUME Inv, Tallied, tx_ring # <<>>, NEW t, t = Head(tx_ring), NEW code \in Codes, NEW rx, NEW n, NEW last,
         Ran(rx, n, last), NEW interrupt, Finish(t, code, rx, interrupt), NEW reason, NEW transmitted,
         Accounted(rx, n, last, code, interrupt, reason, transmitted)
  PROVE  Tallied'
<1>1. t.index = TxTaken + 1
  <2>1. 1 \in 1..Len(tx_ring) /\ Head(tx_ring) = tx_ring[1]
    BY SMT DEF Inv, Typed
  <2> QED
    BY <2>1 DEF Inv, Indexed
<1>2. PICK now : now = TxTaken + 1
  OBVIOUS
<1>3. /\ tx_log' = Append(tx_log, [tx |-> now, code |-> code]) /\ rx_log' = rx_log \o rx
      /\ uncounted' = uncounted
      /\ tx_events' = tx_events + (IF interrupt /\ enable_tx_interrupts THEN 1 ELSE 0)
      /\ rx_events' = rx_events + (IF enable_rx_interrupts THEN Len(rx) ELSE 0)
  BY <1>1, <1>2 DEF Finish
<1>4. rx \in Seq(RxEntries) /\ n \in Nat /\ (Len(rx) = n \/ Len(rx) = n + 1) /\ n # n + 1
  BY SMT DEF Ran
<1>5. (\A i \in 1..TxTaken : Failed(i)' <=> Failed(i)) /\ (Failed(now)' <=> Len(rx) = n + 1)
  BY <1>2, <1>3, Failing
<1>6. (\A i \in 1..TxTaken : SentWhole(i)' <=> SentWhole(i)) /\ (SentWhole(now)' <=> ~Failed(now)' /\ code = "Success")
  BY <1>2, <1>3, <1>5, WholeAdds
<1>7. /\ interrupt <=> Len(rx) = n
      /\ transmitted = IF code = "Success" /\ Len(rx) = n THEN n ELSE 0
      /\ \A c \in Drops : (c = code \/ (Len(rx) = n + 1 /\ c = last)) <=> c = reason
      /\ ~(code \in Drops /\ Len(rx) = n + 1 /\ code = last)
      /\ stats' = Counted(reason, n, transmitted)
  BY DEF Accounted
<1>8. /\ enable_tx_interrupts => tx_events = Told
      /\ enable_rx_interrupts => rx_events = Len(rx_log)
      /\ stats.rx_packets = RxCount("Success")
      /\ stats.tx_packets = SegmentsSent
      /\ \A c \in Drops : stats.drops[c] = TxCount(c) + RxCount(c)
  BY DEF Tallied
<1>9. enable_tx_interrupts => tx_events' = Told'
  <2>1. Told \in Nat /\ (Failed(now)' => Told' = Told) /\ (~Failed(now)' => Told' = Told + 1)
    BY <1>2, <1>3, <1>5, Telling
  <2>2. CASE Len(rx) = n
    BY <1>3, <1>4, <1>5, <1>7, <1>8, <2>1, <2>2
  <2>3. CASE Len(rx) = n + 1
    <3>1. ~interrupt
      BY <1>4, <1>7, <2>3
    <3> QED
      BY SMT, <1>3, <1>5, <1>8, <2>1, <2>3, <3>1
  <2> QED
    BY <1>4, <2>2, <2>3
<1>10. /\ Len(rx_log) \in Nat /\ Len(rx) \in Nat /\ Len(rx_log') = Len(rx_log) + Len(rx)
  BY <1>3, <1>4, RxGrows
<1>11. enable_rx_interrupts => rx_events' = Len(rx_log')
  BY <1>3, <1>8, <1>10
<1>12. /\ stats'.rx_packets = stats.rx_packets + n
       /\ stats'.tx_packets = stats.tx_packets + transmitted
       /\ \A c \in Drops : stats'.drops[c] = stats.drops[c] + IF c = reason THEN 1 ELSE 0
  BY SMT, <1>7, StatsAdd
<1>13. /\ RxCount("Success")' = RxCount("Success") + n
       /\ \A c \in Drops : /\ RxCount(c) \in Nat
                           /\ RxCount(c)' = RxCount(c) + IF Len(rx) = n + 1 /\ c = last THEN 1 ELSE 0
  <2>1. /\ RxCount("Success") \in Nat /\ RxCount("Success")' = RxCount("Success") + n
        /\ \A c \in Drops : /\ RxCount(c) \in Nat
                            /\ RxCount(c)' = RxCount(c) + IF Len(rx) = n + 1 /\ c = last THEN 1 ELSE 0
    <3>1. rx_log' = rx_log \o rx /\ uncounted' = uncounted
      BY <1>3
    <3> QED
      BY SMT, <3>1, RxAdds
  <2> QED
    BY <2>1
<1>14. stats'.rx_packets = RxCount("Success")'
  BY <1>8, <1>12, <1>13
<1>15. stats'.tx_packets = SegmentsSent'
  <2>1. /\ SegmentsSent \in Nat
        /\ SentWhole(now)' => SegmentsSent' = SegmentsSent + Len(rx)
        /\ ~SentWhole(now)' => SegmentsSent' = SegmentsSent
    BY <1>2, <1>3, <1>6, Sending
  <2>2. CASE code = "Success" /\ Len(rx) = n
    BY <1>4, <1>5, <1>6, <1>7, <1>8, <1>12, <2>1, <2>2
  <2>3. CASE ~(code = "Success" /\ Len(rx) = n)
    <3>1. ~SentWhole(now)' /\ transmitted = 0
      BY <1>4, <1>5, <1>6, <1>7, <2>3
    <3> QED
      BY SMT, <1>8, <1>12, <2>1, <3>1
  <2> QED
    BY <2>2, <2>3
<1>16. ASSUME NEW c \in Drops PROVE stats'.drops[c] = TxCount(c)' + RxCount(c)'
  <2>1. TxCount(c) \in Nat /\ TxCount(c)' = TxCount(c) + IF c = code THEN 1 ELSE 0
    BY <1>2, <1>3, TxAdds
  <2>2. RxCount(c) \in Nat /\ RxCount(c)' = RxCount(c) + IF Len(rx) = n + 1 /\ c = last THEN 1 ELSE 0
    BY <1>13
  <2>3. stats'.drops[c] = TxCount(c) + RxCount(c) + IF c = reason THEN 1 ELSE 0
    BY <1>8, <1>12
  <2>4. (c = code \/ (Len(rx) = n + 1 /\ c = last)) <=> c = reason
    BY <1>7
  <2>5. ~(c = code /\ Len(rx) = n + 1 /\ c = last)
    BY <1>7
  <2>6. CASE c = code
    BY SMT, <2>1, <2>2, <2>3, <2>4, <2>5, <2>6
  <2>7. CASE c # code
    BY SMT, <2>1, <2>2, <2>3, <2>4, <2>7
  <2> QED
    BY <2>6, <2>7
<1>17. uncounted'[1] \in 0..Len(tx_log') /\ uncounted'[2] \in 0..Len(rx_log')
  <2>1. tx_log \in Seq(TxEntries) /\ uncounted[1] \in 0..Len(tx_log) /\ uncounted[2] \in 0..Len(rx_log)
    BY DEF Inv, Typed, Tallied
  <2>2. TxTaken \in Nat
    BY Counts DEF Inv
  <2>3. [tx |-> now, code |-> code] \in TxEntries
    BY SMT, <1>2, <2>2 DEF TxEntries
  <2>4. Len(tx_log) \in Nat /\ Len(tx_log') = Len(tx_log) + 1
    BY SMT, <1>3, <2>1, <2>3
  <2> QED
    BY SMT, <1>3, <1>10, <2>1, <2>4
<1> QED
  BY <1>9, <1>11, <1>14, <1>15, <1>16, <1>17 DEF Tallied

(* So does one that is lost: its segments that arrived are counted. *)
LEMMA TallyLost ==
  ASSUME Inv, Tallied, NEW rx, NEW n, NEW last, Ran(rx, n, last), Len(rx) = n, rx_log' = rx_log \o rx,
         rx_events' = rx_events + (IF enable_rx_interrupts THEN Len(rx) ELSE 0),
         UNCHANGED <<tx_log, tx_events, uncounted>>, stats' = Counted("Fault", n, 0)
  PROVE  Tallied'
<1>1. PICK now : now = TxTaken + 1
  OBVIOUS
<1>2. rx \in Seq(RxEntries) /\ n \in Nat /\ n # n + 1
  BY SMT DEF Ran
<1>3. \A i \in 1..TxTaken : Failed(i)' <=> Failed(i)
  BY <1>1, Failing
<1>4. TxTaken \in Nat /\ now \notin 1..TxTaken
  <2>1. TxTaken \in Nat
    BY Counts DEF Inv
  <2> QED
    BY SMT, <1>1, <2>1
<1>5. tx_log \in Seq(TxEntries) /\ Len(tx_log) \in Nat /\ uncounted[1] \in 0..Len(tx_log) /\ uncounted[2] \in 0..Len(rx_log)
  BY SMT DEF Inv, Typed, Tallied
<1>6. \A k \in 1..Len(tx_log) : tx_log[k].tx \in 1..TxTaken
  BY DEF Inv, Logged
<1>7. TxSince \subseteq 1..Len(tx_log) /\ TxSince' = TxSince
  BY SMT, <1>5 DEF TxSince
<1>8. \A i \in 1..TxTaken : SentWhole(i)' <=> SentWhole(i)
  BY <1>3, <1>7 DEF SentWhole
<1>9. ~SentWhole(now)'
  <2>1. \A j \in TxSince' : tx_log'[j].tx # now
    BY <1>4, <1>6, <1>7
  <2> QED
    BY <2>1 DEF SentWhole
<1>10. /\ enable_tx_interrupts => tx_events = Told
       /\ enable_rx_interrupts => rx_events = Len(rx_log)
       /\ stats.rx_packets = RxCount("Success")
       /\ stats.tx_packets = SegmentsSent
       /\ \A c \in Drops : stats.drops[c] = TxCount(c) + RxCount(c)
  BY DEF Tallied
<1>11. Told' = Told
  <2>1. DOMAIN tx_log = 1..Len(tx_log) /\ tx_log' = tx_log
    BY SMT, <1>5
  <2>2. ASSUME NEW k \in DOMAIN tx_log PROVE Failed(tx_log[k].tx)' <=> Failed(tx_log[k].tx)
    <3>1. PICK i \in 1..TxTaken : i = tx_log[k].tx /\ i = tx_log'[k].tx
      BY <1>6, <2>1
    <3>2. Failed(tx_log[k].tx)' <=> Failed(i)'
      BY <3>1 DEF Failed
    <3>3. Failed(tx_log[k].tx) <=> Failed(i)
      BY <3>1
    <3> QED
      BY <1>3, <3>2, <3>3
  <2>3. {k \in DOMAIN tx_log : ~(Failed(tx_log[k].tx)')} = {k \in DOMAIN tx_log : ~Failed(tx_log[k].tx)}
    BY <2>2
  <2> QED
    BY <2>1, <2>3 DEF Told
<1>12. SegmentsSent \in Nat /\ SegmentsSent' = SegmentsSent
  BY <1>1, <1>8, <1>9, Sending
<1>13. /\ Len(rx_log) \in Nat /\ Len(rx) \in Nat /\ Len(rx_log') = Len(rx_log) + Len(rx)
  BY <1>2, RxGrows
<1>14. /\ stats'.rx_packets = stats.rx_packets + n
       /\ stats'.tx_packets = stats.tx_packets + 0
       /\ \A c \in Drops : stats'.drops[c] = stats.drops[c] + IF c = "Fault" THEN 1 ELSE 0
  BY SMT, StatsAdd
<1>15. /\ RxCount("Success")' = RxCount("Success") + n
       /\ \A c \in Drops : /\ RxCount(c) \in Nat
                           /\ RxCount(c)' = RxCount(c) + IF Len(rx) = n + 1 /\ c = last THEN 1 ELSE 0
  BY SMT, RxAdds
<1>16. ASSUME NEW c \in Drops PROVE stats'.drops[c] = TxCount(c)' + RxCount(c)'
  <2>1. TxCount(c)' = TxCount(c)
    BY <1>7 DEF TxCount
  <2>2. TxCount(c) \in Nat
    <3>1. IsFiniteSet(1..Len(tx_log))
      BY SMT, <1>5, FS_Interval
    <3>2. {k \in TxSince : tx_log[k].code = c} \in SUBSET (1..Len(tx_log))
      BY <1>7
    <3>3. IsFiniteSet({k \in TxSince : tx_log[k].code = c})
      BY <3>1, <3>2, FS_Subset
    <3> QED
      BY <3>3, FS_CardinalityType DEF TxCount
  <2>3. RxCount(c) \in Nat /\ RxCount(c)' = RxCount(c) + 0
    BY <1>2, <1>15
  <2>4. c # "Fault"
    BY DEF Drops
  <2>5. stats'.drops[c] = TxCount(c) + RxCount(c) + 0
    BY <1>10, <1>14, <2>4
  <2> QED
    BY SMT, <2>1, <2>2, <2>3, <2>5
<1>17. enable_rx_interrupts => rx_events' = Len(rx_log')
  BY <1>10, <1>13
<1>18. stats'.rx_packets = RxCount("Success")' /\ stats'.tx_packets = SegmentsSent'
  BY SMT, <1>10, <1>12, <1>14, <1>15
<1>19. uncounted'[1] \in 0..Len(tx_log') /\ uncounted'[2] \in 0..Len(rx_log')
  BY SMT, <1>5, <1>13
<1>20. enable_tx_interrupts => tx_events' = Told'
  BY <1>10, <1>11
<1> QED
  BY <1>16, <1>17, <1>18, <1>19, <1>20 DEF Tallied

(* Successes, and the failure after them. *)
LEMMA Running ==
  ASSUME Inv, tx_ring # <<>>, NEW t, NEW segs, Segmenting(t, segs), NEW last \in Codes \ {"Success"}
  PROVE  /\ \A n \in 0..Len(segs) : Ran(Successes(t, segs, n), n, last) /\ Len(Successes(t, segs, n)) = n
         /\ \A k \in 1..Len(segs) :
              LET rx == Append(Successes(t, segs, k - 1), Received(t, segs, k, last))
              IN  Ran(rx, k - 1, last) /\ Len(rx) = (k - 1) + 1
<1>1. Head(tx_ring).index = TxTaken + 1
  <2>1. 1 \in 1..Len(tx_ring) /\ Head(tx_ring) = tx_ring[1]
    BY SMT DEF Inv, Typed
  <2> QED
    BY <2>1 DEF Inv, Indexed
<1>2. Len(segs) \in Nat /\ "Success" \in Codes
  BY SMT DEF Segmenting, Codes
<1>3. ASSUME NEW n \in 0..Len(segs) PROVE Ran(Successes(t, segs, n), n, last) /\ Len(Successes(t, segs, n)) = n
  <2>1. PICK rx : rx = Successes(t, segs, n)
    OBVIOUS
  <2>2. /\ rx \in Seq(RxEntries) /\ Len(rx) = n
        /\ \A j \in 1..n : rx[j] = Received(t, segs, j, "Success")
    BY <2>1, Succeeding
  <2>3. \A j \in 1..n : j \in 1..Len(segs) /\ j <= n
    BY SMT, <1>2
  <2>4. \A j \in 1..n : rx[j].code = "Success" /\ rx[j].tx = Head(tx_ring).index
    BY SMT, <1>2, <2>2, <2>3, Receiving
  <2> QED
    BY SMT, <1>1, <1>2, <2>1, <2>2, <2>3, <2>4 DEF Ran
<1>4. ASSUME NEW k \in 1..Len(segs)
      PROVE  LET rx == Append(Successes(t, segs, k - 1), Received(t, segs, k, last))
             IN  Ran(rx, k - 1, last) /\ Len(rx) = (k - 1) + 1
  <2>1. PICK before : before = Successes(t, segs, k - 1)
    OBVIOUS
  <2>2. PICK r : r = Received(t, segs, k, last)
    OBVIOUS
  <2>3. k - 1 \in 0..Len(segs) /\ k - 1 \in Nat /\ (k - 1) + 1 = k
    BY SMT, <1>2
  <2>4. Ran(before, k - 1, last) /\ Len(before) = k - 1
    BY <1>3, <2>1, <2>3
  <2>5. r \in RxEntries /\ r.code = last /\ r.tx = TxTaken + 1
    BY SMT, <1>1, <2>2, Receiving
  <2>6. PICK rx : rx = Append(before, r)
    OBVIOUS
  <2>7. /\ rx \in Seq(RxEntries) /\ Len(rx) = k /\ rx[k] = r
        /\ \A j \in 1..(k - 1) : rx[j] = before[j]
    BY SMT, <2>3, <2>4, <2>5, <2>6 DEF Ran
  <2>8. \A j \in 1..k : (j \in 1..(k - 1) /\ j <= k - 1) \/ (j = k /\ ~(j <= k - 1))
    BY SMT
  <2>9. \A j \in 1..(k - 1) : before[j].tx = TxTaken + 1 /\ before[j].code = IF j <= k - 1 THEN "Success" ELSE last
    BY <2>4 DEF Ran
  <2>10. \A j \in 1..k : rx[j].tx = TxTaken + 1 /\ rx[j].code = IF j <= k - 1 THEN "Success" ELSE last
    BY <2>5, <2>7, <2>8, <2>9
  <2>11. Ran(rx, k - 1, last)
    BY <2>3, <2>7, <2>10 DEF Ran
  <2> QED
    BY <2>1, <2>2, <2>3, <2>6, <2>7, <2>11
<1> QED
  BY <1>3, <1>4

(* The loop over the segments keeps the tallies. *)
LEMMA TallyLooped ==
  ASSUME Inv, Tallied, tx_ring # <<>>, NEW t, NEW segs, Segmenting(t, segs), process_segments(t, segs)
  PROVE  Tallied'
<1>1. t = Head(tx_ring) /\ Len(segs) \in Nat /\ DOMAIN segs = 1..Len(segs)
  BY SMT DEF Segmenting
<1>2. /\ "Success" \in Codes /\ {"Fault", "BufferTooSmall", "ChecksumError"} \subseteq Codes \ {"Success"}
      /\ "Success" \notin Drops /\ "Fault" \notin Drops
  BY DEF Codes, Drops
<1>3. ASSUME Finish(t, "Success", Successes(t, segs, Len(segs)), TRUE), stats' = Counted("Success", Len(segs), Len(segs))
      PROVE  Tallied'
  <2>0. PICK n \in Nat : n = Len(segs)
    BY <1>1
  <2>1. PICK rx : rx = Successes(t, segs, Len(segs)) /\ n = Len(segs)
    BY <2>0
  <2>2. Len(segs) \in 0..Len(segs) /\ n # n + 1
    BY SMT, <1>1
  <2>3. Ran(rx, n, "Fault") /\ Len(rx) = n
    BY SMT, <1>2, <2>1, <2>2, Running
  <2>4. Accounted(rx, n, "Fault", "Success", TRUE, "Success", n)
    BY <1>2, <1>3, <2>1, <2>2, <2>3 DEF Accounted
  <2> QED
    BY <1>1, <1>2, <1>3, <2>1, <2>3, <2>4, TallyCompleted
<1>4. ASSUME NEW k \in 1..Len(segs), NEW last \in Codes \ {"Success"}, NEW end \in {"Success", "Fault"},
             end # "Success" => last = "Fault",
             Finish(t, end, Append(Successes(t, segs, k - 1), Received(t, segs, k, last)), FALSE),
             stats' = Counted(last, k - 1, 0)
      PROVE  Tallied'
  <2>1. PICK rx, n : rx = Append(Successes(t, segs, k - 1), Received(t, segs, k, last)) /\ n = k - 1
    OBVIOUS
  <2>2. Ran(rx, n, last) /\ Len(rx) = n + 1
    BY SMT, <2>1, Running
  <2>3. n \in Nat /\ n # n + 1
    BY SMT, <2>2 DEF Ran
  <2>4. Accounted(rx, n, last, end, FALSE, last, 0)
    BY <1>2, <1>4, <2>1, <2>2, <2>3 DEF Accounted
  <2>5. end \in Codes
    BY <1>2
  <2> QED
    BY <1>1, <1>4, <2>1, <2>2, <2>4, <2>5, TallyCompleted
<1>5. ASSUME NEW k \in 1..Len(segs), NEW before, before = Successes(t, segs, k - 1), rx_log' = rx_log \o before,
             rx_events' = rx_events + (IF enable_rx_interrupts THEN Len(before) ELSE 0),
             stats' = Counted("Fault", Len(before), 0), UNCHANGED <<tx_log, tx_events, uncounted>>
      PROVE  Tallied'
  <2>1. k - 1 \in 0..Len(segs)
    BY SMT, <1>1
  <2>2. Ran(before, k - 1, "Fault") /\ Len(before) = k - 1
    BY <1>2, <1>5, <2>1, Running
  <2> QED
    BY <1>5, <2>2, TallyLost
<1>6. CASE /\ Finish(t, "Success", Successes(t, segs, Len(segs)), TRUE)
           /\ stats' = Counted("Success", Len(segs), Len(segs))
  BY <1>3, <1>6
<1>7. ASSUME NEW k \in DOMAIN segs,
             LET before == Successes(t, segs, k - 1)
                 ended(code) == Append(before, Received(t, segs, k, code))
             IN  \/ /\ Finish(t, "Success", ended("BufferTooSmall"), FALSE)
                    /\ stats' = Counted("BufferTooSmall", k - 1, 0)
                 \/ /\ Finish(t, "Fault", ended("Fault"), FALSE)
                    /\ stats' = Counted("Fault", k - 1, 0)
                 \/ /\ Finish(t, "Success", ended("ChecksumError"), FALSE)
                    /\ stats' = Counted("ChecksumError", k - 1, 0)
                 \/ Abandon(t, before, k - 1)
                 \/ Abandon(t, before, k)
      PROVE  Tallied'
  <2>1. k \in 1..Len(segs) /\ "Success" \in {"Success", "Fault"} /\ "Fault" \in {"Success", "Fault"}
    BY <1>1
  <2>2. CASE /\ Finish(t, "Success", Append(Successes(t, segs, k - 1), Received(t, segs, k, "BufferTooSmall")), FALSE)
             /\ stats' = Counted("BufferTooSmall", k - 1, 0)
    BY <1>2, <1>4, <2>1, <2>2
  <2>3. CASE /\ Finish(t, "Fault", Append(Successes(t, segs, k - 1), Received(t, segs, k, "Fault")), FALSE)
             /\ stats' = Counted("Fault", k - 1, 0)
    BY <1>2, <1>4, <2>1, <2>3
  <2>4. CASE /\ Finish(t, "Success", Append(Successes(t, segs, k - 1), Received(t, segs, k, "ChecksumError")), FALSE)
             /\ stats' = Counted("ChecksumError", k - 1, 0)
    BY <1>2, <1>4, <2>1, <2>4
  <2>5. ASSUME NEW popped, Abandon(t, Successes(t, segs, k - 1), popped) PROVE Tallied'
    BY <1>5, <2>1, <2>5 DEF Abandon
  <2> QED
    BY <1>7, <2>2, <2>3, <2>4, <2>5
<1> QED
  BY <1>6, <1>7, Zenon DEF process_segments

(* And so does all that process_once does with a transmit descriptor. *)
LEMMA TallyProcessed ==
  ASSUME Inv, Tallied, tx_ring # <<>>, NEW t, t = Head(tx_ring), Process(t)
  PROVE  Tallied'
<1>1. t \in TxSlots /\ t.desc \in TxDescriptors
  <2>1. tx_ring \in Seq(TxSlots)
    BY DEF Inv, Typed
  <2>2. t \in TxSlots
    BY SMT, <2>1
  <2> QED
    BY <2>2 DEF TxSlots
<1>2. ASSUME NEW code \in Codes \ {"Success"}, Refuse(t, code) PROVE Tallied'
  <2>1. PICK rx : rx = <<>>
    OBVIOUS
  <2>2. Finish(t, code, rx, TRUE) /\ stats' = Counted(code, 0, 0)
    BY <1>2, <2>1 DEF Refuse
  <2>3. rx \in Seq(RxEntries) /\ Len(rx) = 0
    BY SMT, <2>1
  <2>4. Ran(rx, 0, "Fault")
    BY SMT, <2>3 DEF Ran
  <2>5. Accounted(rx, 0, "Fault", code, TRUE, code, 0)
    BY SMT, <2>2, <2>3 DEF Accounted
  <2> QED
    BY <2>2, <2>4, <2>5, TallyCompleted
<1>3. {"NoDescriptor", "Fault", "ChecksumError", "MtuExceeded", "InvalidMss", "TooManySegments"} \subseteq Codes \ {"Success"}
  BY DEF Codes, Drops
<1>4. PICK segs : segs = build_segments(t.desc)
  OBVIOUS
<1>5. ASSUME Segmented(t.desc) => ValidMss(t.desc), Len(rx_ring) >= Len(segs), process_segments(t, segs)
      PROVE  Tallied'
  <2>1. Segmenting(t, segs)
    BY <1>1, <1>4, <1>5, Segmentation DEF Segmenting
  <2> QED
    BY <1>5, <2>1, TallyLooped
<1>6. \/ \E code \in {"NoDescriptor", "Fault", "ChecksumError", "MtuExceeded", "InvalidMss", "TooManySegments"} : Refuse(t, code)
      \/ (Segmented(t.desc) => ValidMss(t.desc)) /\ Len(rx_ring) >= Len(segs) /\ process_segments(t, segs)
  BY <1>4, Zenon DEF Process
<1> QED
  BY <1>2, <1>3, <1>5, <1>6

(* A step that makes no completion. *)
LEMMA TallyKept ==
  ASSUME Tallied, UNCHANGED <<tx_log, rx_log, tx_events, rx_events, stats, uncounted>>
  PROVE  Tallied'
BY SMT DEF Tallied, Told, SegmentsSent, Failed, SentWhole, TxSince, RxSince, TxCount, RxCount

(* Resetting the statistics starts the counts over. *)
LEMMA TallyReset ==
  ASSUME Inv, Tallied, StatsReset, UNCHANGED logs
  PROVE  Tallied'
<1>1. UNCHANGED <<tx_log, rx_log, tx_events, rx_events>>
  BY DEF logs
<1>2. Len(tx_log) \in Nat /\ Len(rx_log) \in Nat
  BY SMT DEF Inv, Typed
<1>3. uncounted'[1] = Len(tx_log) /\ uncounted'[2] = Len(rx_log) /\ stats' = QueuePairStats
  BY DEF StatsReset
<1>4. TxSince' = {} /\ RxSince' = {}
  BY SMT, <1>1, <1>2, <1>3 DEF TxSince, RxSince
<1>5. Cardinality({}) = 0
  BY FS_EmptySet
<1>6. \A c : TxCount(c)' = 0 /\ RxCount(c)' = 0
  BY <1>4, <1>5 DEF TxCount, RxCount
<1>7. SegmentsSent' = 0
  BY <1>4, <1>5 DEF SegmentsSent
<1>8. /\ stats'.rx_packets = 0 /\ stats'.tx_packets = 0
      /\ \A c \in Drops : stats'.drops[c] = 0
  BY <1>3 DEF QueuePairStats
<1>9. enable_tx_interrupts => tx_events' = Told'
  BY <1>1 DEF Tallied, Told, Failed
<1>10. enable_rx_interrupts => rx_events' = Len(rx_log')
  BY <1>1 DEF Tallied
<1>11. uncounted'[1] \in 0..Len(tx_log') /\ uncounted'[2] \in 0..Len(rx_log')
  BY SMT, <1>1, <1>2, <1>3
<1>12. \A c \in Drops : stats'.drops[c] = TxCount(c)' + RxCount(c)'
  BY SMT, <1>6, <1>8
<1> QED
  BY <1>6, <1>7, <1>8, <1>9, <1>10, <1>11, <1>12 DEF Tallied

(* Completions are told of and counted, for any packets and sizes, through  *)
(* faults, lost descriptors, dropped completions and resets of pair and     *)
(* statistics: the transmit completion of a packet that failed at a receive *)
(* buffer is the only one the dispatcher may not hear of.                   *)
THEOREM ReportTheorem == Spec => []CompletionsAreReported
<1>1. Init => Tallied
  <2> SUFFICES ASSUME Init PROVE Tallied
    OBVIOUS
  <2>1. /\ tx_log = <<>> /\ rx_log = <<>> /\ tx_events = 0 /\ rx_events = 0
        /\ stats = QueuePairStats /\ uncounted[1] = 0 /\ uncounted[2] = 0
    BY DEF Init
  <2>2. Len(tx_log) = 0 /\ Len(rx_log) = 0 /\ DOMAIN tx_log = {}
    BY SMT, <2>1
  <2>3. TxSince = {} /\ RxSince = {}
    BY SMT, <2>1, <2>2 DEF TxSince, RxSince
  <2>4. Cardinality({}) = 0
    BY FS_EmptySet
  <2>5. \A c : TxCount(c) = 0 /\ RxCount(c) = 0
    BY <2>3, <2>4 DEF TxCount, RxCount
  <2>6. SegmentsSent = 0 /\ Told = 0
    BY <2>2, <2>3, <2>4 DEF SegmentsSent, Told
  <2>7. /\ stats.rx_packets = 0 /\ stats.tx_packets = 0
        /\ \A c \in Drops : stats.drops[c] = 0
    BY <2>1 DEF QueuePairStats
  <2> QED
    BY SMT, <2>1, <2>2, <2>5, <2>6, <2>7 DEF Tallied
<1>2. Inv /\ Tallied /\ [Next]_vars => Tallied'
  <2> SUFFICES ASSUME Inv, Tallied, [Next]_vars PROVE Tallied'
    OBVIOUS
  <2>1. ASSUME NEW d \in TxDescriptors, push_tx(d) PROVE Tallied'
    BY <2>1, TallyKept DEF push_tx, logs, statVars
  <2>2. ASSUME NEW d \in RxDescriptors, push_rx(d) PROVE Tallied'
    BY <2>2, TallyKept DEF push_rx, logs, statVars
  <2>3. CASE poll_tx
    BY <2>3, TallyKept DEF poll_tx, logs, statVars
  <2>4. CASE poll_rx
    BY <2>4, TallyKept DEF poll_rx, logs, statVars
  <2>5. CASE process_once
    <3>1. CASE tx_ring # <<>> /\ Process(Head(tx_ring))
      BY <3>1, TallyProcessed
    <3>2. CASE UNCHANGED <<rings, cqs, logs, pushes, statVars>>
      BY <3>2, TallyKept DEF logs, statVars
    <3>3. CASE Abandon(Head(tx_ring), <<>>, 0)
      <4>1. PICK rx : rx = <<>>
        OBVIOUS
      <4>2. rx \in Seq(RxEntries) /\ Len(rx) = 0
        BY SMT, <4>1
      <4>3. Ran(rx, 0, "Fault")
        BY SMT, <4>2 DEF Ran
      <4> QED
        BY <3>3, <4>1, <4>2, <4>3, TallyLost DEF Abandon
    <3> QED
      BY <2>5, <3>1, <3>2, <3>3 DEF process_once
  <2>6. CASE reset_stats
    BY <2>6, TallyReset DEF reset_stats
  <2>7. CASE reset
    BY <2>7, TallyReset DEF reset
  <2>8. CASE UNCHANGED vars
    BY <2>8, TallyKept DEF vars, logs, statVars
  <2> QED
    BY <2>1, <2>2, <2>3, <2>4, <2>5, <2>6, <2>7, <2>8 DEF Next
<1>3. Inv /\ Tallied => CompletionsAreReported
  <2> SUFFICES ASSUME Inv, Tallied PROVE CompletionsAreReported
    OBVIOUS
  <2>1. DOMAIN tx_log = 1..Len(tx_log) /\ Len(tx_log) \in Nat
    BY SMT DEF Inv, Typed
  <2>2. IsFiniteSet(1..Len(tx_log)) /\ Cardinality(1..Len(tx_log)) = Len(tx_log)
    <3>1. 1 \in Int /\ Len(tx_log) \in Int
      BY SMT, <2>1
    <3>2. /\ IsFiniteSet(1..Len(tx_log))
          /\ Cardinality(1..Len(tx_log)) = IF 1 > Len(tx_log) THEN 0 ELSE Len(tx_log) - 1 + 1
      BY <3>1, FS_Interval
    <3> QED
      BY SMT, <2>1, <3>2
  <2>3. Told \in Nat /\ Told <= Len(tx_log)
    <3>1. PICK S \in SUBSET (1..Len(tx_log)) : S = {k \in DOMAIN tx_log : ~Failed(tx_log[k].tx)}
      BY <2>1
    <3>2. IsFiniteSet(S) /\ Cardinality(S) <= Cardinality(1..Len(tx_log)) /\ Cardinality(S) \in Nat
      BY <2>2, FS_Subset, FS_CardinalityType
    <3> QED
      BY <2>2, <3>1, <3>2 DEF Told
  <2>4. Told \in Told..Len(tx_log)
    BY SMT, <2>1, <2>3
  <2> QED
    BY <2>4 DEF Tallied, CompletionsAreReported, Told, SegmentsSent
<1> QED
  BY <1>1, <1>2, <1>3, Invariance, PTL DEF Spec
=============================================================================
