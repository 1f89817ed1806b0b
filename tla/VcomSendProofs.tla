--------------------------- MODULE VcomSendProofs ---------------------------
(***************************************************************************)
(* For every size of packets and of the transmit buffer: what is written   *)
(* while the port is open goes to the host once and in order, as long as   *)
(* no acknowledgement falls between "gu32TxSize = i32Len" and              *)
(* USBD_SET_PAYLOAD_LEN.                                                   *)
(***************************************************************************)
EXTENDS VcomSend, SequenceTheorems, TLAPS

-----------------------------------------------------------------------------
(* Numbers of bytes *)

LEMMA ModSmall ==
    ASSUME NEW x \in 0 .. TxMod - 1
    PROVE  x % TxMod = x /\ (x + TxMod) % TxMod = x
  BY SizesAssumption

\* Counting on from where one has got to.
LEMMA CountOn ==
    ASSUME NEW a \in Bytes, NEW n \in 0 .. TxMod, NEW k \in 0 .. TxMod, n + k <= TxMod
    PROVE  /\ (a + n) % TxMod \in Bytes
           /\ (((a + n) % TxMod) + k) % TxMod = (a + n + k) % TxMod
  <1>1. TxMod \in Nat \ {0} /\ a \in 0 .. TxMod - 1
    BY SizesAssumption DEF Bytes
  <1>2. CASE a + n < TxMod
    BY <1>1, <1>2, ModSmall DEF Bytes
  <1>3. CASE a + n >= TxMod
    <2>1. a + n - TxMod \in 0 .. TxMod - 1 \/ a + n - TxMod = TxMod
      BY <1>1, <1>3
    <2>2. (a + n) % TxMod = a + n - TxMod
      BY <1>1, <1>3, ModSmall, a + n - TxMod \in 0 .. TxMod - 1
    <2>3. (a + n - TxMod + k) % TxMod = (a + n + k) % TxMod
      BY <1>1, <1>3
    <2> QED
      BY <1>1, <1>3, <2>2, <2>3 DEF Bytes
  <1> QED
    BY <1>1, <1>2, <1>3

\* How many have been counted can be told from the ends.
LEMMA HowMany ==
    ASSUME NEW a \in Bytes, NEW n \in 0 .. TxMod - 1
    PROVE  (((a + n) % TxMod) + TxMod - a) % TxMod = n
  <1>1. TxMod \in Nat \ {0} /\ a \in 0 .. TxMod - 1
    BY SizesAssumption DEF Bytes
  <1>2. CASE a + n < TxMod
    <2>1. (a + n) % TxMod = a + n
      BY <1>1, <1>2, ModSmall
    <2> QED
      BY <1>1, <2>1, ModSmall
  <1>3. CASE a + n >= TxMod
    <2>1. a + n - TxMod \in 0 .. TxMod - 1
      BY <1>1, <1>3
    <2>2. (a + n) % TxMod = a + n - TxMod
      BY <1>1, <2>1, ModSmall
    <2> QED
      BY <1>1, <2>2, ModSmall
  <1> QED
    BY <1>1, <1>2, <1>3

LEMMA NumbersProperties ==
    ASSUME NEW a \in Bytes, NEW n \in Nat
    PROVE  /\ Numbers(a, n) \in Seq(Bytes) /\ Len(Numbers(a, n)) = n
           /\ \A k \in 1 .. n : Numbers(a, n)[k] = (a + k - 1) % TxMod
  <1>1. TxMod \in Nat \ {0} /\ a \in Nat
    BY SizesAssumption DEF Bytes
  <1>2. \A k \in 1 .. n : (a + k - 1) % TxMod \in Bytes
    BY <1>1 DEF Bytes
  <1> QED
    BY <1>2 DEF Numbers

LEMMA NumbersJoin ==
    ASSUME NEW a \in Bytes, NEW n \in 0 .. TxMod, NEW k \in 0 .. TxMod, n + k <= TxMod
    PROVE  Numbers(a, n) \o Numbers((a + n) % TxMod, k) = Numbers(a, n + k)
  <1> DEFINE first == Numbers(a, n)
             second == Numbers((a + n) % TxMod, k)
             both == Numbers(a, n + k)
  <1>1. TxMod \in Nat \ {0} /\ (a + n) % TxMod \in Bytes /\ a \in Nat
    BY CountOn, SizesAssumption DEF Bytes
  <1>2. /\ first \in Seq(Bytes) /\ Len(first) = n
        /\ second \in Seq(Bytes) /\ Len(second) = k
        /\ both \in Seq(Bytes) /\ Len(both) = n + k
    BY <1>1, NumbersProperties
  <1>3. ASSUME NEW i \in 1 .. n + k PROVE (first \o second)[i] = both[i]
    <2>1. both[i] = (a + i - 1) % TxMod
      BY DEF Numbers
    <2>2. CASE i <= n
      <3>1. i \in 1 .. n
        BY <2>2
      <3>2. (first \o second)[i] = first[i]
        BY <1>2, <3>1
      <3>3. first[i] = (a + i - 1) % TxMod
        BY <3>1 DEF Numbers
      <3> QED
        BY <2>1, <3>2, <3>3
    <2>3. CASE i > n
      <3> DEFINE j == i - n - 1
      <3>1. j \in 0 .. TxMod /\ n + j <= TxMod /\ j + 1 \in 1 .. k /\ i - n = j + 1 /\ j \in Nat /\ n \in Nat
        BY <1>1, <2>3
      <3>2. second[i - n] = (((a + n) % TxMod) + (j + 1) - 1) % TxMod
        BY <3>1 DEF Numbers
      <3>3. (((a + n) % TxMod) + j) % TxMod = (a + n + j) % TxMod
        <4> HIDE DEF j
        <4> QED
          BY <3>1, CountOn
      <3>4. (first \o second)[i] = second[i - n]
        BY <1>2, <2>3
      <3>5. a + n + j = a + i - 1 /\ ((a + n) % TxMod) + (j + 1) - 1 = ((a + n) % TxMod) + j
        BY <1>1 DEF Bytes
      <3> QED
        BY <2>1, <3>2, <3>3, <3>4, <3>5
    <2> QED
      <3>1. n \in Int /\ i \in Int
        BY <1>1
      <3>2. i <= n \/ i > n
        BY <3>1
      <3> QED
        BY <2>2, <2>3, <3>2
  <1>4. first \o second \in Seq(Bytes) /\ Len(first \o second) = n + k
    BY <1>2
  <1> QED
    BY <1>2, <1>3, <1>4, SeqEqual

\* What comes off the front, and what is left.
LEMMA NumbersSplit ==
    ASSUME NEW a \in Bytes, NEW s \in Seq(Bytes), NEW t \in Seq(Bytes),
           Len(s) + Len(t) <= TxMod, s \o t = Numbers(a, Len(s) + Len(t))
    PROVE  /\ t = Numbers((a + Len(s)) % TxMod, Len(t))
           /\ Len(s) > 0 => (s[Len(s)] + 1) % TxMod = (a + Len(s)) % TxMod
  <1> DEFINE n == Len(s)
             k == Len(t)
             first == Numbers(a, n)
             second == Numbers((a + n) % TxMod, k)
  <1>1. /\ TxMod \in Nat \ {0} /\ a \in Nat
        /\ n \in Nat /\ k \in Nat /\ n \in 0 .. TxMod /\ k \in 0 .. TxMod /\ n + k <= TxMod
    BY SizesAssumption DEF Bytes
  <1> HIDE DEF n, k
  <1>2. (a + n) % TxMod \in Bytes
    BY <1>1, CountOn
  <1>3. s \o t = first \o second
    BY <1>1, NumbersJoin DEF n, k
  <1>4. /\ first \in Seq(Bytes) /\ Len(first) = n
        /\ second \in Seq(Bytes) /\ Len(second) = k
    BY <1>1, <1>2, NumbersProperties
  <1> HIDE DEF first, second
  <1>5. t = second
    <2>1. ASSUME NEW i \in 1 .. k PROVE t[i] = second[i]
      <3>1. (s \o t)[n + i] = t[i] /\ (first \o second)[n + i] = second[i]
        BY <1>1, <1>4 DEF n, k
      <3> QED
        BY <1>3, <3>1
    <2> QED
      BY <1>4, <2>1, SeqEqual DEF k
  <1>6. ASSUME n > 0 PROVE (s[n] + 1) % TxMod = (a + n) % TxMod
    <2>1. (s \o t)[n] = s[n] /\ (first \o second)[n] = first[n]
      BY <1>1, <1>4, <1>6 DEF n
    <2>2. n \in 1 .. n
      BY <1>1, <1>6
    <2>3. first[n] = (a + n - 1) % TxMod
      BY <2>2 DEF first, Numbers
    <2> DEFINE m == n - 1
    <2>4. m \in 0 .. TxMod /\ 1 \in 0 .. TxMod /\ m + 1 <= TxMod /\ a + n - 1 = a + m
          /\ a + m + 1 = a + n
      BY <1>1, <1>6
    <2>5. (((a + m) % TxMod) + 1) % TxMod = (a + m + 1) % TxMod
      <3> HIDE DEF m
      <3> QED
        BY <2>4, CountOn
    <2> QED
      BY <1>3, <2>1, <2>3, <2>4, <2>5
  <1> QED
    BY <1>5, <1>6 DEF n, k, second

-----------------------------------------------------------------------------
(* Types *)

\* A packet and the rest of the buffer.
LEMMA TakeTypes ==
    ASSUME TypeOK, TxTake
    PROVE  /\ bulk' \in Seq(Bytes) /\ Len(bulk') \in 1 .. TxPacket
           /\ tx' \in Seq(Bytes) /\ Len(tx') <= TxSize
           /\ bulk' \o tx' = tx
  <1> DEFINE n == Min(Len(tx), TxPacket)
  <1>1. tx \in Seq(Bytes) /\ Len(tx) \in Nat \ {0} /\ Len(tx) <= TxSize
    BY DEF TypeOK, TxTake
  <1>2. bulk' = SubSeq(tx, 1, n) /\ tx' = SubSeq(tx, n + 1, Len(tx))
    BY DEF TxTake
  <1>3. n \in 1 .. TxPacket /\ n \in 1 .. Len(tx)
    BY <1>1, SizesAssumption DEF Min
  <1> HIDE DEF n
  <1>4. bulk' \in Seq(Bytes) /\ Len(bulk') = n
    BY <1>1, <1>2, <1>3
  <1>5. tx' \in Seq(Bytes) /\ Len(tx') = Len(tx) - n
    BY <1>1, <1>2, <1>3
  <1>6. bulk' \o tx' = tx
    <2>1. ASSUME NEW i \in 1 .. Len(tx) PROVE (bulk' \o tx')[i] = tx[i]
      <3>1. CASE i <= n
        BY <1>1, <1>2, <1>3, <1>4, <1>5, <3>1
      <3>2. CASE i > n
        BY <1>1, <1>2, <1>3, <1>4, <1>5, <3>2
      <3> QED
        <4>1. i <= n \/ i > n
          BY <1>1, <1>3
        <4> QED
          BY <3>1, <3>2, <4>1
    <2>2. bulk' \o tx' \in Seq(Bytes) /\ Len(bulk' \o tx') = Len(tx)
      BY <1>1, <1>3, <1>4, <1>5
    <2> QED
      BY <1>1, <2>1, <2>2, SeqEqual
  <1> QED
    BY <1>1, <1>3, <1>4, <1>5, <1>6, SizesAssumption

LEMMA EP2_HandlerTypes == ASSUME TypeOK, EP2_Handler PROVE TypeOK'
  <1>1. /\ expected' = (IF ep2Len > 0 THEN (ep2Buf[ep2Len] + 1) % TxMod ELSE expected)
        /\ ep2Armed' = FALSE /\ full' = (ep2Len = TxPacket) /\ gu32TxSize' = 0
        /\ UNCHANGED <<pc, dtr, VCOM_opened, tx, bulk, ep2Len, ep2Buf, written>>
    BY DEF EP2_Handler, bufferVars
  <1>2. expected' \in Bytes
    <2>1. CASE ep2Len > 0
      <3>1. ep2Buf \in Seq(Bytes) /\ ep2Len \in 1 .. Len(ep2Buf) /\ TxMod \in Nat \ {0}
        BY <2>1, SizesAssumption DEF TypeOK
      <3>2. ep2Buf[ep2Len] \in 0 .. TxMod - 1
        BY <3>1 DEF Bytes
      <3> QED
        BY <1>1, <2>1, <3>1, <3>2 DEF Bytes
    <2>2. CASE ~(ep2Len > 0)
      BY <1>1, <2>2 DEF TypeOK
    <2> QED
      BY <2>1, <2>2
  <1>3. full' \in BOOLEAN /\ gu32TxSize' \in 0 .. TxPacket
    BY <1>1, SizesAssumption
  <1> QED
    BY <1>1, <1>2, <1>3 DEF TypeOK

LEMMA WriteTypes == ASSUME TypeOK, _write PROVE TypeOK'
  <1>1. /\ tx' = Append(tx, written) /\ written' = (written + 1) % TxMod /\ Len(tx) < TxSize
        /\ UNCHANGED <<pc, dtr, VCOM_opened, bulk, gu32TxSize, ep2Len, ep2Armed, ep2Buf, expected, full>>
    BY DEF _write, ep2Vars
  <1>2. tx' \in Seq(Bytes) /\ Len(tx') <= TxSize
    BY <1>1, SizesAssumption DEF TypeOK
  <1>3. written' \in Bytes
    BY <1>1, SizesAssumption DEF TypeOK, Bytes
  <1> QED
    BY <1>1, <1>2, <1>3 DEF TypeOK

LEMMA TransferStartTypes == ASSUME TypeOK, TransferStart PROVE TypeOK'
  <1>1. pc' = "tx" /\ UNCHANGED <<dtr, bulk, written>>
    BY DEF TransferStart
  <1>2. << >> \in Seq(Bytes) /\ Len(<< >>) = 0 /\ TxSize \in Nat /\ TxPacket \in Nat
    BY EmptySeq, SizesAssumption
  <1>3. tx' \in Seq(Bytes) /\ Len(tx') <= TxSize
    <2>1. tx' = tx \/ tx' = << >>
      BY DEF TransferStart, Open, VCOM_closed
    <2>2. CASE tx' = tx
      BY <2>2 DEF TypeOK
    <2>3. CASE tx' = << >>
      BY <1>2, <2>3
    <2> QED
      BY <2>1, <2>2, <2>3
  <1>8. VCOM_opened' \in BOOLEAN
    BY DEF TransferStart, Open, VCOM_closed, TypeOK
  <1>4. gu32TxSize' \in 0 .. TxPacket /\ expected' \in Bytes
    BY <1>2 DEF TransferStart, Open, VCOM_closed, TypeOK
  <1>5. full' \in BOOLEAN
    BY DEF TransferStart, Open, VCOM_closed, TypeOK
  <1>6. ep2Buf' = ep2Buf /\ ep2Armed' \in BOOLEAN
    BY DEF TransferStart, Open, VCOM_closed, ep2Vars, TypeOK
  <1>7. ep2Len' \in 0 .. Len(ep2Buf)
    <2>1. ep2Len' = ep2Len \/ ep2Len' = 0
      BY DEF TransferStart, Open, VCOM_closed, ep2Vars
    <2> QED
      BY <2>1 DEF TypeOK
  <1> QED
    BY <1>1, <1>3, <1>4, <1>5, <1>6, <1>7, <1>8 DEF TypeOK

LEMMA TransferTypes ==
    ASSUME TypeOK, TxTake \/ TxSetSize \/ TxArm \/ TxZero \/ TxNothing
    PROVE  TypeOK'
  <1>1. CASE TxTake
    <2>1. pc' = "size" /\ UNCHANGED <<dtr, VCOM_opened, gu32TxSize, ep2Len, ep2Armed, ep2Buf,
                                      written, expected, full>>
      BY <1>1 DEF TxTake, ep2Vars, historyVars
    <2>2. /\ bulk' \in Seq(Bytes) /\ Len(bulk') <= TxPacket
          /\ tx' \in Seq(Bytes) /\ Len(tx') <= TxSize
      BY <1>1, TakeTypes
    <2> QED
      BY <2>1, <2>2 DEF TypeOK
  <1>2. CASE TxSetSize
    <2>1. pc' = "arm" /\ UNCHANGED <<dtr, VCOM_opened, tx, bulk, ep2Len, ep2Armed, ep2Buf,
                                     written, expected, full>>
      BY <1>2 DEF TxSetSize, bufferVars, ep2Vars, historyVars
    <2>2. gu32TxSize' \in 0 .. TxPacket
      BY <1>2, SizesAssumption DEF TxSetSize, TypeOK
    <2> QED
      BY <2>1, <2>2 DEF TypeOK
  <1>3. CASE TxArm
    <2>1. /\ pc' = "idle" /\ ep2Armed' = TRUE /\ ep2Buf' = bulk /\ bulk' = << >> /\ ep2Len' = Len(bulk)
          /\ UNCHANGED <<dtr, VCOM_opened, tx, gu32TxSize, written, expected, full>>
      BY <1>3 DEF TxArm, historyVars
    <2>2. bulk' \in Seq(Bytes) /\ Len(bulk') <= TxPacket
      BY <2>1, EmptySeq, SizesAssumption
    <2>3. ep2Buf' \in Seq(Bytes) /\ Len(ep2Buf') <= TxPacket /\ ep2Len' \in 0 .. Len(ep2Buf')
      BY <2>1 DEF TypeOK
    <2> QED
      BY <2>1, <2>2, <2>3 DEF TypeOK
  <1>4. CASE TxZero
    <2>1. /\ pc' = "idle" /\ ep2Armed' = TRUE /\ ep2Len' = 0
          /\ UNCHANGED <<dtr, VCOM_opened, tx, bulk, gu32TxSize, ep2Buf, written, expected, full>>
      BY <1>4 DEF TxZero, bufferVars, historyVars
    <2>2. ep2Len' \in 0 .. Len(ep2Buf)
      BY <2>1 DEF TypeOK
    <2> QED
      BY <2>1, <2>2 DEF TypeOK
  <1>5. CASE TxNothing
    <2>1. /\ pc' = "idle"
          /\ UNCHANGED <<dtr, VCOM_opened, tx, bulk, gu32TxSize, ep2Len, ep2Armed, ep2Buf,
                         written, expected, full>>
      BY <1>5 DEF TxNothing, bufferVars, ep2Vars, historyVars
    <2> QED
      BY <2>1 DEF TypeOK
  <1> QED
    BY <1>1, <1>2, <1>3, <1>4, <1>5

LEMMA SendTypesAtFirst == ASSUME Init PROVE TypeOK
  <1>1. /\ << >> \in Seq(Bytes) /\ Len(<< >>) = 0 /\ 0 \in Bytes
        /\ TxSize \in Nat /\ TxPacket \in Nat
    BY SizesAssumption, EmptySeq DEF Bytes
  <1>2. /\ tx \in Seq(Bytes) /\ Len(tx) <= TxSize
        /\ bulk \in Seq(Bytes) /\ Len(bulk) <= TxPacket
        /\ ep2Buf \in Seq(Bytes) /\ Len(ep2Buf) <= TxPacket /\ ep2Len \in 0 .. Len(ep2Buf)
    BY <1>1 DEF Init
  <1>3. gu32TxSize \in 0 .. TxPacket /\ written \in Bytes /\ expected \in Bytes
    BY <1>1 DEF Init
  <1>4. pc = "idle" /\ dtr = FALSE /\ VCOM_opened = FALSE /\ ep2Armed = FALSE /\ full = FALSE
    BY DEF Init
  <1> QED
    BY <1>2, <1>3, <1>4 DEF TypeOK

LEMMA SendTypesKept == ASSUME TypeOK, [Next]_vars PROVE TypeOK'
  <1>1. CASE SetControlLineState \/ UNCHANGED vars
    <2>1. /\ dtr' \in BOOLEAN
          /\ UNCHANGED <<pc, VCOM_opened, tx, bulk, gu32TxSize, ep2Len, ep2Armed, ep2Buf,
                         written, expected, full>>
      BY <1>1 DEF SetControlLineState, TypeOK, vars, bufferVars, ep2Vars, historyVars
    <2> QED
      BY <2>1 DEF TypeOK
  <1>2. CASE EP2_Handler
    BY <1>2, EP2_HandlerTypes
  <1>3. CASE _write
    BY <1>3, WriteTypes
  <1>4. CASE VCOM_TransferData
    BY <1>4, TransferStartTypes, TransferTypes DEF VCOM_TransferData
  <1> QED
    BY <1>1, <1>2, <1>3, <1>4 DEF Next

(* The variables have their types, whenever the acknowledgements come: no  *)
(* buffer ever holds more than its size, and the endpoint never offers     *)
(* more than its buffer holds.                                             *)
THEOREM SendTypes == Spec => []TypeOK
  BY SendTypesAtFirst, SendTypesKept, PTL DEF Spec

-----------------------------------------------------------------------------
(* The stream to the host *)

\* Who may send: gu32TxSize is the length of the packet that the host has not
\* read, and a closed port has none.
Port ==
    /\ ~VCOM_opened => pc \in {"idle", "tx"} /\ gu32TxSize = 0
    /\ pc \in {"size", "arm"} => Len(bulk) > 0
    /\ pc = "size" => gu32TxSize = 0
    /\ pc = "arm" => gu32TxSize > 0
    /\ gu32TxSize = 0 /\ ep2Armed => ep2Len = 0

\* What is under way is numbered without a gap from the byte that the host
\* reads next up to the byte that is written next.
InOrder ==
    VCOM_opened =>
        /\ Outstanding = Numbers(expected, Len(Outstanding))
        /\ written = (expected + Len(Outstanding)) % TxMod

PortIInv == TypeOK /\ Port /\ InOrder

\* There are numbers enough for what can be under way.
LEMMA OutstandingBounds ==
    ASSUME TypeOK
    PROVE  /\ InFlight \in Seq(Bytes) /\ Len(InFlight) \in 0 .. TxPacket
           /\ tx \in Seq(Bytes) /\ Len(tx) \in 0 .. TxSize
           /\ Outstanding \in Seq(Bytes) /\ Len(Outstanding) = Len(InFlight) + Len(tx)
           /\ Len(Outstanding) \in 0 .. TxMod - 1
           /\ ~(pc \in {"size", "arm"}) /\ ep2Armed => Len(InFlight) = ep2Len
  <1>1. /\ TxSize \in Nat /\ TxPacket \in Nat /\ TxMod \in Nat \ {0} /\ TxSize + TxPacket < TxMod
        /\ << >> \in Seq(Bytes) /\ Len(<< >>) = 0
    BY SizesAssumption, EmptySeq
  <1>2. tx \in Seq(Bytes) /\ Len(tx) \in 0 .. TxSize
    BY <1>1 DEF TypeOK
  <1>3. CASE pc \in {"size", "arm"}
    <2>1. InFlight = bulk
      BY <1>3 DEF InFlight
    <2>2. InFlight \in Seq(Bytes) /\ Len(InFlight) \in 0 .. TxPacket
      BY <1>1, <2>1 DEF TypeOK
    <2> QED
      BY <1>1, <1>2, <1>3, <2>2 DEF Outstanding
  <1>4. CASE ~(pc \in {"size", "arm"}) /\ ep2Armed
    <2>1. InFlight = SubSeq(ep2Buf, 1, ep2Len)
      BY <1>4 DEF InFlight
    <2>2. /\ ep2Buf \in Seq(Bytes) /\ Len(ep2Buf) \in Nat /\ Len(ep2Buf) <= TxPacket
          /\ ep2Len \in 0 .. Len(ep2Buf)
      BY DEF TypeOK
    <2>3. InFlight \in Seq(Bytes) /\ Len(InFlight) = ep2Len
      BY <2>1, <2>2
    <2>4. Len(InFlight) \in 0 .. TxPacket
      BY <1>1, <2>2, <2>3
    <2> QED
      BY <1>1, <1>2, <1>4, <2>3, <2>4 DEF Outstanding
  <1>5. CASE ~(pc \in {"size", "arm"}) /\ ~ep2Armed
    <2>1. InFlight = << >>
      BY <1>5 DEF InFlight
    <2> QED
      BY <1>1, <1>2, <1>5, <2>1 DEF Outstanding
  <1> QED
    BY <1>3, <1>4, <1>5

\* What the host has read is off the front, and it expects what comes next.
LEMMA EP2_HandlerInOrder ==
    ASSUME QuietAck, PortIInv, EP2_Handler
    PROVE  Port' /\ InOrder'
  <1> USE DEF PortIInv
  <1>1. /\ expected' = (IF ep2Len > 0 THEN (ep2Buf[ep2Len] + 1) % TxMod ELSE expected)
        /\ pc # "arm" /\ ep2Armed /\ ep2Armed' = FALSE /\ gu32TxSize' = 0
        /\ UNCHANGED <<pc, dtr, VCOM_opened, tx, bulk, ep2Len, ep2Buf, written>>
    BY DEF EP2_Handler, bufferVars
  <1>2. Port'
    BY <1>1 DEF Port
  <1>3. /\ InFlight \in Seq(Bytes) /\ Len(InFlight) \in Nat /\ tx \in Seq(Bytes) /\ Len(tx) \in Nat
        /\ Len(InFlight) + Len(tx) <= TxMod /\ Len(Outstanding) = Len(InFlight) + Len(tx)
        /\ expected \in Bytes
    BY OutstandingBounds, SizesAssumption DEF TypeOK
  <1>4. CASE pc = "size"
    <2>1. ep2Len = 0
      BY <1>1, <1>4 DEF Port
    <2>2. expected' = expected /\ Outstanding' = Outstanding
      BY <1>1, <1>4, <2>1 DEF Outstanding, InFlight
    <2> QED
      BY <1>1, <1>2, <2>2 DEF InOrder
  <1>5. CASE pc # "size"
    <2>1. ~(pc \in {"size", "arm"}) /\ Len(InFlight) = ep2Len /\ InFlight = SubSeq(ep2Buf, 1, ep2Len)
      BY <1>1, <1>5, OutstandingBounds DEF InFlight
    <2>2. InFlight' = << >>
      BY <1>1, <2>1 DEF InFlight
    <2>3. Outstanding' = tx
      BY <1>1, <1>3, <2>2 DEF Outstanding
    <2>4. ASSUME VCOM_opened
          PROVE  tx = Numbers(expected', Len(tx)) /\ written = (expected' + Len(tx)) % TxMod
      <3>1. /\ tx = Numbers((expected + ep2Len) % TxMod, Len(tx))
            /\ ep2Len > 0 => (InFlight[ep2Len] + 1) % TxMod = (expected + ep2Len) % TxMod
        BY <1>3, <2>1, <2>4, NumbersSplit DEF InOrder, Outstanding
      <3>2. ep2Buf \in Seq(Bytes) /\ ep2Len \in 0 .. Len(ep2Buf)
        BY DEF TypeOK
      <3>3. ep2Len > 0 => InFlight[ep2Len] = ep2Buf[ep2Len]
        BY <2>1, <3>2
      <3>4. ep2Len = 0 => (expected + ep2Len) % TxMod = expected
        BY <1>3, ModSmall DEF Bytes
      <3>5. expected' = (expected + ep2Len) % TxMod
        BY <1>1, <3>1, <3>2, <3>3, <3>4
      <3>6. written = (expected + (ep2Len + Len(tx))) % TxMod
        BY <1>3, <2>1, <2>4 DEF InOrder
      <3> DEFINE n == ep2Len
                 k == Len(tx)
      <3>7. n \in 0 .. TxMod /\ k \in 0 .. TxMod /\ n + k <= TxMod
        BY <1>3, <2>1, SizesAssumption
      <3>8. (((expected + n) % TxMod) + k) % TxMod = (expected + n + k) % TxMod
        <4> HIDE DEF n, k
        <4> QED
          BY <1>3, <3>7, CountOn
      <3> QED
        BY <1>3, <3>1, <3>5, <3>6, <3>7, <3>8 DEF Bytes
    <2> QED
      BY <1>1, <1>2, <2>3, <2>4 DEF InOrder
  <1> QED
    BY <1>4, <1>5

\* A byte written is the last.
LEMMA WriteInOrder == ASSUME PortIInv, _write PROVE Port' /\ InOrder'
  <1> USE DEF PortIInv
  <1>1. /\ tx' = Append(tx, written) /\ written' = (written + 1) % TxMod /\ Len(tx) < TxSize
        /\ VCOM_opened
        /\ UNCHANGED <<pc, dtr, VCOM_opened, bulk, gu32TxSize, ep2Len, ep2Armed, ep2Buf, expected>>
    BY DEF _write, ep2Vars
  <1>2. Port'
    BY <1>1 DEF Port
  <1> DEFINE n == Len(Outstanding)
  <1>3. /\ InFlight \in Seq(Bytes) /\ tx \in Seq(Bytes) /\ Outstanding \in Seq(Bytes)
        /\ n \in 0 .. TxMod - 1 /\ expected \in Bytes /\ written \in Bytes /\ TxMod \in Nat \ {0}
    BY OutstandingBounds, SizesAssumption DEF TypeOK
  <1>4. Outstanding' = Append(Outstanding, written)
    <2>1. Outstanding' = InFlight \o Append(tx, written)
      BY <1>1 DEF Outstanding, InFlight
    <2> QED
      BY <1>3, <2>1 DEF Outstanding
  <1>5. Outstanding = Numbers(expected, n) /\ written = (expected + n) % TxMod
    BY <1>1 DEF InOrder
  <1> HIDE DEF n
  <1>6. Outstanding' \in Seq(Bytes) /\ Len(Outstanding') = n + 1
    BY <1>3, <1>4 DEF n
  <1>7. Numbers(expected, n + 1) \in Seq(Bytes) /\ Len(Numbers(expected, n + 1)) = n + 1
    <2> DEFINE m == n + 1
    <2>1. m \in Nat
      BY <1>3
    <2> HIDE DEF m
    <2>2. Numbers(expected, m) \in Seq(Bytes) /\ Len(Numbers(expected, m)) = m
      BY <1>3, <2>1, NumbersProperties
    <2> QED
      BY <2>2 DEF m
  <1>8. ASSUME NEW i \in 1 .. n + 1 PROVE Outstanding'[i] = Numbers(expected, n + 1)[i]
    <2>1. Numbers(expected, n + 1)[i] = (expected + i - 1) % TxMod
      BY DEF Numbers
    <2>2. CASE i = n + 1
      BY <1>3, <1>4, <1>5, <2>1, <2>2 DEF n, Bytes
    <2>3. CASE i # n + 1
      <3>1. i \in 1 .. n
        BY <1>3, <2>3
      <3>2. Outstanding[i] = (expected + i - 1) % TxMod
        BY <1>5, <3>1 DEF Numbers
      <3> QED
        BY <1>3, <1>4, <2>1, <3>1, <3>2 DEF n
    <2> QED
      BY <2>2, <2>3
  <1>9. Outstanding' = Numbers(expected, n + 1)
    BY <1>6, <1>7, <1>8, SeqEqual
  <1>10. written' = (expected + (n + 1)) % TxMod
    <2>1. n \in 0 .. TxMod /\ 1 \in 0 .. TxMod /\ n + 1 <= TxMod
      BY <1>3
    <2>2. (((expected + n) % TxMod) + 1) % TxMod = (expected + n + 1) % TxMod
      BY <1>3, <2>1, CountOn
    <2> QED
      BY <1>1, <1>3, <1>5, <2>2 DEF Bytes
  <1> QED
    BY <1>1, <1>2, <1>6, <1>9, <1>10 DEF InOrder

\* A session begins with nothing under way, and ends by discarding it.
LEMMA TransferStartInOrder == ASSUME PortIInv, TransferStart PROVE Port' /\ InOrder'
  <1> USE DEF PortIInv
  <1>1. pc = "idle" /\ pc' = "tx" /\ UNCHANGED <<dtr, bulk, written>>
    BY DEF TransferStart
  <1>2. CASE Open
    <2>1. /\ ~VCOM_opened /\ VCOM_opened' = TRUE /\ tx' = << >> /\ expected' = written
          /\ UNCHANGED <<gu32TxSize, ep2Len, ep2Armed, ep2Buf>>
      BY <1>2 DEF Open, ep2Vars
    <2>2. Port'
      BY <1>1, <2>1 DEF Port
    <2>3. ep2Armed => ep2Len = 0
      BY <2>1 DEF Port
    <2>4. SubSeq(ep2Buf, 1, 0) = << >>
      <3>1. ep2Buf \in Seq(Bytes)
        BY DEF TypeOK
      <3> QED
        BY <3>1
    <2>5. InFlight' = << >>
      BY <1>1, <2>1, <2>3, <2>4 DEF InFlight
    <2>6. Outstanding' = << >>
      BY <2>1, <2>5 DEF Outstanding
    <2>7. written \in Bytes /\ 0 \in Nat /\ Len(<< >>) = 0
      BY DEF TypeOK
    <2>8. Numbers(written, 0) = << >>
      BY <2>7, NumbersProperties
    <2>9. written = (written + 0) % TxMod
      BY <2>7, ModSmall DEF Bytes
    <2>10. InOrder'
      BY <1>1, <2>1, <2>6, <2>7, <2>8, <2>9 DEF InOrder
    <2> QED
      BY <2>2, <2>10
  <1>3. CASE VCOM_closed
    BY <1>1, <1>3 DEF VCOM_closed, Port, InOrder
  <1>4. CASE UNCHANGED <<VCOM_opened, tx, gu32TxSize, ep2Vars, expected, full>>
    <2>1. Port'
      BY <1>1, <1>4 DEF Port, ep2Vars
    <2>2. Outstanding' = Outstanding
      BY <1>1, <1>4 DEF Outstanding, InFlight, ep2Vars
    <2> QED
      BY <1>1, <1>4, <2>1, <2>2 DEF InOrder
  <1> QED
    BY <1>2, <1>3, <1>4 DEF TransferStart

\* The endpoint is free when a packet is taken, and gets all of it.
LEMMA TransferInOrder ==
    ASSUME PortIInv, TxTake \/ TxSetSize \/ TxArm \/ TxZero \/ TxNothing
    PROVE  Port' /\ InOrder'
  <1> USE DEF PortIInv
  <1>1. ASSUME UNCHANGED <<VCOM_opened, written, expected>>, Outstanding' = Outstanding
        PROVE  InOrder'
    BY <1>1 DEF InOrder
  <1>2. tx \in Seq(Bytes) /\ bulk \in Seq(Bytes) /\ ep2Buf \in Seq(Bytes)
    BY DEF TypeOK
  <1>3. SubSeq(ep2Buf, 1, 0) = << >> /\ SubSeq(bulk, 1, Len(bulk)) = bulk /\ << >> \o tx = tx
    BY <1>2
  <1>4. CASE TxTake
    <2>1. /\ pc = "tx" /\ pc' = "size" /\ gu32TxSize = 0 /\ VCOM_opened
          /\ UNCHANGED <<VCOM_opened, gu32TxSize, ep2Len, ep2Armed, ep2Buf, written, expected>>
      BY <1>4 DEF TxTake, Ready, ep2Vars, historyVars
    <2>2. Len(bulk') \in 1 .. TxPacket /\ bulk' \o tx' = tx
      BY <1>4, TakeTypes
    <2>3. Port'
      BY <2>1, <2>2, SizesAssumption DEF Port
    <2>4. InFlight = << >>
      BY <1>3, <2>1 DEF InFlight, Port
    <2>5. Outstanding' = Outstanding
      BY <1>3, <2>1, <2>2, <2>4 DEF Outstanding, InFlight
    <2> QED
      BY <1>1, <2>1, <2>3, <2>5
  <1>5. CASE TxSetSize
    <2>1. /\ pc = "size" /\ pc' = "arm" /\ gu32TxSize' = Len(bulk)
          /\ UNCHANGED <<VCOM_opened, tx, bulk, ep2Len, ep2Armed, ep2Buf, written, expected>>
      BY <1>5 DEF TxSetSize, bufferVars, ep2Vars, historyVars
    <2>2. Len(bulk) > 0 /\ Len(bulk) # 0
      BY <1>2, <2>1 DEF Port
    <2>3. Port'
      BY <2>1, <2>2 DEF Port
    <2>4. Outstanding' = Outstanding
      BY <2>1 DEF Outstanding, InFlight
    <2> QED
      BY <1>1, <2>1, <2>3, <2>4
  <1>6. CASE TxArm
    <2>1. /\ pc = "arm" /\ pc' = "idle" /\ ep2Armed' = TRUE /\ ep2Buf' = bulk /\ ep2Len' = Len(bulk)
          /\ UNCHANGED <<VCOM_opened, tx, gu32TxSize, written, expected>>
      BY <1>6 DEF TxArm, historyVars
    <2>2. gu32TxSize \in Nat /\ gu32TxSize > 0 /\ gu32TxSize # 0 /\ VCOM_opened
      BY <2>1, SizesAssumption DEF Port, TypeOK
    <2>3. Port'
      BY <2>1, <2>2 DEF Port
    <2>4. InFlight' = bulk /\ InFlight = bulk
      BY <1>3, <2>1 DEF InFlight
    <2>5. Outstanding' = Outstanding
      BY <2>1, <2>4 DEF Outstanding
    <2> QED
      BY <1>1, <2>1, <2>3, <2>5
  <1>7. CASE TxZero
    <2>1. /\ pc = "tx" /\ pc' = "idle" /\ ep2Armed' = TRUE /\ ep2Len' = 0 /\ gu32TxSize = 0
          /\ UNCHANGED <<VCOM_opened, tx, bulk, gu32TxSize, ep2Buf, written, expected>>
      BY <1>7 DEF TxZero, Ready, bufferVars, historyVars
    <2>2. Port'
      BY <2>1 DEF Port
    <2>3. InFlight' = << >> /\ InFlight = << >>
      BY <1>3, <2>1 DEF InFlight, Port
    <2>4. Outstanding' = Outstanding
      BY <2>1, <2>3 DEF Outstanding
    <2> QED
      BY <1>1, <2>1, <2>2, <2>4
  <1>8. CASE TxNothing
    <2>1. /\ pc = "tx" /\ pc' = "idle"
          /\ UNCHANGED <<VCOM_opened, tx, bulk, gu32TxSize, ep2Len, ep2Armed, ep2Buf,
                         written, expected>>
      BY <1>8 DEF TxNothing, bufferVars, ep2Vars, historyVars
    <2>2. Port'
      BY <2>1 DEF Port
    <2>3. Outstanding' = Outstanding
      BY <2>1 DEF Outstanding, InFlight
    <2> QED
      BY <1>1, <2>1, <2>2, <2>3
  <1> QED
    BY <1>4, <1>5, <1>6, <1>7, <1>8

(* gu32TxSize tells whether the host has read the last packet, so that the *)
(* endpoint is free whenever a packet or a new session begins, and what is *)
(* under way is numbered without a gap.  Only an acknowledgement between   *)
(* "gu32TxSize = i32Len" and USBD_SET_PAYLOAD_LEN could break it.          *)
THEOREM PortInvariance == ASSUME QuietAck PROVE Spec => []PortIInv
  <1>1. Init => PortIInv
    <2> SUFFICES ASSUME Init, TypeOK PROVE Port /\ InOrder
      BY SendTypesAtFirst DEF PortIInv
    <2> QED
      BY DEF Init, Port, InOrder
  <1>2. PortIInv /\ [Next]_vars => PortIInv'
    <2> SUFFICES ASSUME PortIInv, [Next]_vars PROVE Port' /\ InOrder'
      BY SendTypesKept DEF PortIInv
    <2>1. CASE SetControlLineState \/ UNCHANGED vars
      <3>1. UNCHANGED <<pc, VCOM_opened, tx, bulk, gu32TxSize, ep2Len, ep2Armed, ep2Buf,
                        written, expected>>
        BY <2>1 DEF SetControlLineState, vars, bufferVars, ep2Vars, historyVars
      <3>2. Outstanding' = Outstanding
        BY <3>1 DEF Outstanding, InFlight
      <3> QED
        BY <3>1, <3>2 DEF PortIInv, Port, InOrder
    <2>2. CASE EP2_Handler
      BY <2>2, EP2_HandlerInOrder
    <2>3. CASE _write
      BY <2>3, WriteInOrder
    <2>4. CASE VCOM_TransferData
      BY <2>4, TransferStartInOrder, TransferInOrder DEF VCOM_TransferData
    <2> QED
      BY <2>1, <2>2, <2>3, <2>4 DEF Next
  <1> QED
    BY <1>1, <1>2, PTL DEF Spec

(* While the port is open, the host reads what has been written, once and  *)
(* in order, for every size of packets and of the buffer, if no            *)
(* acknowledgement comes between "gu32TxSize = i32Len" and                 *)
(* USBD_SET_PAYLOAD_LEN.                                                   *)
THEOREM HostReadsAll == ASSUME QuietAck PROVE Spec => []HostReadsStream
  <1>1. PortIInv => HostReadsStream
    <2> SUFFICES ASSUME PortIInv, VCOM_opened
                 PROVE  Outstanding = Numbers(expected, (written + TxMod - expected) % TxMod)
      BY DEF HostReadsStream
    <2>1. expected \in Bytes /\ Len(Outstanding) \in 0 .. TxMod - 1
      BY OutstandingBounds DEF PortIInv, TypeOK
    <2>2. (written + TxMod - expected) % TxMod = Len(Outstanding)
      BY <2>1, HowMany DEF PortIInv, InOrder
    <2> QED
      BY <2>2 DEF PortIInv, InOrder
  <1> QED
    BY <1>1, PortInvariance, PTL
=============================================================================
