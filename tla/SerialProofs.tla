---------------------------- MODULE SerialProofs ----------------------------
(***************************************************************************)
(* Proofs about the serial driver and the UART, for any number of cores,   *)
(* any calls and any size of the FIFO.                                     *)
(***************************************************************************)
EXTENDS Serial, TLAPS

Byte == 0 .. 255
Write == (0 .. 4) \X (0 .. 255)

-----------------------------------------------------------------------------
(* Sequences. *)
LEMMA SequenceOf ==
  ASSUME NEW S, NEW s \in Seq(S)
  PROVE  /\ Len(s) \in Nat /\ DOMAIN s = 1 .. Len(s) /\ (Len(s) = 0 => s = <<>>)
         /\ \A k \in 1 .. Len(s) : s[k] \in S
OBVIOUS

LEMMA WiderSequence ==
  ASSUME NEW S, NEW T, S \subseteq T, NEW s \in Seq(S)
  PROVE  s \in Seq(T)
OBVIOUS

LEMMA Joined ==
  ASSUME NEW S, NEW s \in Seq(S), NEW t \in Seq(S)
  PROVE  s \o t \in Seq(S)
OBVIOUS

LEMMA TailShorter ==
  ASSUME NEW S, NEW s \in Seq(S), s # <<>>
  PROVE  Len(Tail(s)) = Len(s) - 1
OBVIOUS

LEMMA TailDiffers ==
  ASSUME NEW S, NEW s \in Seq(S), s # <<>>
  PROVE  Tail(s) # s
<1>1. Len(s) \in Nat /\ Len(Tail(s)) = Len(s) - 1
  BY SequenceOf, TailShorter, Zenon
<1>2. \A n \in Nat : n # n - 1
  OBVIOUS
<1> QED
  BY <1>1, <1>2, Zenon

LEMMA TailOfOne ==
  ASSUME NEW S, NEW s \in Seq(S), Len(s) = 1
  PROVE  Tail(s) = <<>>
<1>1. s # <<>> /\ Tail(s) \in Seq(S)
  OBVIOUS
<1>2. Len(Tail(s)) = 0
  BY <1>1, TailShorter
<1> QED
  BY <1>1, <1>2, SequenceOf, Zenon

LEMMA TailIndex ==
  ASSUME NEW S, NEW s \in Seq(S), s # <<>>
  PROVE  /\ 1 \in DOMAIN s /\ s[1] = Head(s)
         /\ \A i \in DOMAIN Tail(s) :
              i \in Nat \ {0} /\ i + 1 \in DOMAIN s /\ s[i + 1] = Tail(s)[i]
OBVIOUS

LEMMA IndexReflexive ==
  ASSUME NEW S, NEW s \in Seq(S), NEW i \in DOMAIN s
  PROVE  i <= i
OBVIOUS

Extends(s, v, t) ==
  /\ \A n \in DOMAIN s : n \in DOMAIN t /\ t[n] = s[n]
  /\ \A n \in DOMAIN t : (n \in DOMAIN s /\ t[n] = s[n]) \/ t[n] = v
  /\ \E n \in DOMAIN t : t[n] = v

LEMMA AppendExtends ==
  ASSUME NEW s \in Seq(Int), NEW v \in Int
  PROVE  Extends(s, v, Append(s, v))
<1>1. Len(s) + 1 \in DOMAIN Append(s, v) /\ Append(s, v)[Len(s) + 1] = v
  OBVIOUS
<1> QED
  BY <1>1 DEF Extends

-----------------------------------------------------------------------------
(* The outb instructions of a call, and what the registers do with them.   *)
LEMMA InitWritesType == InitWrites \in Seq(Write) /\ Len(InitWrites) = 8
  BY DEF InitWrites, Write

LEMMA WritesType ==
  ASSUME NEW call \in Call
  PROVE  Writes(call) \in Seq(Write)
<1>1. CASE call.op = "init"
  BY <1>1, InitWritesType DEF Writes
<1>2. CASE call.op # "init"
  <2>1. call.text \in Seq(Chars)
    BY DEF Call
  <2>2. ASSUME NEW text \in Seq(Chars)
        PROVE  [i \in DOMAIN text |-> <<0, text[i]>>] \in Seq(Write)
    BY DEF Chars, Write
  <2> QED
    BY <1>2, <2>1, <2>2 DEF Writes
<1> QED
  BY <1>1, <1>2

(* Each register changes only by a write to its own offset. *)
Stores(u, reg, v, w) ==
  /\ w \in Uart
  /\ w.dll = (IF reg = 0 /\ Dlab(u) THEN v ELSE u.dll)
  /\ w.dlm = (IF reg = 1 /\ Dlab(u) THEN v ELSE u.dlm)
  /\ w.ier = (IF reg = 1 /\ ~Dlab(u) THEN v ELSE u.ier)
  /\ w.fcr = (IF reg = 2 THEN v ELSE u.fcr)
  /\ w.lcr = (IF reg = 3 THEN v ELSE u.lcr)
  /\ w.mcr = (IF reg = 4 THEN v ELSE u.mcr)
  /\ w.fifo = (IF reg = 0 /\ ~Dlab(u) /\ Len(u.fifo) < FifoSize THEN Append(u.fifo, v)
               ELSE IF reg = 2 /\ ClearsFifo(v) THEN <<>> ELSE u.fifo)

LEMMA StoresFifo ==
  ASSUME NEW u, NEW v, NEW w, Stores(u, 0, v, w)
  PROVE  w.fifo = u.fifo \/ w.fifo = Append(u.fifo, v)
BY DEF Stores

LEMMA StoresEmpty ==
  ASSUME NEW u, NEW v, NEW w, Stores(u, 0, v, w), ~Dlab(u), u.fifo = <<>>
  PROVE  w.fifo = Append(u.fifo, v)
BY SerialAssumption DEF Stores

LEMMA SetIer ==
  ASSUME NEW u \in Uart, NEW v \in Byte, NEW w, w = [u EXCEPT !.ier = v]
  PROVE  /\ w \in Uart
         /\ w.ier = v /\ w.dll = u.dll /\ w.dlm = u.dlm /\ w.lcr = u.lcr
         /\ w.fcr = u.fcr /\ w.mcr = u.mcr /\ w.fifo = u.fifo
<1>1. [u EXCEPT !.ier = v] \in Uart
  BY ZenonT(60) DEF Uart, Byte
<1>2. w \in Uart
  BY <1>1
<1> QED
  BY <1>2, ZenonT(120) DEF Uart

LEMMA SetDll ==
  ASSUME NEW u \in Uart, NEW v \in Byte, NEW w, w = [u EXCEPT !.dll = v]
  PROVE  /\ w \in Uart
         /\ w.ier = u.ier /\ w.dll = v /\ w.dlm = u.dlm /\ w.lcr = u.lcr
         /\ w.fcr = u.fcr /\ w.mcr = u.mcr /\ w.fifo = u.fifo
<1>1. [u EXCEPT !.dll = v] \in Uart
  BY ZenonT(60) DEF Uart, Byte
<1>2. w \in Uart
  BY <1>1
<1> QED
  BY <1>2, ZenonT(120) DEF Uart

LEMMA SetDlm ==
  ASSUME NEW u \in Uart, NEW v \in Byte, NEW w, w = [u EXCEPT !.dlm = v]
  PROVE  /\ w \in Uart
         /\ w.ier = u.ier /\ w.dll = u.dll /\ w.dlm = v /\ w.lcr = u.lcr
         /\ w.fcr = u.fcr /\ w.mcr = u.mcr /\ w.fifo = u.fifo
<1>1. [u EXCEPT !.dlm = v] \in Uart
  BY ZenonT(60) DEF Uart, Byte
<1>2. w \in Uart
  BY <1>1
<1> QED
  BY <1>2, ZenonT(120) DEF Uart

LEMMA SetLcr ==
  ASSUME NEW u \in Uart, NEW v \in Byte, NEW w, w = [u EXCEPT !.lcr = v]
  PROVE  /\ w \in Uart
         /\ w.ier = u.ier /\ w.dll = u.dll /\ w.dlm = u.dlm /\ w.lcr = v
         /\ w.fcr = u.fcr /\ w.mcr = u.mcr /\ w.fifo = u.fifo
<1>1. [u EXCEPT !.lcr = v] \in Uart
  BY ZenonT(60) DEF Uart, Byte
<1>2. w \in Uart
  BY <1>1
<1> QED
  BY <1>2, ZenonT(120) DEF Uart

LEMMA SetMcr ==
  ASSUME NEW u \in Uart, NEW v \in Byte, NEW w, w = [u EXCEPT !.mcr = v]
  PROVE  /\ w \in Uart
         /\ w.ier = u.ier /\ w.dll = u.dll /\ w.dlm = u.dlm /\ w.lcr = u.lcr
         /\ w.fcr = u.fcr /\ w.mcr = v /\ w.fifo = u.fifo
<1>1. [u EXCEPT !.mcr = v] \in Uart
  BY ZenonT(60) DEF Uart, Byte
<1>2. w \in Uart
  BY <1>1
<1> QED
  BY <1>2, ZenonT(120) DEF Uart

LEMMA SetFifo ==
  ASSUME NEW u \in Uart, NEW f \in Seq(Byte), NEW w, w = [u EXCEPT !.fifo = f]
  PROVE  /\ w \in Uart
         /\ w.ier = u.ier /\ w.dll = u.dll /\ w.dlm = u.dlm /\ w.lcr = u.lcr
         /\ w.fcr = u.fcr /\ w.mcr = u.mcr /\ w.fifo = f
<1>1. [u EXCEPT !.fifo = f] \in Uart
  BY ZenonT(60) DEF Uart, Byte
<1>2. w \in Uart
  BY <1>1
<1> QED
  BY <1>2, ZenonT(120) DEF Uart

LEMMA SetFcr ==
  ASSUME NEW u \in Uart, NEW v \in Byte, NEW w, w = [u EXCEPT !.fcr = v]
  PROVE  /\ w \in Uart
         /\ w.ier = u.ier /\ w.dll = u.dll /\ w.dlm = u.dlm /\ w.lcr = u.lcr
         /\ w.fcr = v /\ w.mcr = u.mcr /\ w.fifo = u.fifo
<1>1. [u EXCEPT !.fcr = v] \in Uart
  BY ZenonT(60) DEF Uart, Byte
<1>2. w \in Uart
  BY <1>1
<1> QED
  BY <1>2, ZenonT(120) DEF Uart

LEMMA StoreFields ==
  ASSUME NEW u \in Uart, NEW reg \in 0 .. 4, NEW v \in Byte
  PROVE  Stores(u, reg, v, Store(u, reg, v))
<1> DEFINE w == Store(u, reg, v)
<1>1. u.fifo \in Seq(Byte) /\ Append(u.fifo, v) \in Seq(Byte) /\ <<>> \in Seq(Byte)
  BY DEF Uart, Byte
<1>2. u.lcr \in Byte
  BY DEF Uart, Byte
<1>3. CASE reg = 0 /\ Dlab(u)
  <2>1. reg = 0 /\ reg # 1 /\ reg # 2 /\ reg # 3
    BY <1>3
  <2>2. w = [u EXCEPT !.dll = v]
    BY <1>3, <2>1, Zenon DEF Store
  <2> QED
    BY <1>3, <2>2, SetDll DEF Stores
<1>4. CASE reg = 0 /\ ~Dlab(u) /\ Len(u.fifo) < FifoSize
  <2>1. reg = 0 /\ reg # 1 /\ reg # 2 /\ reg # 3
    BY <1>4
  <2>2. w = [u EXCEPT !.fifo = Append(u.fifo, v)]
    BY <1>4, <2>1, Zenon DEF Store
  <2>3. PICK f \in Seq(Byte) : f = Append(u.fifo, v)
    BY <1>1, Zenon
  <2>4. w = [u EXCEPT !.fifo = f]
    BY <2>2, <2>3, Zenon
  <2>5. /\ w \in Uart
        /\ w.ier = u.ier /\ w.dll = u.dll /\ w.dlm = u.dlm /\ w.lcr = u.lcr
        /\ w.fcr = u.fcr /\ w.mcr = u.mcr /\ w.fifo = f
    BY <2>4, SetFifo
  <2> QED
    BY <1>4, <2>3, <2>5 DEF Stores
<1>5. CASE reg = 0 /\ ~Dlab(u) /\ ~(Len(u.fifo) < FifoSize)
  <2>1. reg = 0 /\ reg # 1 /\ reg # 2 /\ reg # 3
    BY <1>5
  <2>2. w = u
    BY <1>5, <2>1, Zenon DEF Store
  <2> QED
    BY <1>5, <2>2 DEF Uart, Byte, Stores
<1>6. CASE reg = 1 /\ Dlab(u)
  <2>1. reg = 1 /\ reg # 0 /\ reg # 2 /\ reg # 3
    BY <1>6
  <2>2. w = [u EXCEPT !.dlm = v]
    BY <1>6, <2>1, Zenon DEF Store
  <2> QED
    BY <1>6, <2>2, SetDlm DEF Stores
<1>7. CASE reg = 1 /\ ~Dlab(u)
  <2>1. reg = 1 /\ reg # 0 /\ reg # 2 /\ reg # 3
    BY <1>7
  <2>2. w = [u EXCEPT !.ier = v]
    BY <1>7, <2>1, Zenon DEF Store
  <2> QED
    BY <1>7, <2>2, SetIer DEF Stores
<1>8. CASE reg = 2
  <2>1. reg = 2 /\ reg # 0 /\ reg # 1 /\ reg # 3
    BY <1>8
  <2>2. w = [u EXCEPT !.fcr = v, !.fifo = IF ClearsFifo(v) THEN <<>> ELSE u.fifo]
    BY <1>8, <2>1, Zenon DEF Store
  <2>3. PICK f \in Seq(Byte) : f = IF ClearsFifo(v) THEN <<>> ELSE u.fifo
    BY <1>1, Zenon
  <2>4. PICK x : x = [u EXCEPT !.fcr = v]
    BY Zenon
  <2>5. /\ x \in Uart
        /\ x.ier = u.ier /\ x.dll = u.dll /\ x.dlm = u.dlm /\ x.lcr = u.lcr
        /\ x.fcr = v /\ x.mcr = u.mcr
    BY <2>4, SetFcr
  <2>6. w = [x EXCEPT !.fifo = f]
    BY <2>2, <2>3, <2>4, Zenon
  <2>7. /\ w \in Uart
        /\ w.ier = x.ier /\ w.dll = x.dll /\ w.dlm = x.dlm /\ w.lcr = x.lcr
        /\ w.fcr = x.fcr /\ w.mcr = x.mcr /\ w.fifo = f
    BY <2>5, <2>6, SetFifo
  <2> QED
    BY <1>8, <2>3, <2>5, <2>7 DEF Stores
<1>9. CASE reg = 3
  <2>1. reg = 3 /\ reg # 0 /\ reg # 1 /\ reg # 2
    BY <1>9
  <2>2. w = [u EXCEPT !.lcr = v]
    BY <1>9, <2>1, Zenon DEF Store
  <2> QED
    BY <1>9, <2>2, SetLcr DEF Stores
<1>10. CASE reg = 4
  <2>1. reg = 4 /\ reg # 0 /\ reg # 1 /\ reg # 2 /\ reg # 3
    BY <1>10
  <2>2. w = [u EXCEPT !.mcr = v]
    BY <1>10, <2>1, Zenon DEF Store
  <2> QED
    BY <1>10, <2>2, SetMcr DEF Stores
<1> QED
  BY <1>3, <1>4, <1>5, <1>6, <1>7, <1>8, <1>9, <1>10

LEMMA StoreType ==
  ASSUME NEW u \in Uart, Len(u.fifo) <= FifoSize, NEW reg \in 0 .. 4, NEW v \in Byte
  PROVE  Store(u, reg, v) \in Uart /\ Len(Store(u, reg, v).fifo) <= FifoSize
<1>1. Len(u.fifo) \in Nat /\ FifoSize \in Nat \ {0}
  BY SerialAssumption DEF Uart
<1>2. Len(Append(u.fifo, v)) = Len(u.fifo) + 1
  BY DEF Uart, Byte
<1>3. Stores(u, reg, v, Store(u, reg, v))
  BY StoreFields
<1>4. Len(<<>>) = 0
  OBVIOUS
<1> QED
  BY <1>1, <1>2, <1>3, <1>4 DEF Stores
-----------------------------------------------------------------------------
(* TypeOK is inductive. *)
LEMMA CallsType ==
  ASSUME TypeOK, NEW c \in Cores
  PROVE  /\ calls[c] \in Seq(Call)
         /\ calls[c] # <<>> => Head(calls[c]) \in Call /\ Tail(calls[c]) \in Seq(Call)
<1>1. calls[c] \in Seq(Call)
  BY DEF TypeOK
<1> QED
  BY <1>1

LEMMA OutType ==
  ASSUME TypeOK, NEW c \in Cores
  PROVE  /\ out[c] \in Seq(Write)
         /\ out[c] # <<>> => /\ Head(out[c])[1] \in 0 .. 4 /\ Head(out[c])[2] \in Byte
                            /\ Tail(out[c]) \in Seq(Write)
<1>1. out[c] \in Seq(Write)
  BY DEF TypeOK, Write
<1>2. out[c] # <<>> => Head(out[c]) \in Write /\ Tail(out[c]) \in Seq(Write)
  BY <1>1
<1> QED
  BY <1>1, <1>2, Zenon DEF Write, Byte

(* s is the end of t. *)
EndOf(s, t) == Len(s) <= Len(t) /\ \A i \in 1 .. Len(s) : s[i] = t[Len(t) - Len(s) + i]

LEMMA EndOfSelf ==
  ASSUME NEW S, NEW t \in Seq(S)
  PROVE  EndOf(t, t)
  BY DEF EndOf

LEMMA EndOfTail ==
  ASSUME NEW S, NEW s \in Seq(S), NEW t \in Seq(S), EndOf(s, t), s # <<>>
  PROVE  /\ EndOf(Tail(s), t) /\ Len(Tail(s)) = Len(s) - 1
         /\ Head(s) = t[Len(t) - Len(s) + 1] /\ Len(t) - Len(s) + 1 \in 1 .. Len(t)
<1>1. Len(s) \in Nat \ {0} /\ Len(t) \in Nat /\ Len(s) <= Len(t)
  BY DEF EndOf
<1>2. Tail(s) \in Seq(S) /\ Len(Tail(s)) = Len(s) - 1
  BY <1>1
<1>3. \A i \in 1 .. Len(s) - 1 : Tail(s)[i] = s[i + 1]
  BY <1>1
<1>4. \A i \in 1 .. Len(s) : s[i] = t[Len(t) - Len(s) + i]
  BY DEF EndOf
<1>5. ASSUME NEW i \in 1 .. Len(s) - 1
      PROVE  Tail(s)[i] = t[Len(t) - Len(Tail(s)) + i]
  <2>1. i + 1 \in 1 .. Len(s) /\ Len(t) - Len(s) + (i + 1) = Len(t) - Len(Tail(s)) + i
    BY <1>1, <1>2
  <2> QED
    BY <1>3, <1>4, <2>1
<1>6. Head(s) = t[Len(t) - Len(s) + 1]
  BY <1>1, <1>4
<1> QED
  BY <1>1, <1>2, <1>5, <1>6 DEF EndOf

(* What is left in out is the end of what the current call writes. *)
OutInv ==
  \A c \in Cores :
    /\ state[c] # "idle" => calls[c] # <<>>
    /\ state[c] \in {"idle", "locked"} => out[c] = <<>>
    /\ state[c] = "polling" =>
         Head(calls[c]).op = "write_char" /\ out[c] = Writes(Head(calls[c]))
    /\ state[c] = "writing" => EndOf(out[c], Writes(Head(calls[c])))

(* The write that is next, and what it leaves. *)
LEMMA NextWrite ==
  ASSUME TypeOK, OutInv, NEW c \in Cores, state[c] = "writing", out[c] # <<>>
  PROVE  LET W == Writes(Head(calls[c]))
             n == Len(W) - Len(out[c])
         IN /\ n + 1 \in 1 .. Len(W)
            /\ Head(out[c]) = W[n + 1]
            /\ EndOf(Tail(out[c]), W) /\ Len(Tail(out[c])) = Len(out[c]) - 1
<1>1. calls[c] # <<>> /\ EndOf(out[c], Writes(Head(calls[c])))
  BY DEF OutInv
<1>2. Writes(Head(calls[c])) \in Seq(Write)
  BY <1>1, CallsType, WritesType
<1>3. out[c] \in Seq(Write)
  BY OutType
<1> QED
  BY <1>1, <1>2, <1>3, EndOfTail, Zenon

(* A character. *)
LEMMA NextChar ==
  ASSUME TypeOK, OutInv, NEW c \in Cores, state[c] = "writing", out[c] # <<>>,
         Head(calls[c]).op # "init"
  PROVE  LET text == Head(calls[c]).text
             n    == Len(text) - Len(out[c])
         IN /\ Len(text) = Len(Writes(Head(calls[c])))
            /\ n + 1 \in 1 .. Len(text)
            /\ Head(out[c]) = <<0, text[n + 1]>>
            /\ Head(out[c])[1] = 0
            /\ Head(out[c])[2] = text[n + 1]
            /\ Head(out[c])[2] \in Chars
<1>1. calls[c] # <<>>
  BY DEF OutInv
<1>2. Head(calls[c]) \in Call
  BY <1>1, CallsType
<1>3. Head(calls[c]).text \in Seq(Chars)
  BY <1>2 DEF Call
<1>4. Writes(Head(calls[c])) = [i \in 1 .. Len(Head(calls[c]).text) |-> <<0, Head(calls[c]).text[i]>>]
  BY <1>3 DEF Writes
<1>5. Len(Writes(Head(calls[c]))) = Len(Head(calls[c]).text)
  BY <1>3, <1>4
<1>6. Len(Head(calls[c]).text) - Len(out[c]) + 1 \in 1 .. Len(Head(calls[c]).text)
  BY <1>5, NextWrite, Zenon
<1>7. Head(out[c]) = Writes(Head(calls[c]))[Len(Head(calls[c]).text) - Len(out[c]) + 1]
  BY <1>5, NextWrite, Zenon
<1>8. Head(calls[c]).text[Len(Head(calls[c]).text) - Len(out[c]) + 1] \in Chars
  BY <1>3, <1>6, SequenceOf, Zenon
<1>9. Head(out[c]) = <<0, Head(calls[c]).text[Len(Head(calls[c]).text) - Len(out[c]) + 1]>>
  BY <1>4, <1>6, <1>7, Zenon
<1>10. ASSUME NEW x, Head(out[c]) = <<0, x>>
       PROVE  Head(out[c])[1] = 0 /\ Head(out[c])[2] = x
  BY <1>10
<1> QED
  BY <1>5, <1>6, <1>8, <1>9, <1>10, ZenonT(30)

LEMMA OutbStores ==
  ASSUME TypeOK, NEW c \in Cores, Outb(c)
  PROVE  Stores(uart, Head(out[c])[1], Head(out[c])[2], uart')
<1>1. Head(out[c])[1] \in 0 .. 4 /\ Head(out[c])[2] \in Byte
  BY OutType DEF Outb
<1>2. uart \in Uart /\ uart' = Store(uart, Head(out[c])[1], Head(out[c])[2])
  BY DEF Outb, TypeOK
<1> QED
  BY <1>1, <1>2, StoreFields

(* The UART sends: only the FIFO changes. *)
LEMMA TransmitFields ==
  ASSUME TypeOK, Transmit
  PROVE  /\ uart' \in Uart /\ uart.fifo \in Seq(Byte) /\ uart.fifo # <<>>
         /\ uart'.ier = uart.ier /\ uart'.dll = uart.dll /\ uart'.dlm = uart.dlm
         /\ uart'.lcr = uart.lcr /\ uart'.fcr = uart.fcr /\ uart'.mcr = uart.mcr
         /\ uart'.fifo = Tail(uart.fifo)
<1>1. uart \in Uart /\ uart.fifo \in Seq(Byte) /\ uart.fifo # <<>>
  BY DEF TypeOK, Uart, Byte, Transmit
<1>2. Tail(uart.fifo) \in Seq(Byte)
  BY <1>1
<1>3. PICK f \in Seq(Byte) : f = Tail(uart.fifo)
  BY <1>2, Zenon
<1>4. uart' = [uart EXCEPT !.fifo = f]
  BY <1>3, Zenon DEF Transmit
<1>5. /\ uart' \in Uart
      /\ uart'.ier = uart.ier /\ uart'.dll = uart.dll /\ uart'.dlm = uart.dlm
      /\ uart'.lcr = uart.lcr /\ uart'.fcr = uart.fcr /\ uart'.mcr = uart.mcr
      /\ uart'.fifo = f
  BY <1>1, <1>4, SetFifo
<1> QED
  BY <1>1, <1>3, <1>5, Zenon

LEMMA StepType ==
  ASSUME TypeOK, OutInv, [Next]_vars
  PROVE  TypeOK' /\ OutInv'
<1>1. ASSUME NEW c \in Cores, Lock(c)
      PROVE  TypeOK' /\ OutInv'
  BY <1>1 DEF TypeOK, OutInv, Lock, Enter
<1>2. ASSUME NEW c \in Cores, DropGuard(c)
      PROVE  TypeOK' /\ OutInv'
  <2>1. calls[c] # <<>> /\ Head(calls[c]) \in Call
    BY <1>2, CallsType DEF OutInv, DropGuard
  <2>2. PICK W \in Seq(Write) : W = Writes(Head(calls[c]))
    BY <2>1, WritesType
  <2>3. EndOf(W, W)
    BY EndOfSelf
  <2>4. TypeOK'
    BY <1>2, <2>2 DEF TypeOK, DropGuard, Enter, Write
  <2>5. OutInv'
    BY <1>2, <2>1, <2>2, <2>3 DEF TypeOK, OutInv, DropGuard, Enter
  <2> QED
    BY <2>4, <2>5
<1>3. ASSUME NEW c \in Cores, Poll(c)
      PROVE  TypeOK' /\ OutInv'
  <2>1. calls[c] # <<>> /\ Head(calls[c]) \in Call
    BY <1>3, CallsType DEF OutInv, Poll
  <2>2. EndOf(Writes(Head(calls[c])), Writes(Head(calls[c])))
    BY <2>1, WritesType, EndOfSelf
  <2>3. TypeOK'
    BY <1>3 DEF TypeOK, Poll, Enter
  <2>4. OutInv'
    BY <1>3, <2>2 DEF TypeOK, OutInv, Poll, Enter
  <2> QED
    BY <2>3, <2>4
<1>4. ASSUME NEW c \in Cores, Outb(c)
      PROVE  TypeOK' /\ OutInv'
  <2>1. /\ Head(out[c])[1] \in 0 .. 4 /\ Head(out[c])[2] \in Byte
        /\ Tail(out[c]) \in Seq(Write)
    BY <1>4, OutType DEF Outb
  <2>2. uart' \in Uart /\ Len(uart'.fifo) <= FifoSize
    BY <1>4, <2>1, StoreType, Zenon DEF TypeOK, Outb
  <2>3. written' \in Seq(Chars)
    <3>1. CASE Head(calls[c]).op = "init"
      BY <1>4, <3>1 DEF TypeOK, Outb
    <3>2. CASE Head(calls[c]).op # "init"
      <4>1. Head(out[c])[2] \in Chars
        BY <1>4, <3>2, NextChar, Zenon DEF Outb
      <4> QED
        BY <1>4, <3>2, <4>1 DEF TypeOK, Outb
    <3> QED
      BY <3>1, <3>2
  <2>4. TypeOK'
    BY <1>4, <2>1, <2>2, <2>3 DEF TypeOK, Outb, Write
  <2>5. EndOf(Tail(out[c]), Writes(Head(calls[c])))
    BY <1>4, NextWrite, Zenon DEF Outb
  <2>6. OutInv'
    BY <1>4, <2>5 DEF TypeOK, OutInv, Outb
  <2> QED
    BY <2>4, <2>6
<1>5. ASSUME NEW c \in Cores, Return(c)
      PROVE  TypeOK' /\ OutInv'
  <2>1. Tail(calls[c]) \in Seq(Call)
    BY <1>5, CallsType DEF OutInv, Return
  <2>2. TypeOK'
    BY <1>5, <2>1 DEF TypeOK, Return, Enter
  <2>3. OutInv'
    BY <1>5 DEF TypeOK, OutInv, Return, Enter
  <2> QED
    BY <2>2, <2>3
<1>6. ASSUME Transmit
      PROVE  TypeOK' /\ OutInv'
  <2>1. /\ uart' \in Uart /\ uart'.fifo = Tail(uart.fifo)
        /\ uart.fifo \in Seq(Byte) /\ uart.fifo # <<>> /\ Len(uart.fifo) <= FifoSize
    BY <1>6, TransmitFields DEF TypeOK
  <2>2. Len(Tail(uart.fifo)) <= FifoSize /\ Head(uart.fifo) \in Byte
    BY <2>1, SerialAssumption
  <2>3. Head(uart.fifo) \in -1 .. 255
    BY <2>2 DEF Byte
  <2>4. line' \in Seq(-1 .. 255)
    BY <1>6, <2>3 DEF TypeOK, Transmit
  <2>5. TypeOK'
    BY <1>6, <2>1, <2>2, <2>4 DEF TypeOK, Transmit
  <2>6. OutInv'
    BY <1>6 DEF OutInv, Transmit
  <2> QED
    BY <2>5, <2>6
<1>7. CASE UNCHANGED vars
  BY <1>7 DEF vars, TypeOK, OutInv
<1>8. ASSUME NEW c \in Cores, Rendezvous(c)
      PROVE  TypeOK' /\ OutInv'
  <2>1. Tail(calls[c]) \in Seq(Call)
    BY <1>8, CallsType DEF Rendezvous, Waits
  <2>2. TypeOK'
    BY <1>8, <2>1 DEF TypeOK, Rendezvous
  <2>3. OutInv'
    BY <1>8 DEF TypeOK, OutInv, Rendezvous, Waits
  <2> QED
    BY <2>2, <2>3
<1> QED
  BY <1>1, <1>2, <1>3, <1>4, <1>5, <1>6, <1>7, <1>8 DEF Next, Step

LEMMA SameProgram ==
  ASSUME [Next]_vars
  PROVE  program' = program
BY DEF Next, Step, Lock, DropGuard, Poll, Outb, Return, Rendezvous, Transmit, vars

-----------------------------------------------------------------------------
(* The registers.  p are the calls the cores make, from the first to the   *)
(* last.  What is still to be called is the end of p.                      *)
CallsInv(p) == \A c \in Cores : EndOf(calls[c], p[c])

(* A core has returned from its first call. *)
Started(p, c) == Len(calls[c]) < Len(p[c])

(* A core is in init. *)
InInit(c) == state[c] = "writing" /\ Head(calls[c]).op = "init"

(* The cores in S have returned from their first init, those in I are in   *)
(* init with left[c] writes to make: c has made n writes of an init.       *)
Wrote(S, I, left, c, n) == c \in S \/ (c \in I /\ left[c] <= 8 - n)

(* The values the registers take.  Until a core has made the write that    *)
(* sets a register it may have its reset value; DLAB is set, and bit 2 of  *)
(* mcr clear, only while some core is between two of the writes of init.   *)
Registers(u, S, I, left) ==
  /\ u.ier = 0 /\ u.dlm = 0
  /\ u.lcr \in {0, 3, 128} /\ u.fcr \in {0, 199} /\ u.mcr \in {0, 11, 15}
  /\ u.lcr = 0 => \A c \in Cores : ~Wrote(S, I, left, c, 2)
  /\ u.lcr = 3 => u.dll = 3
  /\ u.lcr = 128 => \E c \in I : left[c] \in 4 .. 6
  /\ (\E c \in Cores : Wrote(S, I, left, c, 3)) => u.dll = 3
  /\ u.fcr = 0 => \A c \in Cores : ~Wrote(S, I, left, c, 6)
  /\ u.mcr = 0 => \A c \in Cores : ~Wrote(S, I, left, c, 7)
  /\ u.mcr = 11 => \E c \in I : left[c] = 1

LEMMA DivisorsClosed ==
  ASSUME NEW u, NEW S, NEW left, Registers(u, S, {}, left)
  PROVE  ~Dlab(u)
BY DEF Registers, Dlab

RegInv(p) ==
  Registers(uart, {c \in Cores : Started(p, c)}, {c \in Cores : InInit(c)},
            [c \in Cores |-> Len(out[c])])

LEMMA CallsStep ==
  ASSUME NEW p \in [Cores -> Seq(Call)], TypeOK, OutInv, CallsInv(p), [Next]_vars
  PROVE  CallsInv(p)'
<1>1. ASSUME NEW c \in Cores, Return(c) \/ Rendezvous(c)
      PROVE  CallsInv(p)'
  <2>1. calls[c] # <<>> /\ calls[c] \in Seq(Call) /\ p[c] \in Seq(Call)
    BY <1>1, CallsType DEF OutInv, Return, Rendezvous, Waits
  <2>2. EndOf(Tail(calls[c]), p[c])
    BY <2>1, EndOfTail DEF CallsInv
  <2> QED
    BY <1>1, <2>2, Zenon DEF TypeOK, CallsInv, Return, Rendezvous
<1>2. CASE UNCHANGED calls
  BY <1>2 DEF CallsInv
<1> QED
  BY <1>1, <1>2 DEF Next, Step, Lock, DropGuard, Poll, Outb, Transmit, vars

(* The current call, in p. *)
Done(p, c) == Len(p[c]) - Len(calls[c])

LEMMA CurrentCall ==
  ASSUME NEW p \in [Cores -> Seq(Call)], TypeOK, CallsInv(p), NEW c \in Cores, calls[c] # <<>>
  PROVE  /\ Done(p, c) \in Nat /\ Done(p, c) + 1 \in DOMAIN p[c]
         /\ Head(calls[c]) = p[c][Done(p, c) + 1]
<1>1. calls[c] \in Seq(Call) /\ p[c] \in Seq(Call)
  BY DEF TypeOK
<1>2. EndOf(calls[c], p[c])
  BY DEF CallsInv
<1>3. /\ Head(calls[c]) = p[c][Len(p[c]) - Len(calls[c]) + 1]
      /\ Len(p[c]) - Len(calls[c]) + 1 \in 1 .. Len(p[c])
  BY <1>1, <1>2, EndOfTail, Zenon
<1>4. Len(p[c]) \in Nat /\ Len(calls[c]) \in Nat /\ DOMAIN p[c] = 1 .. Len(p[c])
  BY <1>1
<1>5. Done(p, c) \in Nat /\ Done(p, c) + 1 \in 1 .. Len(p[c])
  BY <1>3, <1>4 DEF Done
<1> QED
  BY <1>3, <1>4, <1>5, Zenon DEF Done

(* While a text is written, no other core is in a call. *)
LEMMA TextAlone ==
  ASSUME NEW p \in [Cores -> Seq(Call)], Exclusive(p), TypeOK, OutInv, CallsInv(p),
         NEW c \in Cores, calls[c] # <<>>, Head(calls[c]).op # "init",
         NEW d \in Cores \ {c}
  PROVE  calls[d] = <<>> /\ p[d] = <<>> /\ state[d] = "idle"
<1>1. \E i \in DOMAIN p[c] : p[c][i].op # "init"
  <2>1. /\ Done(p, c) + 1 \in DOMAIN p[c]
        /\ Head(calls[c]) = p[c][Done(p, c) + 1]
    BY CurrentCall
  <2> QED
    BY <2>1, Zenon
<1>2. p[d] = <<>>
  BY <1>1 DEF Exclusive
<1>3. calls[d] \in Seq(Call) /\ Len(calls[d]) <= 0
  BY <1>2 DEF TypeOK, CallsInv, EndOf
<1> QED
  BY <1>2, <1>3 DEF OutInv

(* One write of init: it is the one that InitWrites has there. *)
LEMMA NextInit ==
  ASSUME TypeOK, OutInv, NEW c \in Cores, InInit(c), out[c] # <<>>
  PROVE  /\ Len(out[c]) \in 1 .. 8 /\ Head(out[c]) = InitWrites[9 - Len(out[c])]
         /\ Len(Tail(out[c])) = Len(out[c]) - 1
<1>1. Writes(Head(calls[c])) = InitWrites
  BY DEF InInit, Writes
<1>2. out[c] \in Seq(Write)
  BY OutType
<1>3. /\ Len(InitWrites) - Len(out[c]) + 1 \in 1 .. Len(InitWrites)
      /\ Head(out[c]) = InitWrites[Len(InitWrites) - Len(out[c]) + 1]
      /\ Len(Tail(out[c])) = Len(out[c]) - 1
  BY <1>1, NextWrite, Zenon DEF InInit
<1>4. Len(InitWrites) = 8 /\ Len(out[c]) \in Nat
  BY <1>2, InitWritesType
<1>5. 8 - Len(out[c]) + 1 = 9 - Len(out[c])
  BY <1>4
<1>6. ASSUME NEW k \in Nat, 8 - k + 1 \in 1 .. 8
      PROVE  k \in 1 .. 8
  BY <1>6
<1>7. Len(out[c]) \in 1 .. 8
  BY <1>3, <1>4, <1>6, Zenon
<1> QED
  BY <1>3, <1>4, <1>5, <1>7, Zenon

LEMMA RegistersInit ==
  ASSUME NEW S \in SUBSET Cores, NEW I \in SUBSET Cores, NEW left \in [Cores -> Nat],
         NEW c \in I, left[c] \in 1 .. 8, NEW u \in Uart, NEW w \in Uart,
         Registers(u, S, I, left),
         Stores(u, InitWrites[9 - left[c]][1], InitWrites[9 - left[c]][2], w)
  PROVE  Registers(w, S, I, [left EXCEPT ![c] = left[c] - 1])
<1> DEFINE m == [left EXCEPT ![c] = left[c] - 1]
<1>1. /\ m \in [Cores -> Nat] /\ m[c] = left[c] - 1
      /\ \A d \in Cores : d # c => m[d] = left[d]
  OBVIOUS
<1> HIDE DEF m
<1>2. CASE left[c] = 8
  <2>1. Stores(u, 1, 0, w)
    BY <1>2 DEF InitWrites
  <2> QED
    BY <1>1, <1>2, <2>1, SMTT(40) DEF Stores, Registers, Wrote, Dlab
<1>3. CASE left[c] = 7
  <2>1. Stores(u, 3, 128, w)
    BY <1>3 DEF InitWrites
  <2> QED
    BY <1>1, <1>3, <2>1, SMTT(40) DEF Stores, Registers, Wrote, Dlab
<1>4. CASE left[c] = 6
  <2>1. Stores(u, 0, 3, w)
    BY <1>4 DEF InitWrites
  <2> QED
    BY <1>1, <1>4, <2>1, SMTT(60) DEF Stores, Registers, Wrote, Dlab
<1>5. CASE left[c] = 5
  <2>1. Stores(u, 1, 0, w)
    BY <1>5 DEF InitWrites
  <2> QED
    BY <1>1, <1>5, <2>1, SMTT(60) DEF Stores, Registers, Wrote, Dlab
<1>6. CASE left[c] = 4
  <2>1. Stores(u, 3, 3, w)
    BY <1>6 DEF InitWrites
  <2> QED
    BY <1>1, <1>6, <2>1, SMTT(60) DEF Stores, Registers, Wrote, Dlab
<1>7. CASE left[c] = 3
  <2>1. Stores(u, 2, 199, w)
    BY <1>7 DEF InitWrites
  <2> QED
    BY <1>1, <1>7, <2>1, SMTT(40) DEF Stores, Registers, Wrote, Dlab
<1>8. CASE left[c] = 2
  <2>1. Stores(u, 4, 11, w)
    BY <1>8 DEF InitWrites
  <2> QED
    BY <1>1, <1>8, <2>1, SMTT(60) DEF Stores, Registers, Wrote, Dlab
<1>9. CASE left[c] = 1
  <2>1. Stores(u, 4, 15, w)
    BY <1>9 DEF InitWrites
  <2> QED
    BY <1>1, <1>9, <2>1, SMTT(60) DEF Stores, Registers, Wrote, Dlab
<1> QED
  BY <1>2, <1>3, <1>4, <1>5, <1>6, <1>7, <1>8, <1>9 DEF m

(* Steps that leave the registers and the progress of the inits alone. *)
LEMMA RegistersSame ==
  ASSUME NEW S \in SUBSET Cores, NEW I \in SUBSET Cores, NEW left \in [Cores -> Nat],
         NEW T \in SUBSET Cores, NEW J \in SUBSET Cores, NEW m \in [Cores -> Nat],
         NEW u, NEW w, Registers(u, S, I, left),
         \A d \in Cores, n \in 1 .. 8 : Wrote(T, J, m, d, n) <=> Wrote(S, I, left, d, n),
         \A d \in I : left[d] \in 1 .. 7 => d \in J /\ m[d] = left[d],
         w.ier = u.ier, w.dll = u.dll, w.dlm = u.dlm, w.lcr = u.lcr, w.fcr = u.fcr,
         w.mcr = u.mcr
  PROVE  Registers(w, T, J, m)
<1>1. \A d \in Cores : /\ Wrote(T, J, m, d, 2) <=> Wrote(S, I, left, d, 2)
                       /\ Wrote(T, J, m, d, 3) <=> Wrote(S, I, left, d, 3)
                       /\ Wrote(T, J, m, d, 6) <=> Wrote(S, I, left, d, 6)
                       /\ Wrote(T, J, m, d, 7) <=> Wrote(S, I, left, d, 7)
  <2>1. 2 \in 1 .. 8 /\ 3 \in 1 .. 8 /\ 6 \in 1 .. 8 /\ 7 \in 1 .. 8
    OBVIOUS
  <2> QED
    BY <2>1, Zenon
<1> QED
  BY <1>1 DEF Registers

LEMMA RegStep ==
  ASSUME NEW p \in [Cores -> Seq(Call)], Exclusive(p), InitFirst(p),
         TypeOK, OutInv, CallsInv(p), RegInv(p), [Next]_vars
  PROVE  RegInv(p)'
<1> DEFINE S == {c \in Cores : Started(p, c)}
           I == {c \in Cores : InInit(c)}
           left == [c \in Cores |-> Len(out[c])]
<1>0. /\ S \in SUBSET Cores /\ I \in SUBSET Cores /\ left \in [Cores -> Nat]
      /\ S' \in SUBSET Cores /\ I' \in SUBSET Cores /\ left' \in [Cores -> Nat]
  <2>1. \A c \in Cores : Len(out[c]) \in Nat
    BY OutType
  <2>2. TypeOK'
    BY StepType
  <2>3. \A c \in Cores : Len(out'[c]) \in Nat
    BY <2>2 DEF TypeOK
  <2> QED
    BY <2>1, <2>3
<1>1. ASSUME NEW c \in Cores, Lock(c)
      PROVE  RegInv(p)'
  <2>1. S' = S /\ I' = I /\ left' = left /\ uart' = uart
    BY <1>1 DEF Lock, Enter, TypeOK, Started, InInit
  <2> QED
    BY <2>1, Zenon DEF RegInv
<1>2. ASSUME NEW c \in Cores, DropGuard(c)
      PROVE  RegInv(p)'
  <2>1. S' = S /\ uart' = uart
    BY <1>2 DEF DropGuard, Started
  <2>2. c \notin I /\ \A d \in Cores \ {c} : (d \in I' <=> d \in I) /\ left'[d] = left[d]
    BY <1>2 DEF DropGuard, Enter, TypeOK, InInit
  <2>3. c \in I' => left'[c] = 8
    BY <1>2, InitWritesType DEF DropGuard, Enter, TypeOK, InInit, Writes
  <2>4. \A d \in I : left[d] \in 1 .. 7 => d \in I' /\ left'[d] = left[d]
    BY <2>2
  <2> HIDE DEF S, I, left
  <2>5. \A d \in Cores, n \in 1 .. 8 :
          Wrote(S', I', left', d, n) <=> Wrote(S, I, left, d, n)
    BY <1>0, <2>1, <2>2, <2>3 DEF Wrote
  <2> QED
    BY <1>0, <2>1, <2>4, <2>5, RegistersSame, Zenon DEF RegInv, S, I, left
<1>3. ASSUME NEW c \in Cores, Poll(c)
      PROVE  RegInv(p)'
  <2>1. Head(calls[c]).op # "init"
    BY <1>3 DEF Poll, OutInv
  <2>2. S' = S /\ I' = I /\ left' = left /\ uart' = uart
    BY <1>3, <2>1 DEF Poll, Enter, TypeOK, Started, InInit
  <2> QED
    BY <2>2, Zenon DEF RegInv
<1>4. ASSUME NEW c \in Cores, Outb(c), InInit(c)
      PROVE  RegInv(p)'
  <2>1. /\ left[c] \in 1 .. 8 /\ Head(out[c]) = InitWrites[9 - left[c]]
        /\ Len(Tail(out[c])) = left[c] - 1
    BY <1>4, NextInit DEF Outb
  <2>2. /\ Stores(uart, Head(out[c])[1], Head(out[c])[2], uart')
        /\ uart \in Uart /\ uart' \in Uart
    <3>1. Stores(uart, Head(out[c])[1], Head(out[c])[2], uart') /\ uart \in Uart
      BY <1>4, StoreFields, OutType, Zenon DEF Outb, TypeOK
    <3> QED
      BY <3>1, Zenon DEF Stores
  <2>3. S' = S /\ I' = I /\ c \in I
    BY <1>4 DEF Outb, Started, InInit
  <2>4. left' = [left EXCEPT ![c] = left[c] - 1]
    BY <1>4, <2>1, Zenon DEF Outb, TypeOK
  <2> HIDE DEF S, I, left
  <2>5. Registers(uart', S, I, [left EXCEPT ![c] = left[c] - 1])
    BY <1>0, <2>1, <2>2, <2>3, RegistersInit, Zenon DEF RegInv, S, I, left
  <2> QED
    BY <2>3, <2>4, <2>5, Zenon DEF RegInv, S, I, left
<1>5. ASSUME NEW c \in Cores, Outb(c), ~InInit(c)
      PROVE  RegInv(p)'
  <2>1. calls[c] # <<>> /\ Head(calls[c]).op # "init" /\ state[c] = "writing"
    BY <1>5 DEF Outb, InInit, OutInv
  <2>2. \A d \in Cores : ~InInit(d)
    BY <2>1, TextAlone DEF InInit
  <2>3. ~Dlab(uart)
    BY <2>2 DEF RegInv, Registers, Dlab
  <2>4. Head(out[c])[1] = 0
    BY <1>5, <2>1, NextChar, Zenon DEF Outb
  <2>5. Stores(uart, 0, Head(out[c])[2], uart')
    BY <1>5, <2>4, StoreFields, OutType, Zenon DEF Outb, TypeOK
  <2>6. S' = S /\ I' = {} /\ I = {}
    BY <1>5, <2>2 DEF Outb, Started, InInit
  <2>7. \A d \in Cores, n \in 1 .. 8 :
          Wrote(S', I', left', d, n) <=> Wrote(S, I, left, d, n)
    BY <2>6 DEF Wrote
  <2> HIDE DEF S, I, left
  <2>8. /\ uart'.ier = uart.ier /\ uart'.dll = uart.dll /\ uart'.dlm = uart.dlm
        /\ uart'.lcr = uart.lcr /\ uart'.fcr = uart.fcr /\ uart'.mcr = uart.mcr
    BY <2>3, <2>5 DEF Stores
  <2> QED
    BY <1>0, <2>6, <2>7, <2>8, RegistersSame, Zenon DEF RegInv, S, I, left
<1>6. ASSUME NEW c \in Cores, Return(c)
      PROVE  RegInv(p)'
  <2>1. calls[c] # <<>> /\ calls[c] \in Seq(Call) /\ p[c] \in Seq(Call)
    BY <1>6, CallsType DEF OutInv, Return
  <2>2. /\ Done(p, c) \in Nat /\ Done(p, c) + 1 \in DOMAIN p[c]
        /\ Head(calls[c]) = p[c][Done(p, c) + 1]
    BY <2>1, CurrentCall
  <2>3. c \in S'
    BY <1>6, <2>1, <2>2 DEF Return, Started, Done, TypeOK
  <2>4. c \in S \/ (c \in I /\ left[c] = 0)
    <3>1. CASE Head(calls[c]).op = "init"
      BY <1>6, <3>1 DEF Return, InInit
    <3>2. CASE Head(calls[c]).op # "init"
      <4>1. p[c] # <<>> /\ p[c][1].op = "init"
        BY <2>1, <2>2 DEF InitFirst
      <4>2. Done(p, c) # 0
        BY <2>2, <3>2, <4>1
      <4> QED
        BY <2>1, <2>2, <4>2 DEF Done, Started
    <3> QED
      BY <3>1, <3>2
  <2>5. /\ \A d \in Cores \ {c} : (d \in S' <=> d \in S) /\ (d \in I' <=> d \in I)
        /\ left' = left /\ uart' = uart
    BY <1>6 DEF Return, Enter, Started, InInit, TypeOK
  <2>6. \A d \in Cores, n \in 1 .. 8 :
          Wrote(S', I', left', d, n) <=> Wrote(S, I, left, d, n)
    BY <1>0, <2>3, <2>4, <2>5 DEF Wrote
  <2>7. c \in I => left[c] = 0
    BY <1>6 DEF Return
  <2> HIDE DEF S, I, left
  <2>8. \A d \in I : left[d] \in 1 .. 7 => d \in I' /\ left'[d] = left[d]
    BY <1>0, <2>5, <2>7
  <2> QED
    BY <1>0, <2>5, <2>6, <2>8, RegistersSame, Zenon DEF RegInv, S, I, left
<1>7. ASSUME Transmit
      PROVE  RegInv(p)'
  <2>1. S' = S /\ I' = I /\ left' = left
    BY <1>7 DEF Transmit, Started, InInit
  <2>2. /\ uart'.ier = uart.ier /\ uart'.dll = uart.dll /\ uart'.dlm = uart.dlm
        /\ uart'.lcr = uart.lcr /\ uart'.fcr = uart.fcr /\ uart'.mcr = uart.mcr
    BY <1>7, TransmitFields
  <2> HIDE DEF S, I, left
  <2>3. Registers(uart', S, I, left)
    <3>1. Registers(uart, S, I, left)
      BY DEF RegInv, S, I, left
    <3> QED
      BY <2>2, <3>1 DEF Registers
  <2> QED
    BY <2>1, <2>3, Zenon DEF RegInv, S, I, left
<1>8. CASE UNCHANGED vars
  <2>1. S' = S /\ I' = I /\ left' = left /\ uart' = uart
    BY <1>8 DEF vars, Started, InInit
  <2> QED
    BY <2>1, Zenon DEF RegInv
<1>9. ASSUME NEW c \in Cores, Rendezvous(c)
      PROVE  RegInv(p)'
  <2>1. /\ calls[c] # <<>> /\ calls[c] \in Seq(Call) /\ p[c] \in Seq(Call)
        /\ Head(calls[c]).op # "init" /\ calls' = [calls EXCEPT ![c] = Tail(@)]
    BY <1>9, CallsType DEF Rendezvous, Waits
  <2>2. /\ Done(p, c) \in Nat /\ Done(p, c) + 1 \in DOMAIN p[c]
        /\ Head(calls[c]) = p[c][Done(p, c) + 1]
    BY <2>1, CurrentCall
  <2>3. p[c] # <<>> /\ p[c][1].op = "init"
    BY <2>1, <2>2 DEF InitFirst
  <2>4. Done(p, c) # 0
    BY <2>1, <2>2, <2>3
  <2>5. c \in S /\ c \in S'
    BY <2>1, <2>2, <2>4 DEF Done, Started, TypeOK
  <2>6. \A d \in Cores \ {c} : d \in S' <=> d \in S
    BY <2>1 DEF Started, TypeOK
  <2>7. S' = S
    BY <2>5, <2>6
  <2>8. I' = I /\ left' = left /\ uart' = uart
    BY <1>9, <2>1 DEF Rendezvous, Waits, InInit, TypeOK
  <2> QED
    BY <2>7, <2>8, Zenon DEF RegInv
<1> QED
  BY <1>1, <1>2, <1>3, <1>4, <1>5, <1>6, <1>7, <1>8, <1>9 DEF Next, Step

PortInv == TypeOK /\ OutInv /\ \E p \in Programs :
  p = program /\ CallsInv(p) /\ (Exclusive(p) => RegInv(p))

LEMMA InitType ==
  ASSUME Init
  PROVE  TypeOK /\ OutInv
<1>1. Reset \in Uart /\ Reset.fifo = <<>>
  BY DEF Reset, Uart
<1>2. TypeOK
  BY <1>1, SerialAssumption DEF Init, TypeOK
<1> QED
  BY <1>2 DEF Init, OutInv

LEMMA InitReg ==
  ASSUME Init
  PROVE  \E p \in Programs : p = program /\ p = calls /\ CallsInv(p) /\ RegInv(p)
<1>1. PICK p \in Programs : p = program /\ p = calls
  BY DEF Init
<1>2. p \in [Cores -> Seq(Call)] /\ TypeOK
  BY InitType, SerialAssumption
<1>3. CallsInv(p)
  BY <1>1, <1>2, EndOfSelf DEF CallsInv
<1>4. \A c \in Cores : ~Started(p, c) /\ ~InInit(c)
  <2>1. \A c \in Cores : Len(p[c]) \in Nat /\ Len(calls[c]) = Len(p[c])
    BY <1>1, <1>2, Zenon, SequenceOf
  <2>2. \A c \in Cores : ~Started(p, c)
    <3>1. \A n \in Nat : ~(n < n)
      OBVIOUS
    <3> QED
      BY <2>1, <3>1, Zenon DEF Started
  <2>3. \A c \in Cores : ~InInit(c)
    BY Zenon DEF Init, InInit
  <2> QED
    BY <2>2, <2>3, Zenon
<1>5. \A left : Registers(Reset, {}, {}, left)
  BY DEF Registers, Wrote, Reset
<1>6. RegInv(p)
  BY <1>4, <1>5, Zenon DEF RegInv, Init
<1> QED
  BY <1>1, <1>3, <1>6

(* The driver and the UART keep their types: what is written to a register *)
(* is a byte and an offset from 0 to 4, and the FIFO never holds more than *)
(* it has room for.                                                        *)
THEOREM TypeCorrect == Spec => []TypeOK
<1>1. Init => TypeOK /\ OutInv
  BY InitType
<1>2. TypeOK /\ OutInv /\ [Next]_vars => (TypeOK /\ OutInv)'
  BY StepType
<1> QED
  BY <1>1, <1>2, PTL DEF Spec

(* Whenever no call of the driver is in progress, the port is set up as    *)
(* init's comments say, for any number of cores whose inits interleave at  *)
(* every outb: if every core calls init first.  (Configured is about       *)
(* programs in which a core that writes a text is alone.)                  *)
THEOREM PortConfigured ==
  ASSUME \A p \in Programs : InitFirst(p)
  PROVE  Spec => []Configured
<1>1. Init => PortInv
  BY InitType, InitReg DEF PortInv
<1>2. PortInv /\ [Next]_vars => PortInv'
  <2> SUFFICES ASSUME PortInv, [Next]_vars
               PROVE  PortInv'
    OBVIOUS
  <2>1. PICK p \in Programs :
          p = program /\ CallsInv(p) /\ (Exclusive(p) => RegInv(p))
    BY DEF PortInv
  <2>2. TypeOK' /\ OutInv'
    BY StepType DEF PortInv
  <2>3. TypeOK /\ OutInv /\ p \in [Cores -> Seq(Call)] /\ InitFirst(p)
    BY SerialAssumption DEF PortInv
  <2>4. CallsInv(p)' /\ (Exclusive(p) => RegInv(p)')
    BY <2>1, <2>3, CallsStep, RegStep
  <2>5. p = program'
    BY <2>1, SameProgram
  <2> QED
    BY <2>2, <2>4, <2>5 DEF PortInv
<1>3. PortInv => Configured
  <2> SUFFICES ASSUME PortInv, Exclusive(program), \A c \in Cores : Between(c)
               PROVE  LineSetup(uart) /\ uart.ier = 0 /\ uart.fcr = 199 /\ uart.mcr = 15
    BY DEF Configured, ConfiguredByAll
  <2>1. PICK p \in Programs : p = program /\ CallsInv(p) /\ RegInv(p)
    BY DEF PortInv
  <2>2. p \in [Cores -> Seq(Call)] /\ calls \in [Cores -> Seq(Call)]
    BY SerialAssumption DEF PortInv, TypeOK
  <2>3. PICK c \in Cores : p[c] # <<>>
    BY DEF InitFirst
  <2>4. calls[c] # p[c] /\ EndOf(calls[c], p[c])
    BY <2>1, <2>3 DEF Between, CallsInv
  <2>5. Started(p, c)
    <3>1. ASSUME Len(calls[c]) = Len(p[c])
          PROVE  FALSE
      <4>1. \A i \in 1 .. Len(p[c]) : calls[c][i] = p[c][i]
        BY <2>2, <2>4, <3>1 DEF EndOf
      <4> QED
        BY <2>2, <2>4, <3>1, <4>1
    <3> QED
      BY <2>2, <2>4, <3>1 DEF EndOf, Started
  <2>6. \A d \in Cores : ~InInit(d)
    BY DEF Between, InInit
  <2> QED
    BY <2>1, <2>5, <2>6 DEF RegInv, Registers, Wrote, LineSetup
<1> QED
  BY <1>1, <1>2, <1>3, PTL DEF Spec

-----------------------------------------------------------------------------
(* The text.  Only core c writes one. *)
HasText(p, c) == \E i \in DOMAIN p[c] : p[c][i].op # "init"

(* What is legible of s is in order, and was written. *)
Ordered(s) ==
  \A i, j \in DOMAIN s : i < j /\ s[i] # -1 /\ s[j] # -1 => s[i] < s[j]
From(s, w) == \A i \in DOMAIN s : s[i] # -1 => \E j \in DOMAIN w : w[j] = s[i]

(* The characters that a core has still to write. *)
Pending(p, c, i, l) ==
  \/ i > Done(p, c) + 1
  \/ i = Done(p, c) + 1
     /\ (state[c] # "writing" \/ l > Len(p[c][i].text) - Len(out[c]))

(* What is written is below them. *)
Ahead(p, c) ==
  \A n \in DOMAIN written, i \in DOMAIN p[c] :
    p[c][i].op # "init" =>
      \A l \in DOMAIN p[c][i].text : Pending(p, c, i, l) => written[n] < p[c][i].text[l]

TextInv(p, c) ==
  /\ Ordered(Sent) /\ From(Sent, written)
  /\ InInit(c) /\ Len(out[c]) \in 4 .. 6 => uart.lcr = 128
  /\ Ahead(p, c)

(* Only calls of p write. *)
WrittenOf(p) == written # <<>> => \E c \in Cores : HasText(p, c)

OrderInv == TypeOK /\ OutInv /\ \E p \in Programs :
  /\ p = program /\ CallsInv(p) /\ WrittenOf(p)
  /\ Exclusive(p) => \A c \in Cores : HasText(p, c) => TextInv(p, c)

LEMMA OrderedAppend ==
  ASSUME NEW s \in Seq(Int), NEW w \in Seq(Int), NEW v \in Int,
         Ordered(s), From(s, w), \A n \in DOMAIN w : w[n] < v
  PROVE  Ordered(Append(s, v)) /\ From(Append(s, v), Append(w, v)) /\ From(s, Append(w, v))
<1>1. /\ Len(Append(s, v)) = Len(s) + 1 /\ Append(s, v)[Len(s) + 1] = v
      /\ \A i \in 1 .. Len(s) : Append(s, v)[i] = s[i]
      /\ DOMAIN Append(s, v) = 1 .. Len(s) + 1 /\ DOMAIN s = 1 .. Len(s) /\ Len(s) \in Nat
  OBVIOUS
<1>2. /\ Len(Append(w, v)) = Len(w) + 1 /\ Append(w, v)[Len(w) + 1] = v
      /\ \A i \in 1 .. Len(w) : Append(w, v)[i] = w[i]
      /\ DOMAIN Append(w, v) = 1 .. Len(w) + 1 /\ DOMAIN w = 1 .. Len(w) /\ Len(w) \in Nat
  OBVIOUS
<1>3. \A i \in DOMAIN s : s[i] # -1 => s[i] < v
  BY DEF From
<1>4. Ordered(Append(s, v))
  BY <1>1, <1>3 DEF Ordered
<1>5. From(s, Append(w, v))
  BY <1>2 DEF From
<1>6. From(Append(s, v), Append(w, v))
  <2> SUFFICES ASSUME NEW i \in 1 .. Len(s) + 1, Append(s, v)[i] # -1
               PROVE  \E j \in DOMAIN Append(w, v) : Append(w, v)[j] = Append(s, v)[i]
    BY <1>1, Zenon DEF From
  <2>1. CASE i = Len(s) + 1
    <3>1. Len(w) + 1 \in DOMAIN Append(w, v)
      BY <1>2
    <3> QED
      BY <1>1, <1>2, <2>1, <3>1, Zenon
  <2>2. CASE i # Len(s) + 1
    <3>1. i \in 1 .. Len(s) /\ Append(s, v)[i] = s[i]
      BY <1>1, <2>2
    <3> QED
      BY <1>1, <1>5, <3>1, Zenon DEF From
  <2> QED
    BY <2>1, <2>2, Zenon
<1> QED
  BY <1>4, <1>5, <1>6

(* Bytes that are no longer legible, or no longer there. *)
LEMMA OrderedLess ==
  ASSUME NEW s \in Seq(Int), NEW x \in Seq(Int), NEW w, Ordered(s), From(s, w),
         Len(x) <= Len(s), \A i \in 1 .. Len(x) : x[i] = s[i] \/ x[i] = -1
  PROVE  Ordered(x) /\ From(x, w)
<1>1. /\ \A i \in DOMAIN x : i \in DOMAIN s /\ (x[i] # -1 => x[i] = s[i])
  OBVIOUS
<1> QED
  BY <1>1, Zenon DEF Ordered, From

LEMMA SentAppend ==
  ASSUME NEW l \in Seq(Int), NEW f \in Seq(Int), NEW v \in Int
  PROVE  l \o Append(f, v) = Append(l \o f, v)
  OBVIOUS

LEMMA SentClear ==
  ASSUME NEW l \in Seq(Int), NEW f \in Seq(Int)
  PROVE  /\ l \o <<>> \in Seq(Int) /\ l \o f \in Seq(Int)
         /\ Len(l \o <<>>) <= Len(l \o f)
         /\ \A i \in 1 .. Len(l \o <<>>) : (l \o <<>>)[i] = (l \o f)[i]
  OBVIOUS

LEMMA OrderedClear ==
  ASSUME NEW l \in Seq(Int), NEW f \in Seq(Int), NEW w,
         Ordered(l \o f), From(l \o f, w)
  PROVE  Ordered(l \o <<>>) /\ From(l \o <<>>, w)
  BY SentClear, OrderedLess, Zenon

LEMMA SentShift ==
  ASSUME NEW l \in Seq(Int), NEW f \in Seq(Int), f # <<>>, NEW v \in {Head(f), -1}
  PROVE  /\ Append(l, v) \o Tail(f) \in Seq(Int)
         /\ Len(Append(l, v) \o Tail(f)) = Len(l \o f)
         /\ \A i \in 1 .. Len(l \o f) :
              \/ (Append(l, v) \o Tail(f))[i] = (l \o f)[i]
              \/ v = -1 /\ (Append(l, v) \o Tail(f))[i] = -1
<1>1. Head(f) \in Int /\ v \in Int /\ Tail(f) \in Seq(Int) /\ Len(Tail(f)) = Len(f) - 1
  OBVIOUS
<1> QED
  BY <1>1

LEMMA SentKept ==
  ASSUME NEW l \in Seq(Int), NEW f \in Seq(Int), f # <<>>
  PROVE  Append(l, Head(f)) \o Tail(f) = l \o f
<1>1. Head(f) \in Int /\ Tail(f) \in Seq(Int) /\ Len(Tail(f)) = Len(f) - 1
  OBVIOUS
<1> QED
  BY <1>1

LEMMA OrderedShift ==
  ASSUME NEW l \in Seq(Int), NEW f \in Seq(Int), f # <<>>, NEW v \in {Head(f), -1}, NEW w,
         Ordered(l \o f), From(l \o f, w)
  PROVE  Ordered(Append(l, v) \o Tail(f)) /\ From(Append(l, v) \o Tail(f), w)
<1>1. PICK s \in Seq(Int) : s = l \o f
  BY Joined, Zenon
<1>2. PICK x \in Seq(Int) : x = Append(l, v) \o Tail(f)
  BY SentShift, Zenon
<1>3. Len(x) = Len(s) /\ \A i \in 1 .. Len(s) : x[i] = s[i] \/ (v = -1 /\ x[i] = -1)
  BY <1>1, <1>2, SentShift
<1>4. Len(x) <= Len(s) /\ \A i \in 1 .. Len(x) : x[i] = s[i] \/ x[i] = -1
  BY <1>3
<1>5. Ordered(s) /\ From(s, w)
  BY <1>1
<1>6. Ordered(x) /\ From(x, w)
  BY <1>4, <1>5, OrderedLess
<1> QED
  BY <1>2, <1>6

LEMMA SentType ==
  ASSUME TypeOK
  PROVE  line \in Seq(Int) /\ uart.fifo \in Seq(Int) /\ Sent \in Seq(Int) /\ written \in Seq(Int)
<1>1. Byte \subseteq Int /\ -1 .. 255 \subseteq Int /\ Chars \subseteq Int
  BY DEF Byte, Chars
<1>2. uart.fifo \in Seq(Byte) /\ line \in Seq(-1 .. 255) /\ written \in Seq(Chars)
  BY DEF TypeOK, Uart, Byte
<1>3. line \in Seq(Int) /\ uart.fifo \in Seq(Int) /\ written \in Seq(Int)
  BY <1>1, <1>2, WiderSequence, ZenonT(60)
<1> QED
  BY <1>3 DEF Sent

(* Only the core with a text makes a step. *)
LEMMA OnlyCore ==
  ASSUME NEW p \in [Cores -> Seq(Call)], Exclusive(p), TypeOK, OutInv, CallsInv(p),
         NEW c \in Cores, HasText(p, c), NEW d \in Cores, Step(d)
  PROVE  d = c
<1> SUFFICES ASSUME d # c
             PROVE  FALSE
  OBVIOUS
<1>1. p[d] = <<>>
  BY DEF Exclusive, HasText
<1>2. calls[d] \in Seq(Call) /\ Len(calls[d]) <= 0
  BY <1>1 DEF TypeOK, CallsInv, EndOf
<1>3. calls[d] = <<>> /\ state[d] = "idle"
  BY <1>2 DEF OutInv
<1> QED
  BY <1>3 DEF Step, Lock, DropGuard, Poll, Outb, Return, Rendezvous, Waits

(* The character that Outb writes: the first of those pending. *)
WritesChar(p, c, i, l) ==
  /\ i = Done(p, c) + 1 /\ p[c][i].op # "init" /\ Head(calls[c]) = p[c][i]
  /\ l = Len(p[c][i].text) - Len(out[c]) + 1
  /\ Len(out'[c]) = Len(out[c]) - 1
  /\ p[c][i].text[l] \in Chars
  /\ written' = Append(written, p[c][i].text[l])
  /\ Stores(uart, 0, p[c][i].text[l], uart')

LEMMA OutbChar ==
  ASSUME NEW p \in [Cores -> Seq(Call)], TypeOK, OutInv, CallsInv(p),
         NEW c \in Cores, Outb(c), ~InInit(c)
  PROVE  \E i \in DOMAIN p[c] : \E l \in DOMAIN p[c][i].text : WritesChar(p, c, i, l)
<1>1. calls[c] # <<>> /\ Head(calls[c]).op # "init" /\ state[c] = "writing" /\ out[c] # <<>>
  BY DEF Outb, InInit, OutInv
<1>2. PICK i \in DOMAIN p[c] : i = Done(p, c) + 1 /\ Head(calls[c]) = p[c][i]
  BY <1>1, CurrentCall
<1>3. p[c] \in Seq(Call) /\ p[c][i] \in Call
  BY <1>2
<1>4. p[c][i].text \in Seq(Chars)
  BY <1>3 DEF Call
<1>5. /\ Len(p[c][i].text) - Len(out[c]) + 1 \in 1 .. Len(p[c][i].text)
      /\ Head(out[c])[1] = 0
      /\ Head(out[c])[2] = p[c][i].text[Len(p[c][i].text) - Len(out[c]) + 1]
      /\ Head(out[c])[2] \in Chars
  BY <1>1, <1>2, NextChar, Zenon
<1>6. PICK l \in DOMAIN p[c][i].text : l = Len(p[c][i].text) - Len(out[c]) + 1
  <2>1. DOMAIN p[c][i].text = 1 .. Len(p[c][i].text)
    BY <1>4, SequenceOf, Zenon
  <2> QED
    BY <1>5, <2>1, Zenon
<1>7. Head(out[c])[2] = p[c][i].text[l]
  BY <1>5, <1>6, Zenon
<1>8. Len(out'[c]) = Len(out[c]) - 1
  BY <1>1, NextWrite, Zenon DEF Outb, TypeOK
<1>9. Stores(uart, 0, Head(out[c])[2], uart')
  BY <1>1, <1>5, StoreFields, OutType, Zenon DEF Outb, TypeOK
<1>10. written' = Append(written, Head(out[c])[2])
  BY <1>1 DEF Outb
<1> QED
  BY <1>1, <1>2, <1>5, <1>6, <1>7, <1>8, <1>9, <1>10, Zenon DEF WritesChar

LEMMA AheadStep ==
  ASSUME NEW p \in [Cores -> Seq(Call)], Exclusive(p), Ascending(p),
         TypeOK, OutInv, CallsInv(p), NEW c \in Cores, HasText(p, c),
         Ahead(p, c), [Next]_vars
  PROVE  Ahead(p, c)'
<1>0. Len(p[c]) \in Nat /\ Len(calls[c]) \in Nat /\ Len(out[c]) \in Nat
  <2>1. p[c] \in Seq(Call) /\ calls[c] \in Seq(Call) /\ out[c] \in Seq(Write)
    BY CallsType, OutType
  <2> QED
    BY <2>1, SequenceOf
<1>1. ASSUME written' = written,
             \A i \in DOMAIN p[c] : p[c][i].op # "init" =>
               \A l \in DOMAIN p[c][i].text : Pending(p, c, i, l)' => Pending(p, c, i, l)
      PROVE  Ahead(p, c)'
  BY <1>1, Zenon DEF Ahead
<1>2. CASE Lock(c)
  <2>1. ASSUME NEW i, NEW l
        PROVE  Pending(p, c, i, l)' => Pending(p, c, i, l)
    BY <1>2, Zenon DEF Lock, Enter, Pending, Done
  <2> QED
    BY <1>1, <1>2, <2>1 DEF Lock
<1>3. CASE DropGuard(c)
  <2>1. ASSUME NEW i, NEW l
        PROVE  Pending(p, c, i, l)' => Pending(p, c, i, l)
    BY <1>3, Zenon DEF DropGuard, Enter, Pending, Done
  <2> QED
    BY <1>1, <1>3, <2>1 DEF DropGuard
<1>4. CASE Poll(c)
  <2>1. ASSUME NEW i, NEW l
        PROVE  Pending(p, c, i, l)' => Pending(p, c, i, l)
    BY <1>4, Zenon DEF Poll, Enter, Pending, Done
  <2> QED
    BY <1>1, <1>4, <2>1 DEF Poll
<1>5. CASE Return(c) \/ Rendezvous(c)
  <2>1. Len(calls'[c]) = Len(calls[c]) - 1
    <3>1. calls[c] \in Seq(Call) /\ calls[c] # <<>> /\ calls'[c] = Tail(calls[c])
      BY <1>5, CallsType DEF Return, Rendezvous, Waits, OutInv, TypeOK
    <3> QED
      BY <3>1
  <2>2. Done(p, c)' = Done(p, c) + 1 /\ Done(p, c) \in Int
    BY <1>0, <2>1 DEF Done
  <2>3. ASSUME NEW i \in DOMAIN p[c], NEW l
        PROVE  Pending(p, c, i, l)' => Pending(p, c, i, l)
    <3>1. i \in Int
      OBVIOUS
    <3>2. PICK d \in Int : d = Done(p, c) /\ Done(p, c)' = d + 1
      BY <2>2, Zenon
    <3>3. Pending(p, c, i, l)' => i > (d + 1) + 1 \/ i = (d + 1) + 1
      BY <3>2, Zenon DEF Pending
    <3>4. i > (d + 1) + 1 \/ i = (d + 1) + 1 => i > d + 1
      BY <3>1, <3>2
    <3> QED
      BY <3>2, <3>3, <3>4, Zenon DEF Pending
  <2> QED
    BY <1>1, <1>5, <2>3 DEF Return, Rendezvous
<1>6. CASE Outb(c) /\ InInit(c)
  <2>1. calls[c] # <<>> /\ written' = written /\ calls' = calls /\ state' = state
    BY <1>6 DEF Outb, InInit, OutInv
  <2>2. p[c][Done(p, c) + 1].op = "init"
    BY <1>6, <2>1, CurrentCall DEF InInit
  <2>3. ASSUME NEW i \in DOMAIN p[c], p[c][i].op # "init", NEW l
        PROVE  Pending(p, c, i, l)' => Pending(p, c, i, l)
    BY <2>1, <2>2, <2>3, Zenon DEF Pending, Done
  <2> QED
    BY <1>1, <2>1, <2>3, Zenon
<1>7. CASE Outb(c) /\ ~InInit(c)
  <2>1. PICK i \in DOMAIN p[c] : \E l \in DOMAIN p[c][i].text : WritesChar(p, c, i, l)
    BY <1>7, OutbChar
  <2>2. PICK l \in DOMAIN p[c][i].text :
           /\ i = Done(p, c) + 1 /\ p[c][i].op # "init"
           /\ l = Len(p[c][i].text) - Len(out[c]) + 1
           /\ Len(out'[c]) = Len(out[c]) - 1
           /\ p[c][i].text[l] \in Chars
           /\ written' = Append(written, p[c][i].text[l])
    BY <2>1, Zenon DEF WritesChar
  <2>3. calls' = calls /\ state' = state /\ state[c] = "writing"
    BY <1>7 DEF Outb
  <2>4. i \in Int /\ l \in Int /\ Len(p[c][i].text) \in Nat
    <3>1. p[c] \in Seq(Call) /\ p[c][i] \in Call
      OBVIOUS
    <3>2. p[c][i].text \in Seq(Chars)
      BY <3>1, Zenon DEF Call
    <3> QED
      BY <3>1, <3>2
  <2>5. ASSUME NEW j \in DOMAIN p[c], NEW k \in DOMAIN p[c][j].text,
               p[c][j].op # "init", Pending(p, c, j, k)'
        PROVE  Pending(p, c, j, k) /\ p[c][i].text[l] < p[c][j].text[k]
    <3>1. j \in Int /\ k \in Int
      <4>1. p[c] \in Seq(Call) /\ p[c][j] \in Call
        OBVIOUS
      <4>2. p[c][j].text \in Seq(Chars)
        BY <4>1 DEF Call
      <4> QED
        BY <4>1, <4>2
    <3>2. j > i \/ (j = i /\ k > l)
      <4>1. Done(p, c)' = Done(p, c)
        BY <2>3 DEF Done
      <4>2. j > i \/ (j = i /\ k > Len(p[c][j].text) - Len(out'[c]))
        BY <2>2, <2>3, <2>5, <4>1, Zenon DEF Pending
      <4>3. ASSUME NEW a \in Nat, NEW b \in Nat, NEW e, k > a - e, e = b - 1
            PROVE  k > a - b + 1
        BY <3>1, <4>3
      <4>4. j = i /\ k > Len(p[c][j].text) - Len(out'[c]) => k > l
        BY <1>0, <2>2, <2>4, <4>3, Zenon
      <4> QED
        BY <4>2, <4>4, Zenon
    <3>3. Pending(p, c, j, k)
      <4>1. CASE j > i
        BY <2>2, <4>1, Zenon DEF Pending
      <4>2. CASE j = i /\ k > l
        <5>1. ASSUME NEW a \in Nat, NEW b \in Nat, k > a - b + 1
              PROVE  k > a - b
          BY <3>1, <5>1
        <5>2. k > Len(p[c][j].text) - Len(out[c])
          BY <1>0, <2>2, <2>4, <4>2, <5>1, Zenon
        <5> QED
          BY <2>2, <4>2, <5>2, Zenon DEF Pending
      <4> QED
        BY <3>2, <4>1, <4>2
    <3>4. p[c][i].text[l] < p[c][j].text[k]
      <4>1. i < j \/ (i = j /\ l < k)
        BY <2>4, <3>1, <3>2
      <4> QED
        BY <2>2, <2>5, <4>1, Zenon DEF Ascending
    <3> QED
      BY <3>3, <3>4, Zenon
  <2>6. PICK v \in Chars : v = p[c][i].text[l]
    BY <2>2, Zenon
  <2>7. /\ written' = Append(written, v)
        /\ \A j \in DOMAIN p[c] : p[c][j].op # "init" =>
             \A k \in DOMAIN p[c][j].text :
               Pending(p, c, j, k)' => Pending(p, c, j, k) /\ v < p[c][j].text[k]
    BY <2>2, <2>5, <2>6, Zenon
  <2>8. \A n \in DOMAIN written' : (n \in DOMAIN written /\ written'[n] = written[n]) \/ written'[n] = v
    BY <2>7, SentType
  <2> QED
    BY <2>7, <2>8 DEF Ahead
<1>8. CASE Transmit
  <2>1. ASSUME NEW i, NEW l
        PROVE  Pending(p, c, i, l)' => Pending(p, c, i, l)
    BY <1>8, Zenon DEF Transmit, Pending, Done
  <2> QED
    BY <1>1, <1>8, <2>1 DEF Transmit
<1>9. CASE UNCHANGED vars
  <2>1. ASSUME NEW i, NEW l
        PROVE  Pending(p, c, i, l)' => Pending(p, c, i, l)
    BY <1>9, Zenon DEF vars, Pending, Done
  <2> QED
    BY <1>1, <1>9, <2>1 DEF vars
<1> QED
  BY <1>2, <1>3, <1>4, <1>5, <1>6, <1>7, <1>8, <1>9, OnlyCore, Zenon DEF Next, Step

LEMMA TextStep ==
  ASSUME NEW p \in [Cores -> Seq(Call)], Exclusive(p), Ascending(p),
         TypeOK, OutInv, CallsInv(p), NEW c \in Cores, HasText(p, c),
         TextInv(p, c), [Next]_vars
  PROVE  TextInv(p, c)'
<1>inv. /\ Ordered(Sent) /\ From(Sent, written) /\ Ahead(p, c)
        /\ InInit(c) /\ Len(out[c]) \in 4 .. 6 => uart.lcr = 128
  BY DEF TextInv
<1>0. Ahead(p, c)'
  BY AheadStep, <1>inv
<1>types. line \in Seq(Int) /\ uart.fifo \in Seq(Int) /\ Sent \in Seq(Int) /\ written \in Seq(Int)
  BY SentType
<1>1. ASSUME UNCHANGED <<line, uart, written>>,
             InInit(c)' => ~(Len(out'[c]) \in 4 .. 6)
      PROVE  TextInv(p, c)'
  <2>1. Sent' = Sent /\ written' = written
    BY <1>1 DEF Sent
  <2> QED
    BY <1>0, <1>1, <2>1, <1>inv DEF TextInv
<1>2. CASE Lock(c)
  BY <1>1, <1>2 DEF Lock, Enter, TypeOK, InInit
<1>3. CASE DropGuard(c)
  <2>1. InInit(c)' => ~(Len(out'[c]) \in 4 .. 6)
    <3>1. InInit(c)' => Len(out'[c]) = 8
      BY <1>3, InitWritesType DEF DropGuard, Enter, TypeOK, InInit, Writes
    <3>2. ~(8 \in 4 .. 6)
      OBVIOUS
    <3> QED
      BY <3>1, <3>2, Zenon
  <2> QED
    BY <1>1, <1>3, <2>1 DEF DropGuard
<1>4. CASE Poll(c)
  <2>1. ~InInit(c)'
    BY <1>4 DEF Poll, Enter, TypeOK, InInit, OutInv
  <2> QED
    BY <1>1, <1>4, <2>1 DEF Poll
<1>5. CASE Return(c)
  BY <1>1, <1>5, Zenon DEF Return, Enter, TypeOK, InInit
<1>6. CASE Outb(c) /\ InInit(c)
  <2>1. PICK k \in 1 .. 8 : k = Len(out[c])
    BY <1>6, NextInit, Zenon DEF Outb
  <2>2. Head(out[c]) = InitWrites[9 - k] /\ Len(out'[c]) = k - 1
    BY <1>6, <2>1, NextInit, Zenon DEF Outb, TypeOK
  <2>3. Stores(uart, Head(out[c])[1], Head(out[c])[2], uart')
    BY <1>6, OutbStores
  <2>4. line' = line /\ written' = written
    BY <1>6 DEF Outb, InInit
  <2>5. k \in 4 .. 6 => uart.lcr = 128
    BY <1>6, <2>1, <1>inv, Zenon
  <2>6. Stores(uart, InitWrites[9 - k][1], InitWrites[9 - k][2], uart')
    BY <2>2, <2>3, Zenon
  <2>7. /\ k - 1 \in 4 .. 6 => uart'.lcr = 128
        /\ uart'.fifo = uart.fifo \/ uart'.fifo = <<>>
    <3>1. CASE k = 8
      BY <2>6, <3>1 DEF InitWrites, Stores
    <3>2. CASE k = 7
      BY <2>6, <3>2 DEF InitWrites, Stores
    <3>3. CASE k = 6
      BY <2>5, <2>6, <3>3 DEF InitWrites, Stores, Dlab
    <3>4. CASE k = 5
      BY <2>5, <2>6, <3>4, SMTT(40) DEF InitWrites, Stores
    <3>5. CASE k \in 1 .. 4
      BY <2>6, <3>5, SMTT(40) DEF InitWrites, Stores
    <3> QED
      BY <3>1, <3>2, <3>3, <3>4, <3>5
  <2>8. Ordered(Sent)' /\ From(Sent, written)'
    <3>1. CASE uart'.fifo = uart.fifo
      BY <2>4, <3>1, <1>inv DEF Sent
    <3>2. CASE uart'.fifo = <<>>
      <4>1. Ordered(line \o <<>>) /\ From(line \o <<>>, written)
        BY <1>types, <1>inv, OrderedClear DEF Sent
      <4> QED
        BY <2>4, <3>2, <4>1 DEF Sent
    <3> QED
      BY <2>7, <3>1, <3>2, Zenon
  <2> QED
    BY <1>0, <2>2, <2>7, <2>8, Zenon DEF TextInv
<1>7. CASE Outb(c) /\ ~InInit(c)
  <2>1. PICK i \in DOMAIN p[c] : \E l \in DOMAIN p[c][i].text : WritesChar(p, c, i, l)
    BY <1>7, OutbChar
  <2>2. PICK l \in DOMAIN p[c][i].text : WritesChar(p, c, i, l)
    BY <2>1
  <2>3. PICK v \in Chars :
          /\ v = p[c][i].text[l]
          /\ written' = Append(written, v) /\ Stores(uart, 0, v, uart')
    BY <2>2, Zenon DEF WritesChar
  <2>4. \A n \in DOMAIN written : written[n] < v
    <3>1. Pending(p, c, i, l)
      <4>1. i = Done(p, c) + 1 /\ l = Len(p[c][i].text) - Len(out[c]) + 1
        BY <2>2, Zenon DEF WritesChar
      <4>2. Len(p[c][i].text) \in Nat /\ Len(out[c]) \in Nat
        <5>1. p[c] \in Seq(Call) /\ p[c][i] \in Call
          OBVIOUS
        <5>2. p[c][i].text \in Seq(Chars) /\ out[c] \in Seq(Write)
          BY <5>1, OutType DEF Call
        <5> QED
          BY <5>2, SequenceOf
      <4>3. \A a, b \in Nat : a - b + 1 > a - b
        OBVIOUS
      <4> QED
        BY <4>1, <4>2, <4>3, Zenon DEF Pending
    <3>2. p[c][i].op # "init"
      BY <2>2, Zenon DEF WritesChar
    <3> QED
      BY <2>3, <3>1, <3>2, <1>inv DEF Ahead
  <2>5. v \in Int /\ line' = line /\ ~InInit(c)'
    BY <1>7 DEF Chars, Outb, InInit
  <2>6. uart'.fifo = uart.fifo \/ uart'.fifo = Append(uart.fifo, v)
    BY <2>3 DEF Stores
  <2>7. /\ Ordered(Append(Sent, v)) /\ From(Append(Sent, v), Append(written, v))
        /\ From(Sent, Append(written, v))
    BY <1>types, <1>inv, <2>4, <2>5, OrderedAppend
  <2>8. line \o Append(uart.fifo, v) = Append(Sent, v)
    BY <1>types, <2>5, SentAppend, Zenon DEF Sent
  <2>9. Sent' = Sent \/ Sent' = Append(Sent, v)
    BY <2>5, <2>6, <2>8, ZenonT(60) DEF Sent
  <2> QED
    BY <1>0, <1>inv, <2>3, <2>5, <2>7, <2>9, Zenon DEF TextInv
<1>8. CASE Transmit
  <2>1. uart'.fifo = Tail(uart.fifo) /\ uart'.lcr = uart.lcr /\ uart.fifo # <<>>
    BY <1>8, TransmitFields
  <2>2. PICK v \in {Head(uart.fifo), -1} : line' = Append(line, v)
    BY <1>8 DEF Transmit
  <2>3. /\ Ordered(Append(line, v) \o Tail(uart.fifo))
        /\ From(Append(line, v) \o Tail(uart.fifo), written)
    BY <1>types, <1>inv, <2>1, OrderedShift DEF Sent
  <2>4. Sent' = Append(line, v) \o Tail(uart.fifo)
    BY <2>1, <2>2, Zenon DEF Sent
  <2>5. UNCHANGED <<calls, state, out, written>>
    BY <1>8 DEF Transmit
  <2> QED
    BY <1>0, <1>inv, <2>1, <2>3, <2>4, <2>5, Zenon DEF InInit, TextInv
<1>9. CASE UNCHANGED vars
  BY <1>0, <1>9, <1>inv DEF vars, Sent, InInit, TextInv
<1>10. CASE Rendezvous(c)
  BY <1>1, <1>10, Zenon DEF Rendezvous, Waits, InInit
<1> QED
  BY <1>2, <1>3, <1>4, <1>5, <1>6, <1>7, <1>8, <1>9, <1>10, OnlyCore DEF Next, Step

LEMMA WrittenStep ==
  ASSUME NEW p \in [Cores -> Seq(Call)], TypeOK, OutInv, CallsInv(p), WrittenOf(p), [Next]_vars
  PROVE  WrittenOf(p)'
<1>1. ASSUME NEW c \in Cores, Outb(c), ~InInit(c)
      PROVE  WrittenOf(p)'
  <2>1. PICK i \in DOMAIN p[c] : \E l \in DOMAIN p[c][i].text : WritesChar(p, c, i, l)
    BY <1>1, OutbChar
  <2>2. HasText(p, c)
    BY <2>1, Zenon DEF WritesChar, HasText
  <2> QED
    BY <2>2 DEF WrittenOf
<1>2. CASE written' = written
  BY <1>2 DEF WrittenOf
<1>3. ASSUME NEW c \in Cores, Outb(c), InInit(c)
      PROVE  written' = written
  BY <1>3 DEF Outb, InInit
<1> QED
  BY <1>1, <1>2, <1>3 DEF Next, Step, Lock, DropGuard, Poll, Return, Rendezvous, Transmit, vars

(* What is legible on the line, and in the FIFO, is the text in order      *)
(* (TextInOrder is about programs in which a core that writes a text is    *)
(* alone): an init between two texts, for any  *)
(* texts and any size of the FIFO, puts nothing on the line and changes    *)
(* the order of nothing.                                                   *)
THEOREM TextIsInOrder ==
  ASSUME \A p \in Programs : Ascending(p)
  PROVE  Spec => []TextInOrder
<1>1. Init => OrderInv
  <2> SUFFICES ASSUME Init
               PROVE  OrderInv
    OBVIOUS
  <2>1. PICK p \in Programs : p = program /\ CallsInv(p)
    BY InitReg
  <2>2. written = <<>> /\ Sent = <<>> /\ \A c \in Cores : ~InInit(c)
    BY DEF Init, Sent, Reset, InInit
  <2>3. WrittenOf(p)
    BY <2>2 DEF WrittenOf
  <2>4. Ordered(<<>>) /\ From(<<>>, <<>>)
    BY DEF Ordered, From
  <2>5. \A c \in Cores : TextInv(p, c)
    <3>1. DOMAIN written = {}
      BY <2>2
    <3>2. \A c \in Cores : Ahead(p, c)
      BY <3>1, Zenon DEF Ahead
    <3>3. Ordered(Sent) /\ From(Sent, written)
      BY <2>2, <2>4
    <3> QED
      BY <2>2, <3>2, <3>3, Zenon DEF TextInv
  <2> QED
    BY <2>1, <2>3, <2>5, InitType, SMTT(30) DEF OrderInv
<1>2. OrderInv /\ [Next]_vars => OrderInv'
  <2> SUFFICES ASSUME OrderInv, [Next]_vars
               PROVE  OrderInv'
    OBVIOUS
  <2>1. PICK p \in Programs :
          /\ p = program /\ CallsInv(p) /\ WrittenOf(p)
          /\ Exclusive(p) => \A c \in Cores : HasText(p, c) => TextInv(p, c)
    BY DEF OrderInv
  <2>2. TypeOK /\ OutInv /\ p \in [Cores -> Seq(Call)]
    BY SerialAssumption DEF OrderInv
  <2>3. TypeOK' /\ OutInv'
    BY <2>2, StepType
  <2>4. CallsInv(p)' /\ WrittenOf(p)'
    BY <2>1, <2>2, CallsStep, WrittenStep
  <2>5. ASSUME Exclusive(p), NEW c \in Cores, HasText(p, c)
        PROVE  TextInv(p, c)'
    BY <2>1, <2>2, <2>5, TextStep
  <2>6. p = program'
    BY <2>1, SameProgram
  <2> QED
    BY <2>3, <2>4, <2>5, <2>6 DEF OrderInv
<1>3. OrderInv => TextInOrder
  <2> SUFFICES ASSUME OrderInv, Exclusive(program), written # <<>>
               PROVE  /\ \A i, j \in Legible : i < j => Sent[i] < Sent[j]
                      /\ \A i \in Legible : \E j \in DOMAIN written : written[j] = Sent[i]
    BY DEF TextInOrder
  <2>1. Ordered(Sent) /\ From(Sent, written)
    BY Zenon DEF OrderInv, WrittenOf, TextInv
  <2> QED
    BY <2>1 DEF Ordered, From, Legible
<1> QED
  BY <1>1, <1>2, <1>3, PTL DEF Spec

-----------------------------------------------------------------------------
(* write_char, behind the barrier of the test. *)
Meets(s) == \E i \in DOMAIN s : s[i].op = "rendezvous"

LEMMA MeetsTail ==
  ASSUME NEW s \in Seq(Call), s # <<>>
  PROVE  Meets(s) <=> Head(s).op = "rendezvous" \/ Meets(Tail(s))
<1>1. Len(s) \in Nat \ {0} /\ DOMAIN s = 1 .. Len(s) /\ Head(s) = s[1]
  OBVIOUS
<1>2. DOMAIN Tail(s) = 1 .. Len(s) - 1 /\ \A i \in 1 .. Len(s) - 1 : Tail(s)[i] = s[i + 1]
  OBVIOUS
<1>3. ASSUME NEW i \in DOMAIN s, s[i].op = "rendezvous", Head(s).op # "rendezvous"
      PROVE  Meets(Tail(s))
  <2>1. i # 1 /\ i - 1 \in 1 .. Len(s) - 1 /\ (i - 1) + 1 = i
    BY <1>1, <1>3
  <2>2. Tail(s)[i - 1] = s[i]
    BY <1>2, <2>1
  <2> QED
    BY <1>2, <1>3, <2>1, <2>2, Zenon DEF Meets
<1>4. ASSUME NEW i \in DOMAIN Tail(s), Tail(s)[i].op = "rendezvous"
      PROVE  Meets(s)
  <2>1. i + 1 \in DOMAIN s /\ s[i + 1] = Tail(s)[i]
    BY <1>1, <1>2
  <2> QED
    BY <1>4, <2>1, Zenon DEF Meets
<1>5. Head(s).op = "rendezvous" => Meets(s)
  <2>1. 1 \in DOMAIN s
    BY <1>1
  <2> QED
    BY <1>1, <2>1, Zenon DEF Meets
<1> QED
  BY <1>3, <1>4, <1>5, Zenon DEF Meets

(* A core comes to the barrier at most once. *)
MeetsOnce(s) ==
  \A i, j \in DOMAIN s : s[i].op = "rendezvous" /\ s[j].op = "rendezvous" => i = j

(* What is known of the current call of a core. *)
Late(p, w, c) ==
  /\ p[c] # <<>>
  /\ ~Awaited(c) => c = w /\ Head(calls[c]).op # "init"
  /\ Head(calls[c]).op = "rendezvous" => ~Meets(Tail(calls[c]))
  /\ Head(calls[c]).op = "write_char" => ~Awaited(c) /\ Len(Head(calls[c]).text) = 1
  /\ Head(calls[c]).op = "write_str" =>
       \A k \in DOMAIN Head(calls[c]).text : ~Polled(p, Head(calls[c]).text[k])

LEMMA LateCall ==
  ASSUME NEW p \in [Cores -> Seq(Call)], \A c \in Cores : MeetsOnce(p[c]),
         NEW w, AloneBehind(p, w), TypeOK, CallsInv(p), NEW c \in Cores, calls[c] # <<>>
  PROVE  Late(p, w, c)
<1>1. calls[c] \in Seq(Call) /\ p[c] \in Seq(Call)
  BY DEF TypeOK
<1>2. PICK n \in Nat : n = Done(p, c)
  BY CurrentCall, Zenon
<1>3. n + 1 \in DOMAIN p[c] /\ Head(calls[c]) = p[c][n + 1]
  BY <1>2, CurrentCall, Zenon
<1>4. Len(p[c]) \in Nat /\ Len(calls[c]) \in Nat \ {0} /\ n = Len(p[c]) - Len(calls[c])
  BY <1>1, <1>2 DEF Done
<1>5. DOMAIN p[c] = 1 .. Len(p[c]) /\ DOMAIN calls[c] = 1 .. Len(calls[c])
  BY <1>1
<1>6. \A i \in DOMAIN calls[c] : calls[c][i] = p[c][n + i]
  BY <1>4, <1>5, Zenon DEF CallsInv, EndOf
<1>7. p[c] # <<>>
  BY <1>3, <1>5
<1>m. PICK m \in Nat \ {0} : m = Len(calls[c]) /\ Len(p[c]) = n + m
  BY <1>2, <1>4
<1>d. DOMAIN calls[c] = 1 .. m /\ DOMAIN p[c] = 1 .. (n + m)
  BY <1>5, <1>m, Zenon
<1>8. PICK r \in DOMAIN p[c] :
        /\ p[c][r].op = "rendezvous"
        /\ \A i \in DOMAIN p[c] :
             /\ i > r => c = w /\ p[c][i].op # "init"
             /\ p[c][i].op = "write_char" => i > r /\ Len(p[c][i].text) = 1
             /\ p[c][i].op = "write_str" =>
                  \A k \in DOMAIN p[c][i].text : ~Polled(p, p[c][i].text[k])
  BY <1>7, Zenon DEF AloneBehind
<1>9. \A i \in DOMAIN calls[c] : calls[c][i].op = "rendezvous" => n + i = r
  <2> SUFFICES ASSUME NEW i \in DOMAIN calls[c], calls[c][i].op = "rendezvous"
               PROVE  n + i = r
    OBVIOUS
  <2>1. n + i \in DOMAIN p[c]
    <3>1. \A j \in 1 .. m : n + j \in 1 .. (n + m)
      BY <1>2, <1>m
    <3> QED
      BY <1>d, <3>1, Zenon
  <2> QED
    BY <1>6, <1>8, <2>1, Zenon DEF MeetsOnce
<1>10. ~Awaited(c) => n + 1 > r
  <2> SUFFICES ASSUME ~(n + 1 > r)
               PROVE  Awaited(c)
    BY Zenon
  <2>1. r - n \in DOMAIN calls[c] /\ n + (r - n) = r
    <3>1. \A j \in 1 .. (n + m) : ~(n + 1 > j) => j - n \in 1 .. m /\ n + (j - n) = j
      BY <1>2, <1>m
    <3> QED
      BY <1>d, <3>1, Zenon
  <2>2. calls[c][r - n] = p[c][r]
    BY <1>6, <2>1
  <2> QED
    BY <1>8, <2>1, <2>2, Zenon DEF Awaited
<1>11. n + 1 > r => ~Awaited(c)
  <2> SUFFICES ASSUME n + 1 > r, NEW i \in DOMAIN calls[c], calls[c][i].op = "rendezvous"
               PROVE  FALSE
    BY Zenon DEF Awaited
  <2>1. n + i = r /\ i >= 1 /\ i \in Int
    BY <1>5, <1>9
  <2> QED
    BY <1>2, <2>1
<1>12. Head(calls[c]).op = "rendezvous" => ~Meets(Tail(calls[c]))
  <2> SUFFICES ASSUME Head(calls[c]).op = "rendezvous", NEW i \in DOMAIN Tail(calls[c]),
                      Tail(calls[c])[i].op = "rendezvous"
               PROVE  FALSE
    BY Zenon DEF Meets
  <2>1. /\ i + 1 \in DOMAIN calls[c] /\ calls[c][i + 1] = Tail(calls[c])[i]
        /\ 1 \in DOMAIN calls[c] /\ calls[c][1] = Head(calls[c]) /\ i \in Nat \ {0}
    BY <1>1, TailIndex, Zenon
  <2>2. n + (i + 1) = r /\ n + 1 = r
    BY <1>9, <2>1
  <2> QED
    BY <1>2, <2>1, <2>2
<1> QED
  BY <1>3, <1>7, <1>8, <1>10, <1>11, <1>12, Zenon DEF Late

(* Behind the barrier: nobody is through it while somebody is still on the *)
(* way to it.                                                              *)
Through(p, c) == p[c] # <<>> /\ ~Awaited(c)

MeetInv(p) ==
  /\ \A c, d \in Cores : Through(p, c) /\ Awaited(d) => Waits(d)
  /\ \A c \in Cores : state[c] # "idle" => Head(calls[c]).op # "rendezvous"

(* DLAB is set only while some core is between two of the writes of init. *)
LatchInv == Dlab(uart) => \E c \in Cores : InInit(c) /\ Len(out[c]) \in 4 .. 6

(* A core is past the poll of write_char. *)
Polls(c) == state[c] = "writing" /\ Head(calls[c]).op = "write_char" /\ out[c] # <<>>

PollInv(p) ==
  /\ \A c \in Cores : Polls(c) => uart.fifo = <<>>
  /\ \A i \in DOMAIN uart.fifo : Polled(p, uart.fifo[i]) => \E c \in Cores : Through(p, c)

(* Once somebody is through, the only core in a call is w. *)
LEMMA OnlyLeader ==
  ASSUME NEW p \in [Cores -> Seq(Call)], NEW w, TypeOK, OutInv, MeetInv(p),
         \A c \in Cores : calls[c] # <<>> => Late(p, w, c),
         NEW c \in Cores, Through(p, c), NEW d \in Cores, state[d] # "idle"
  PROVE  d = w /\ Head(calls[d]).op # "init" /\ Through(p, d)
<1>1. calls[d] # <<>>
  BY Zenon DEF OutInv
<1>2. ~Awaited(d)
  BY Zenon DEF MeetInv, Waits
<1> QED
  BY <1>1, <1>2, Zenon DEF Late, Through

(* What a step of c does to the way to the barrier. *)
LEMMA AwaitedStep ==
  ASSUME NEW p \in [Cores -> Seq(Call)], NEW w, TypeOK, OutInv, MeetInv(p),
         \A c \in Cores : calls[c] # <<>> => Late(p, w, c), [Next]_vars
  PROVE  /\ \A d \in Cores : Awaited(d)' => Awaited(d)
         /\ \A d \in Cores : ~Rendezvous(d) /\ Awaited(d) => Awaited(d)'
         /\ \A d \in Cores : Rendezvous(d) => ~Awaited(d)'
<1>1. ASSUME NEW c \in Cores, Return(c) \/ Rendezvous(c)
      PROVE  /\ calls[c] \in Seq(Call) /\ calls[c] # <<>>
             /\ calls' = [calls EXCEPT ![c] = Tail(calls[c])]
             /\ calls'[c] = Tail(calls[c]) /\ \A d \in Cores \ {c} : calls'[d] = calls[d]
             /\ Return(c) => Head(calls[c]).op # "rendezvous"
             /\ Rendezvous(c) => Head(calls[c]).op = "rendezvous"
  BY <1>1, CallsType DEF Return, Rendezvous, Waits, OutInv, MeetInv, TypeOK
<1>2. ASSUME NEW c \in Cores, Return(c)
      PROVE  ~Rendezvous(c)
  BY <1>2 DEF Return, Rendezvous, Waits
<1>3. ASSUME NEW c \in Cores, Rendezvous(c), NEW d \in Cores, Rendezvous(d)
      PROVE  c = d
  <2> SUFFICES ASSUME c # d
               PROVE  FALSE
    OBVIOUS
  <2>1. calls[c] \in Seq(Call) /\ calls[c] # <<>> /\ calls'[c] = Tail(calls[c]) /\ calls'[c] = calls[c]
    BY <1>1, <1>3
  <2> QED
    BY <2>1, TailDiffers, Zenon
<1>4. ASSUME NEW c \in Cores, Return(c) \/ Rendezvous(c)
      PROVE  /\ \A d \in Cores : Awaited(d)' => Awaited(d)
             /\ \A d \in Cores \ {c} : Awaited(d) => Awaited(d)'
             /\ Return(c) /\ Awaited(c) => Awaited(c)'
             /\ Rendezvous(c) => ~Awaited(c)'
  <2>1. Meets(calls[c]) <=> Head(calls[c]).op = "rendezvous" \/ Meets(Tail(calls[c]))
    BY <1>1, <1>4, MeetsTail
  <2>2. \A d \in Cores : (Awaited(d) <=> Meets(calls[d])) /\ (Awaited(d)' <=> Meets(calls'[d]))
    BY Zenon DEF Awaited, Meets
  <2>3. Rendezvous(c) => ~Meets(Tail(calls[c]))
    BY <1>1, <1>4, Zenon DEF Late
  <2> QED
    BY <1>1, <1>4, <2>1, <2>2, <2>3, Zenon
<1>5. ASSUME NEW c \in Cores, Rendezvous(c)
      PROVE  calls' # calls
  <2>1. calls[c] \in Seq(Call) /\ calls[c] # <<>> /\ calls'[c] = Tail(calls[c])
    BY <1>1, <1>5
  <2> QED
    BY <2>1, TailDiffers, Zenon
<1>6. CASE calls' = calls
  BY <1>5, <1>6, Zenon DEF Awaited
<1>7. ASSUME NEW c \in Cores, Return(c)
      PROVE  \A d \in Cores : ~Rendezvous(d)
  <2> SUFFICES ASSUME NEW d \in Cores, Rendezvous(d)
               PROVE  FALSE
    OBVIOUS
  <2>1. state'[c] = "idle" /\ state[c] = "writing"
    BY <1>7 DEF Return, Enter, TypeOK
  <2>2. state' = state
    BY DEF Rendezvous
  <2> QED
    BY <2>1, <2>2
<1>8. CASE \E c \in Cores : Return(c)
  BY <1>4, <1>7, <1>8, Zenon
<1>9. CASE \E c \in Cores : Rendezvous(c)
  BY <1>3, <1>4, <1>9, Zenon
<1> QED
  BY <1>6, <1>8, <1>9, Zenon DEF Next, Step, Lock, DropGuard, Poll, Outb, Transmit, vars

LEMMA MeetStep ==
  ASSUME NEW p \in [Cores -> Seq(Call)], NEW w, TypeOK, OutInv, MeetInv(p),
         \A c \in Cores : calls[c] # <<>> => Late(p, w, c), [Next]_vars
  PROVE  MeetInv(p)' /\ \A c \in Cores : Through(p, c) => Through(p, c)'
<1>1. /\ \A d \in Cores : Awaited(d)' => Awaited(d)
      /\ \A d \in Cores : ~Rendezvous(d) /\ Awaited(d) => Awaited(d)'
      /\ \A d \in Cores : Rendezvous(d) => ~Awaited(d)'
  BY AwaitedStep, Zenon
<1>2. \A c \in Cores : Through(p, c) => Through(p, c)'
  BY <1>1, Zenon DEF Through
<1>3. ASSUME NEW c \in Cores, Through(p, c)', NEW d \in Cores, Awaited(d)'
      PROVE  Waits(d)
  <2>1. CASE Rendezvous(c)
    BY <1>1, <1>3, <2>1, Zenon DEF Rendezvous
  <2>2. CASE ~Rendezvous(c)
    BY <1>1, <1>3, <2>2, Zenon DEF MeetInv, Through
  <2> QED
    BY <2>1, <2>2
<1>4. ASSUME NEW d \in Cores, Awaited(d)', Waits(d)
      PROVE  Waits(d)'
  <2>1. ~Rendezvous(d) /\ ~Lock(d) /\ ~DropGuard(d) /\ ~Poll(d) /\ ~Outb(d) /\ ~Return(d)
    BY <1>1, <1>4, Zenon DEF Waits, Lock, DropGuard, Poll, Outb, Return
  <2>2. ASSUME NEW c \in Cores, Step(c)
        PROVE  state'[d] = state[d] /\ calls'[d] = calls[d]
    <3>1. c # d
      BY <2>1, <2>2, Zenon DEF Step
    <3> QED
      BY <2>2, <3>1, <2>1, Zenon
         DEF Step, Lock, DropGuard, Poll, Outb, Return, Rendezvous, Enter, TypeOK
  <2>3. state'[d] = state[d] /\ calls'[d] = calls[d]
    BY <2>2 DEF Next, Transmit, vars
  <2> QED
    BY <1>4, <2>3, Zenon DEF Waits
<1>5. ASSUME NEW c \in Cores, state'[c] # "idle"
      PROVE  Head(calls'[c]).op # "rendezvous"
  <2>1. CASE state[c] # "idle" /\ calls'[c] = calls[c]
    BY <2>1, Zenon DEF MeetInv
  <2>2. CASE Lock(c)
    BY <2>2, Zenon DEF Lock
  <2>3. CASE Return(c) \/ Rendezvous(c)
    BY <1>5, <2>3 DEF Return, Rendezvous, Waits, Enter, TypeOK
  <2>4. CASE DropGuard(c) \/ Poll(c) \/ Outb(c)
    BY <2>1, <2>4, Zenon DEF DropGuard, Poll, Outb
  <2>5. ASSUME NEW d \in Cores \ {c}, Step(d)
        PROVE  state'[c] = state[c] /\ calls'[c] = calls[c]
    BY <2>5 DEF Step, Lock, DropGuard, Poll, Outb, Return, Rendezvous, Enter, TypeOK
  <2>6. CASE Transmit \/ UNCHANGED vars
    BY <1>5, <2>1, <2>6 DEF Transmit, vars
  <2>7. CASE Step(c)
    BY <2>2, <2>3, <2>4, <2>7, Zenon DEF Step
  <2>8. ASSUME NEW d \in Cores \ {c}, Step(d)
        PROVE  Head(calls'[c]).op # "rendezvous"
    <3>1. state'[c] = state[c] /\ calls'[c] = calls[c]
      BY <2>5, <2>8, Zenon
    <3>2. state[c] # "idle"
      BY <1>5, <3>1, Zenon
    <3> QED
      BY <2>1, <3>1, <3>2, Zenon
  <2> QED
    BY <2>6, <2>7, <2>8, Zenon DEF Next
<1> QED
  BY <1>2, <1>3, <1>4, <1>5, Zenon DEF MeetInv

LEMMA LatchStep ==
  ASSUME TypeOK, OutInv, LatchInv, [Next]_vars
  PROVE  LatchInv'
<1>1. ASSUME NEW c \in Cores, InInit(c), Len(out[c]) \in 4 .. 6,
             state'[c] = state[c], calls'[c] = calls[c], out'[c] = out[c]
      PROVE  LatchInv'
  BY <1>1, Zenon DEF LatchInv, InInit
<1>2. ASSUME NEW c \in Cores, Step(c), NEW d \in Cores \ {c}
      PROVE  state'[d] = state[d] /\ calls'[d] = calls[d] /\ out'[d] = out[d]
  BY <1>2 DEF Step, Lock, DropGuard, Poll, Outb, Return, Rendezvous, Enter, TypeOK
<1>3. ASSUME NEW c \in Cores, Step(c), uart'.lcr = uart.lcr,
             ~InInit(c) \/ ~(Len(out[c]) \in 4 .. 6)
      PROVE  LatchInv'
  <2> SUFFICES ASSUME Dlab(uart')
               PROVE  LatchInv'
    BY Zenon DEF LatchInv
  <2>1. Dlab(uart)
    BY <1>3 DEF Dlab
  <2>2. PICK d \in Cores : InInit(d) /\ Len(out[d]) \in 4 .. 6
    BY <2>1, Zenon DEF LatchInv
  <2>3. d # c
    BY <1>3, <2>2, Zenon
  <2> QED
    BY <1>1, <1>2, <1>3, <2>2, <2>3, Zenon
<1>4. ASSUME NEW c \in Cores, Lock(c) \/ DropGuard(c) \/ Poll(c) \/ Return(c) \/ Rendezvous(c)
      PROVE  LatchInv'
  <2>1. uart' = uart
    BY <1>4 DEF Lock, DropGuard, Poll, Return, Rendezvous
  <2>2. ~InInit(c) \/ ~(Len(out[c]) \in 4 .. 6)
    <3>1. CASE Return(c)
      <4>1. out[c] = <<>>
        BY <3>1, Zenon DEF Return
      <4> QED
        BY <4>1
    <3>2. CASE ~Return(c)
      BY <1>4, <3>2, Zenon DEF Lock, DropGuard, Poll, Rendezvous, Waits, InInit
    <3> QED
      BY <3>1, <3>2
  <2> QED
    BY <1>3, <1>4, <2>1, <2>2, Zenon DEF Step
<1>5. ASSUME NEW c \in Cores, Outb(c), ~InInit(c)
      PROVE  LatchInv'
  <2>1. Head(out[c])[1] = 0
    BY <1>5, NextChar, Zenon DEF Outb, InInit
  <2>2. Stores(uart, 0, Head(out[c])[2], uart')
    BY <1>5, <2>1, OutbStores
  <2>3. uart'.lcr = uart.lcr
    BY <2>2 DEF Stores
  <2> QED
    BY <1>3, <1>5, <2>3, Zenon DEF Step
<1>6. ASSUME NEW c \in Cores, Outb(c), InInit(c)
      PROVE  LatchInv'
  <2>1. PICK k \in 1 .. 8 : k = Len(out[c])
    BY <1>6, NextInit, Zenon DEF Outb
  <2>2. Head(out[c]) = InitWrites[9 - k] /\ Len(out'[c]) = k - 1
    BY <1>6, <2>1, NextInit, Zenon DEF Outb, TypeOK
  <2>3. Stores(uart, InitWrites[9 - k][1], InitWrites[9 - k][2], uart')
    BY <1>6, <2>2, OutbStores, Zenon
  <2>4. InInit(c)'
    BY <1>6, Zenon DEF Outb, InInit
  <2>5. CASE k \in 5 .. 7
    <3>1. Len(out'[c]) \in 4 .. 6
      BY <2>2, <2>5
    <3> QED
      BY <2>4, <3>1, Zenon DEF LatchInv
  <2>6. CASE k = 4
    <3>1. uart'.lcr = 3
      BY <2>3, <2>6 DEF InitWrites, Stores
    <3> QED
      BY <3>1 DEF LatchInv, Dlab
  <2>7. CASE k \in {1, 2, 3, 8}
    <3>1. uart'.lcr = uart.lcr
      BY <2>3, <2>7 DEF InitWrites, Stores
    <3>2. ~(Len(out[c]) \in 4 .. 6)
      <4>1. \A j \in {1, 2, 3, 8} : ~(j \in 4 .. 6)
        OBVIOUS
      <4> QED
        BY <2>1, <2>7, <4>1, Zenon
    <3> QED
      BY <1>3, <1>6, <3>1, <3>2, Zenon DEF Step
  <2> QED
    BY <2>5, <2>6, <2>7
<1>7. CASE Transmit
  <2>1. uart'.lcr = uart.lcr /\ UNCHANGED <<calls, state, out>>
    BY <1>7, TransmitFields DEF Transmit
  <2> QED
    BY <2>1 DEF LatchInv, Dlab, InInit
<1>8. CASE UNCHANGED vars
  BY <1>8 DEF vars, LatchInv, InInit
<1> QED
  BY <1>4, <1>5, <1>6, <1>7, <1>8, Zenon DEF Next, Step

(* A write to the FIFO: what was there stays, behind it comes v. *)
Grown(f, v, g) ==
  /\ \A i \in DOMAIN f : i \in DOMAIN g /\ g[i] = f[i]
  /\ \A i \in DOMAIN g : (i \in DOMAIN f /\ g[i] = f[i]) \/ g[i] = v

LEMMA AppendedFifo ==
  ASSUME NEW f \in Seq(Byte), NEW v \in Byte, NEW g, g = f \/ g = Append(f, v)
  PROVE  Grown(f, v, g)
BY DEF Grown

LEMMA FifoType ==
  ASSUME TypeOK
  PROVE  uart.fifo \in Seq(Byte) /\ line \in Seq(-1 .. 255)
BY DEF TypeOK, Uart, Byte

(* One outb, behind the barrier and before it. *)
LEMMA PollOutb ==
  ASSUME NEW p \in [Cores -> Seq(Call)], NEW w, TypeOK, OutInv, MeetInv(p), LatchInv,
         \A c \in Cores : calls[c] # <<>> => Late(p, w, c), PollInv(p),
         NEW c \in Cores, Outb(c)
  PROVE  /\ Head(calls[c]).op = "write_char" =>
              uart'.fifo = Append(uart.fifo, Head(out[c])[2]) /\ out'[c] = <<>>
         /\ (\E d \in Cores : Through(p, d)) =>
              \A i \in DOMAIN uart.fifo : i \in DOMAIN uart'.fifo /\ uart'.fifo[i] = uart.fifo[i]
         /\ \A i \in DOMAIN uart'.fifo : Polled(p, uart'.fifo[i]) =>
              \E d \in Cores : Through(p, d)
<1>1. state[c] = "writing" /\ calls[c] # <<>> /\ out[c] # <<>> /\ Late(p, w, c)
  BY Zenon DEF Outb, OutInv
<1>2. Stores(uart, Head(out[c])[1], Head(out[c])[2], uart')
  BY OutbStores
<1>3. uart.fifo \in Seq(Byte) /\ Head(out[c])[2] \in Byte
  BY <1>1, OutType, FifoType, Zenon
<1>4. Head(calls[c]).op # "init" =>
        /\ Head(out[c])[1] = 0 /\ Head(out[c])[2] \in Chars
        /\ \E k \in DOMAIN Head(calls[c]).text : Head(out[c])[2] = Head(calls[c]).text[k]
  <2> SUFFICES ASSUME Head(calls[c]).op # "init"
               PROVE  /\ Head(out[c])[1] = 0 /\ Head(out[c])[2] \in Chars
                      /\ \E k \in DOMAIN Head(calls[c]).text : Head(out[c])[2] = Head(calls[c]).text[k]
    BY Zenon
  <2>1. Head(calls[c]).text \in Seq(Chars)
    <3>1. Head(calls[c]) \in Call
      BY <1>1, CallsType, Zenon
    <3> QED
      BY <3>1 DEF Call
  <2>2. DOMAIN Head(calls[c]).text = 1 .. Len(Head(calls[c]).text)
    BY <2>1, SequenceOf, Zenon
  <2> QED
    BY <1>1, <2>2, NextChar, Zenon
<1>5. Head(calls[c]).op # "init" => uart'.fifo = uart.fifo \/ uart'.fifo = Append(uart.fifo, Head(out[c])[2])
  BY <1>2, <1>4, StoresFifo
<1>6. ASSUME Head(calls[c]).op = "write_char"
      PROVE  uart'.fifo = Append(uart.fifo, Head(out[c])[2]) /\ out'[c] = <<>>
  <2>1. Through(p, c) /\ Len(Head(calls[c]).text) = 1
    BY <1>1, <1>6, Zenon DEF Late, Through
  <2>2. \A d \in Cores : ~InInit(d)
    BY <2>1, OnlyLeader, Zenon DEF InInit
  <2>3. ~Dlab(uart)
    BY <2>2, Zenon DEF LatchInv
  <2>4. uart.fifo = <<>>
    BY <1>1, <1>6, Zenon DEF PollInv, Polls
  <2>5. uart'.fifo = Append(uart.fifo, Head(out[c])[2])
    BY <1>2, <1>4, <1>6, <2>3, <2>4, StoresEmpty
  <2>6. out[c] \in Seq(Write) /\ out'[c] = Tail(out[c])
    BY OutType DEF Outb, TypeOK
  <2>7. 1 - Len(out[c]) + 1 \in 1 .. 1
    BY <1>1, <1>6, <2>1, NextChar, Zenon
  <2>8. Len(out[c]) = 1
    <3>1. \A k \in Nat : 1 - k + 1 \in 1 .. 1 => k = 1
      OBVIOUS
    <3>2. Len(out[c]) \in Nat
      BY <2>6, SequenceOf, Zenon
    <3> QED
      BY <2>7, <3>1, <3>2, Zenon
  <2> QED
    BY <2>5, <2>6, <2>8, TailOfOne, Zenon
<1>7. ASSUME NEW d \in Cores, Through(p, d)
      PROVE  \A i \in DOMAIN uart.fifo : i \in DOMAIN uart'.fifo /\ uart'.fifo[i] = uart.fifo[i]
  <2>1. Head(calls[c]).op # "init"
    BY <1>1, <1>7, OnlyLeader, Zenon
  <2>2. Grown(uart.fifo, Head(out[c])[2], uart'.fifo)
    BY <1>3, <1>5, <2>1, AppendedFifo, Zenon
  <2> QED
    BY <2>2, Zenon DEF Grown
<1>8. ASSUME NEW i \in DOMAIN uart'.fifo, Polled(p, uart'.fifo[i])
      PROVE  \E d \in Cores : Through(p, d)
  <2>1. CASE i \in DOMAIN uart.fifo /\ uart'.fifo[i] = uart.fifo[i]
    BY <1>8, <2>1, Zenon DEF PollInv
  <2>2. CASE uart'.fifo[i] = Head(out[c])[2] /\ Head(calls[c]).op # "init"
    <3>1. PICK k \in DOMAIN Head(calls[c]).text : uart'.fifo[i] = Head(calls[c]).text[k]
      BY <1>4, <2>2, Zenon
    <3>2. Head(calls[c]).op # "write_str"
      BY <1>1, <1>8, <3>1, Zenon DEF Late
    <3>3. Head(calls[c]).op # "rendezvous"
      BY <1>1 DEF MeetInv
    <3>4. Head(calls[c]) \in Call
      BY <1>1, CallsType, Zenon
    <3>5. Head(calls[c]).op = "write_char"
      BY <2>2, <3>2, <3>3, <3>4 DEF Call
    <3> QED
      BY <1>1, <3>5, Zenon DEF Late, Through
  <2>3. CASE Head(calls[c]).op = "init" /\ uart'.fifo[i] = Head(out[c])[2]
    <3>1. Head(out[c])[2] \notin Chars
      <4>1. PICK k \in 1 .. 8 : Head(out[c]) = InitWrites[9 - k]
        BY <1>1, <2>3, NextInit, Zenon DEF InInit
      <4>2. \A j \in 1 .. 8 : InitWrites[j][2] \in {0, 128, 3, 199, 11, 15}
        BY SMTT(30) DEF InitWrites
      <4>3. 9 - k \in 1 .. 8
        OBVIOUS
      <4>4. Head(out[c])[2] \in {0, 128, 3, 199, 11, 15}
        BY <4>1, <4>2, <4>3, Zenon
      <4>5. \A v \in {0, 128, 3, 199, 11, 15} : v \notin Chars
        BY DEF Chars
      <4> QED
        BY <4>4, <4>5, Zenon
    <3>2. ASSUME NEW e \in Cores, NEW j \in DOMAIN p[e], NEW k \in DOMAIN p[e][j].text
          PROVE  p[e][j].text[k] \in Chars
      <4>1. p[e] \in Seq(Call) /\ p[e][j] \in Call
        OBVIOUS
      <4>2. p[e][j].text \in Seq(Chars)
        BY <4>1 DEF Call
      <4> QED
        BY <4>2
    <3> QED
      BY <1>8, <2>3, <3>1, <3>2, Zenon DEF Polled
  <2>4. CASE uart'.fifo = <<>>
    BY <1>8, <2>4
  <2>5. \/ uart'.fifo = uart.fifo \/ uart'.fifo = Append(uart.fifo, Head(out[c])[2])
        \/ uart'.fifo = <<>>
    BY <1>2, Zenon DEF Stores
  <2>6. CASE uart'.fifo = uart.fifo \/ uart'.fifo = Append(uart.fifo, Head(out[c])[2])
    <3>1. Grown(uart.fifo, Head(out[c])[2], uart'.fifo)
      BY <1>3, <2>6, AppendedFifo, Zenon
    <3>2. (i \in DOMAIN uart.fifo /\ uart'.fifo[i] = uart.fifo[i]) \/ uart'.fifo[i] = Head(out[c])[2]
      BY <3>1, Zenon DEF Grown
    <3> QED
      BY <2>1, <2>2, <2>3, <3>2, Zenon
  <2> QED
    BY <2>4, <2>5, <2>6, Zenon
<1> QED
  BY <1>6, <1>7, <1>8, Zenon

(* What a step keeps of a polled character. *)
Keeps(p) ==
  /\ \A c \in Cores :
       state[c] = "writing" /\ Head(calls[c]).op = "write_char" /\ out'[c] # out[c] =>
         uart'.fifo = Append(uart.fifo, Head(out[c])[2])
  /\ \A i \in DOMAIN uart.fifo : Polled(p, uart.fifo[i]) =>
       \/ i \in DOMAIN uart'.fifo /\ uart'.fifo[i] = uart.fifo[i]
       \/ Len(line') = Len(line) + 1 /\ uart'.fifo = Tail(uart.fifo)

LEMMA TailFifo ==
  ASSUME NEW f \in Seq(Byte), f # <<>>
  PROVE  \A i \in DOMAIN Tail(f) : i + 1 \in DOMAIN f /\ Tail(f)[i] = f[i + 1]
OBVIOUS

LEMMA PollStep ==
  ASSUME NEW p \in [Cores -> Seq(Call)], NEW w, TypeOK, OutInv, MeetInv(p), LatchInv,
         \A c \in Cores : calls[c] # <<>> => Late(p, w, c), PollInv(p), [Next]_vars,
         \A c \in Cores : Through(p, c) => Through(p, c)'
  PROVE  PollInv(p)' /\ Keeps(p)
<1>1. ASSUME uart' = uart, \A c \in Cores : Polls(c)' => Polls(c) \/ uart.fifo = <<>>,
             \A c \in Cores : state[c] = "writing" => out'[c] = out[c]
      PROVE  PollInv(p)' /\ Keeps(p)
  BY <1>1, Zenon DEF PollInv, Keeps
<1>2. ASSUME NEW c \in Cores, Step(c), NEW d \in Cores \ {c}
      PROVE  state'[d] = state[d] /\ calls'[d] = calls[d] /\ out'[d] = out[d]
  BY <1>2 DEF Step, Lock, DropGuard, Poll, Outb, Return, Rendezvous, Enter, TypeOK
<1>3. ASSUME NEW c \in Cores, Step(c), NEW d \in Cores \ {c}
      PROVE  Polls(d)' <=> Polls(d)
  BY <1>2, <1>3, Zenon DEF Polls
<1>4. ASSUME NEW c \in Cores, Step(c), uart' = uart, Polls(c)' => uart.fifo = <<>>,
             state[c] = "writing" => out'[c] = out[c]
      PROVE  PollInv(p)' /\ Keeps(p)
  BY <1>1, <1>2, <1>3, <1>4, Zenon
<1>5. ASSUME NEW c \in Cores, Lock(c) \/ Rendezvous(c) \/ Return(c)
      PROVE  PollInv(p)' /\ Keeps(p)
  <2>1. ~Polls(c)' /\ uart' = uart /\ out' = out
    BY <1>5 DEF Lock, Rendezvous, Waits, Return, Enter, TypeOK, Polls
  <2> QED
    BY <1>4, <1>5, <2>1, Zenon DEF Step
<1>6. ASSUME NEW c \in Cores, DropGuard(c)
      PROVE  PollInv(p)' /\ Keeps(p)
  <2>1. ~Polls(c)' /\ uart' = uart /\ state[c] # "writing"
    BY <1>6 DEF DropGuard, Enter, TypeOK, Polls
  <2> QED
    BY <1>4, <1>6, <2>1, Zenon DEF Step
<1>7. ASSUME NEW c \in Cores, Poll(c)
      PROVE  PollInv(p)' /\ Keeps(p)
  <2>1. uart.fifo = <<>> /\ uart' = uart /\ state[c] # "writing"
    BY <1>7, Zenon DEF Poll, is_transmit_empty
  <2> QED
    BY <1>4, <1>7, <2>1, Zenon DEF Step
<1>8. ASSUME NEW c \in Cores, Outb(c)
      PROVE  PollInv(p)' /\ Keeps(p)
  <2>1. /\ Head(calls[c]).op = "write_char" =>
             uart'.fifo = Append(uart.fifo, Head(out[c])[2]) /\ out'[c] = <<>>
        /\ (\E d \in Cores : Through(p, d)) =>
             \A i \in DOMAIN uart.fifo : i \in DOMAIN uart'.fifo /\ uart'.fifo[i] = uart.fifo[i]
        /\ \A i \in DOMAIN uart'.fifo : Polled(p, uart'.fifo[i]) =>
             \E d \in Cores : Through(p, d)
    BY <1>8, PollOutb, Zenon
  <2>2. ASSUME NEW d \in Cores, Polls(d)'
        PROVE  FALSE
    <3>1. d # c
      <4>1. calls' = calls
        BY <1>8 DEF Outb
      <4> QED
        BY <2>1, <2>2, <4>1, Zenon DEF Polls
    <3>2. Polls(d)
      BY <1>3, <1>8, <2>2, <3>1, Zenon DEF Step
    <3>3. state[d] # "idle" /\ state[c] # "idle" /\ calls[d] # <<>>
      BY <1>8, <3>2, Zenon DEF Polls, Outb, OutInv
    <3>4. Through(p, d)
      BY <3>2, <3>3, Zenon DEF Late, Through, Polls
    <3>5. d = w
      BY <3>3, <3>4, OnlyLeader, Zenon
    <3>6. c = w
      BY <3>3, <3>4, OnlyLeader, Zenon
    <3> QED
      BY <3>1, <3>5, <3>6, Zenon
  <2>3. PollInv(p)'
    BY <2>1, <2>2, Zenon DEF PollInv
  <2>4. \A d \in Cores \ {c} : out'[d] = out[d]
    BY <1>2, <1>8, Zenon DEF Step
  <2>5. Keeps(p)
    BY <2>1, <2>4, Zenon DEF Keeps, PollInv
  <2> QED
    BY <2>3, <2>5
<1>9. CASE Transmit
  <2>1. /\ uart'.fifo = Tail(uart.fifo) /\ uart.fifo # <<>> /\ uart.fifo \in Seq(Byte)
        /\ UNCHANGED <<calls, state, out>> /\ line \in Seq(-1 .. 255)
        /\ \E v \in -1 .. 255 : line' = Append(line, v)
    <3>1. uart'.fifo = Tail(uart.fifo) /\ uart.fifo # <<>> /\ uart.fifo \in Seq(Byte)
      BY <1>9, TransmitFields
    <3>2. Head(uart.fifo) \in Byte
      BY <3>1
    <3>3. Head(uart.fifo) \in -1 .. 255 /\ -1 \in -1 .. 255
      BY <3>2 DEF Byte
    <3>4. line' = Append(line, Head(uart.fifo)) \/ line' = Append(line, -1)
      BY <1>9, Zenon DEF Transmit
    <3>5. UNCHANGED <<calls, state, out>>
      BY <1>9, Zenon DEF Transmit
    <3> QED
      BY <3>1, <3>3, <3>4, <3>5, FifoType, Zenon
  <2>2. Len(line') = Len(line) + 1
    <3>1. PICK v \in -1 .. 255 : line' = Append(line, v)
      BY <2>1, Zenon
    <3>2. \A s \in Seq(-1 .. 255) : \A e \in -1 .. 255 : Len(Append(s, e)) = Len(s) + 1
      OBVIOUS
    <3> QED
      BY <2>1, <3>1, <3>2, Zenon
  <2>3. Keeps(p)
    BY <2>1, <2>2, Zenon DEF Keeps
  <2>4. \A i \in DOMAIN uart'.fifo : i + 1 \in DOMAIN uart.fifo /\ uart'.fifo[i] = uart.fifo[i + 1]
    BY <2>1, TailFifo, Zenon
  <2>5. \A c \in Cores : ~Polls(c)'
    BY <2>1, Zenon DEF PollInv, Polls
  <2>6. PollInv(p)'
    BY <2>4, <2>5, Zenon DEF PollInv
  <2> QED
    BY <2>3, <2>6
<1>10. CASE UNCHANGED vars
  BY <1>1, <1>10 DEF vars, Polls
<1> QED
  BY <1>5, <1>6, <1>7, <1>8, <1>9, <1>10, Zenon DEF Next, Step

LEMMA NoPolls ==
  ASSUME NEW p \in [Cores -> Seq(Call)], TypeOK, OutInv, CallsInv(p),
         ~\E c \in Cores : \E i \in DOMAIN p[c] : p[c][i].op = "write_char"
  PROVE  Keeps(p)
<1>1. \A char : ~Polled(p, char)
  BY Zenon DEF Polled
<1>2. ASSUME NEW c \in Cores, state[c] = "writing"
      PROVE  Head(calls[c]).op # "write_char"
  <2>1. calls[c] # <<>>
    BY <1>2 DEF OutInv
  <2>2. Done(p, c) + 1 \in DOMAIN p[c] /\ Head(calls[c]) = p[c][Done(p, c) + 1]
    BY <2>1, CurrentCall
  <2> QED
    BY <2>2, Zenon
<1> QED
  BY <1>1, <1>2, Zenon DEF Keeps

HasPolls(p) == \E c \in Cores : \E i \in DOMAIN p[c] : p[c][i].op = "write_char"

LateInv == TypeOK /\ OutInv /\ \E p \in Programs :
  /\ p = program /\ CallsInv(p)
  /\ HasPolls(p) => MeetInv(p) /\ LatchInv /\ PollInv(p)

LEMMA LateStep ==
  ASSUME \A p \in Programs : PollsLate(p), LateInv, [Next]_vars
  PROVE  LateInv' /\ Keeps(program)
<1>1. PICK p \in Programs :
        /\ p = program /\ CallsInv(p)
        /\ HasPolls(p) => MeetInv(p) /\ LatchInv /\ PollInv(p)
  BY DEF LateInv
<1>2. TypeOK /\ OutInv /\ p \in [Cores -> Seq(Call)] /\ \A c \in Cores : MeetsOnce(p[c])
  BY SerialAssumption, Zenon DEF LateInv, MeetsOnce
<1>3. TypeOK' /\ OutInv' /\ CallsInv(p)' /\ p = program'
  BY <1>1, <1>2, StepType, CallsStep, SameProgram
<1>4. CASE ~HasPolls(p)
  <2>1. Keeps(p)
    BY <1>1, <1>2, <1>4, NoPolls, Zenon DEF HasPolls
  <2> QED
    BY <1>1, <1>3, <1>4, <2>1 DEF LateInv
<1>5. CASE HasPolls(p)
  <2>1. PICK w \in Cores : AloneBehind(p, w)
    BY <1>5, Zenon DEF PollsLate, HasPolls
  <2>2. \A c \in Cores : calls[c] # <<>> => Late(p, w, c)
    BY <1>1, <1>2, <2>1, LateCall, Zenon
  <2>3. MeetInv(p)' /\ \A c \in Cores : Through(p, c) => Through(p, c)'
    BY <1>1, <1>2, <1>5, <2>2, MeetStep, Zenon
  <2>4. LatchInv'
    BY <1>1, <1>2, <1>5, LatchStep
  <2>5. PollInv(p)' /\ Keeps(p)
    BY <1>1, <1>2, <1>5, <2>2, <2>3, PollStep, Zenon
  <2> QED
    BY <1>1, <1>3, <2>3, <2>4, <2>5 DEF LateInv
<1> QED
  BY <1>4, <1>5

(* The outb of write_char puts its character in the FIFO, where it stays   *)
(* until the UART sends it: for any number of cores whose inits interleave *)
(* before the barrier of the test at every outb, if behind it one core     *)
(* alone uses the port and calls no init.                                  *)
THEOREM PolledIsNotLost ==
  ASSUME \A p \in Programs : PollsLate(p)
  PROVE  Spec => PolledNotLost
<1>1. Init => LateInv
  <2> SUFFICES ASSUME Init
               PROVE  LateInv
    OBVIOUS
  <2>1. PICK p \in Programs : p = program /\ p = calls /\ CallsInv(p)
    BY InitReg
  <2>2. uart.fifo = <<>> /\ ~Dlab(uart) /\ \A c \in Cores : state[c] = "idle"
    BY DEF Init, Reset, Dlab
  <2>3. LatchInv
    BY <2>2, Zenon DEF LatchInv
  <2>4. PollInv(p)
    <3>1. \A c \in Cores : ~Polls(c)
      BY <2>2, Zenon DEF Polls
    <3>2. \A i \in DOMAIN uart.fifo : FALSE
      BY <2>2
    <3> QED
      BY <3>1, <3>2, Zenon DEF PollInv
  <2>5. HasPolls(p) => MeetInv(p)
    <3> SUFFICES ASSUME HasPolls(p)
                 PROVE  MeetInv(p)
      OBVIOUS
    <3>1. PICK w \in Cores : AloneBehind(p, w)
      BY Zenon DEF PollsLate, HasPolls
    <3>2. \A c \in Cores : ~Through(p, c)
      BY <2>1, <3>1, Zenon DEF AloneBehind, Through, Awaited
    <3> QED
      BY <2>2, <3>2, Zenon DEF MeetInv
  <2> QED
    BY <2>1, <2>3, <2>4, <2>5, InitType DEF LateInv
<1>2. LateInv /\ [Next]_vars => LateInv'
  BY LateStep
<1>3. LateInv /\ [Next]_vars =>
        [/\ \A c \in Cores :
              state[c] = "writing" /\ Head(calls[c]).op = "write_char" /\ out'[c] # out[c] =>
                uart'.fifo = Append(uart.fifo, Head(out[c])[2])
         /\ \A i \in DOMAIN uart.fifo : Polled(program, uart.fifo[i]) =>
              \/ i \in DOMAIN uart'.fifo /\ uart'.fifo[i] = uart.fifo[i]
              \/ Len(line') = Len(line) + 1 /\ uart'.fifo = Tail(uart.fifo)]_vars
  BY LateStep, Zenon DEF Keeps
<1> QED
  BY <1>1, <1>2, <1>3, PTL DEF Spec, PolledNotLost

=============================================================================
