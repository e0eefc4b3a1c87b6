-------------------------- MODULE TelemetryProofs --------------------------
(***************************************************************************)
(* What module Telemetry checks on a small instance, proved for every       *)
(* number of readings and every set of voltages: its types, that no field   *)
(* of the status is sent twice, and that nothing stale is sent.             *)
(***************************************************************************)
EXTENDS Telemetry, SequenceTheorems, TLAPS

\* A field may have been copied and not yet been cleared.
Copied(n) ==
  \/ pc = "copy" /\ n < i
  \/ pc = "send"
  \/ pc = "clear" /\ n >= i

\* What holds a value has yet to be sent, or is being sent.
SentInv ==
  /\ ~repeated
  /\ pc \notin {"copy", "clear"} => i = 1
  /\ \A n \in 1 .. 4 :
       wlanstatus[Field[n]] # 0 => Field[n] \in unsent \/ Copied(n)

\* The fields that every reading of a link stores.
Written(type) ==
  {f \in FieldNames :
     \/ type = CON_WIFI /\ f # "tail"
     \/ type = CON_YOTA /\ f \in {"type", "head"}
     \/ type \in {CON_LAN, CON_UBIQ} /\ f \in {"type", "isconnected"}}

\* The end of the message and the State of a Yota modem are stored by some
\* readings only.
OptionalOf(type, f) == f = "tail" \/ (type = CON_YOTA /\ f = "isconnected")
Optional(f) == OptionalOf(wlantype, f)

\* A field holds nothing, or the current reading's number, or the one before
\* if the current one has still to store it.
FreshInv ==
  /\ todo # <<>> => reads >= 1
  /\ \A f \in FieldNames :
       \/ Optional(f)
       \/ wlanstatus[f] = 0 \/ f \in Written(wlantype)
  /\ \A f \in FieldNames :
       \/ Optional(f)
       \/ wlanstatus[f] = 0
       \/ wlanstatus[f] = reads
       \/ /\ wlanstatus[f] = reads - 1
          /\ \E n \in 1 .. Len(todo) : todo[n] = f

\* What the buffer holds is no older than that.
BufferInv ==
  /\ (pc = "copy" /\ i = 1) => wlanstatus["type"] # 0
  /\ (pc = "copy" /\ i > 1) \/ pc = "send" =>
       /\ buffer["type"] # 0 /\ buffer["type"] <= reads
       /\ \A n \in 1 .. 4 : (n < i \/ pc = "send") =>
            \/ Optional(Field[n])
            \/ buffer[Field[n]] = 0
            \/ buffer[Field[n]] >= buffer["type"] - 1

\* Once a status was sent, what a field holds was stored after its memset, so
\* by the reading that status was of or by a later one.
ToldInv ==
  /\ told <= reads
  /\ \A n \in 1 .. 4 :
       \/ wlanstatus[Field[n]] = 0
       \/ wlanstatus[Field[n]] >= told
       \/ pc = "clear" /\ n >= i
  /\ \A n \in 1 .. 4 :
       (pc = "copy" /\ n < i) \/ pc = "send" =>
         buffer[Field[n]] = 0 \/ buffer[Field[n]] >= told

IInv == TelemetryTypeOK /\ SentInv /\ FreshInv /\ BufferInv /\ ToldInv

-----------------------------------------------------------------------------
(* Facts about the fields and the stores of a reading.                      *)

LEMMA FieldFacts ==
  /\ Field[1] = "type" /\ Field[2] = "isconnected"
  /\ Field[3] = "head" /\ Field[4] = "tail"
  /\ \A n \in 1 .. 4 : Field[n] \in FieldNames
  /\ \A f \in FieldNames : \E n \in 1 .. 4 : f = Field[n]
  /\ \A m, n \in 1 .. 4 : Field[m] = Field[n] => m = n
BY DEF Field, FieldNames

\* What a sequence of stores over given fields gives: everything that is
\* written, and else only what is optional.
Covers(s, type) ==
  /\ s \in Seq(FieldNames) /\ Len(s) \in 1 .. 4
  /\ \A f \in Written(type) : \E n \in 1 .. Len(s) : s[n] = f
  /\ \A n \in 1 .. Len(s) : s[n] \in Written(type) \/ OptionalOf(type, s[n])

LEMMA StoreFacts ==
  ASSUME NEW type \in WlanTypes, NEW s \in Stores(type)
  PROVE  Covers(s, type)
<1> USE DEF WlanTypes, CON_NONE, CON_WIFI, CON_YOTA, CON_LAN, CON_UBIQ
<1>1. \/ type = CON_WIFI /\ s \in {<<"type", "isconnected", "head", "tail">>,
                                   <<"type", "isconnected", "head">>}
      \/ type = CON_YOTA /\ s \in {<<"isconnected", "type", "head", "tail">>,
                                   <<"isconnected", "type", "head">>,
                                   <<"type", "head", "tail">>,
                                   <<"type", "head">>}
      \/ type \in {CON_LAN, CON_UBIQ} /\ s = <<"type", "isconnected">>
  BY DEF Stores
<1>2. CASE type = CON_WIFI /\ s = <<"type", "isconnected", "head", "tail">>
  <2>1. /\ Len(s) = 4 /\ s \in Seq(FieldNames)
        /\ s[1] = "type" /\ s[2] = "isconnected" /\ s[3] = "head" /\ s[4] = "tail"
    BY <1>2 DEF FieldNames
  <2> QED BY <1>2, <2>1 DEF Covers, Written, OptionalOf, FieldNames
<1>3. CASE type = CON_WIFI /\ s = <<"type", "isconnected", "head">>
  <2>1. /\ Len(s) = 3 /\ s \in Seq(FieldNames)
        /\ s[1] = "type" /\ s[2] = "isconnected" /\ s[3] = "head"
    BY <1>3 DEF FieldNames
  <2> QED BY <1>3, <2>1 DEF Covers, Written, OptionalOf, FieldNames
<1>4. CASE type = CON_YOTA /\ s = <<"isconnected", "type", "head", "tail">>
  <2>1. /\ Len(s) = 4 /\ s \in Seq(FieldNames)
        /\ s[1] = "isconnected" /\ s[2] = "type" /\ s[3] = "head" /\ s[4] = "tail"
    BY <1>4 DEF FieldNames
  <2> QED BY <1>4, <2>1 DEF Covers, Written, OptionalOf, FieldNames
<1>5. CASE type = CON_YOTA /\ s = <<"isconnected", "type", "head">>
  <2>1. /\ Len(s) = 3 /\ s \in Seq(FieldNames)
        /\ s[1] = "isconnected" /\ s[2] = "type" /\ s[3] = "head"
    BY <1>5 DEF FieldNames
  <2> QED BY <1>5, <2>1 DEF Covers, Written, OptionalOf, FieldNames
<1>6. CASE type = CON_YOTA /\ s = <<"type", "head", "tail">>
  <2>1. /\ Len(s) = 3 /\ s \in Seq(FieldNames)
        /\ s[1] = "type" /\ s[2] = "head" /\ s[3] = "tail"
    BY <1>6 DEF FieldNames
  <2> QED BY <1>6, <2>1 DEF Covers, Written, OptionalOf, FieldNames
<1>7. CASE type = CON_YOTA /\ s = <<"type", "head">>
  <2>1. /\ Len(s) = 2 /\ s \in Seq(FieldNames)
        /\ s[1] = "type" /\ s[2] = "head"
    BY <1>7 DEF FieldNames
  <2> QED BY <1>7, <2>1 DEF Covers, Written, OptionalOf, FieldNames
<1>8. CASE type \in {CON_LAN, CON_UBIQ} /\ s = <<"type", "isconnected">>
  <2>1. /\ Len(s) = 2 /\ s \in Seq(FieldNames)
        /\ s[1] = "type" /\ s[2] = "isconnected"
    BY <1>8 DEF FieldNames
  <2> QED BY <1>8, <2>1 DEF Covers, Written, OptionalOf, FieldNames
<1> QED BY <1>1, <1>2, <1>3, <1>4, <1>5, <1>6, <1>7, <1>8

\* What a reading has yet to store: the rest of the stores of one reading.
LEMMA TodoFacts ==
  ASSUME TelemetryTypeOK, todo # <<>>
  PROVE  /\ todo \in Seq(FieldNames) /\ Head(todo) \in FieldNames
         /\ Head(todo) \in Written(wlantype) \/ Optional(Head(todo))
         /\ \/ Tail(todo) = <<>>
            \/ \E s \in Stores(wlantype) : \E n \in 1 .. Len(s) :
                 Tail(todo) = SubSeq(s, n, Len(s))
         /\ \A n \in 1 .. Len(todo) :
              \/ todo[n] = Head(todo)
              \/ \E m \in 1 .. Len(Tail(todo)) : Tail(todo)[m] = todo[n]
<1>0. PICK s \in Stores(wlantype) :
        \E n \in 1 .. Len(s) : todo = SubSeq(s, n, Len(s))
  BY DEF TelemetryTypeOK
<1>1. PICK k \in 1 .. Len(s) : todo = SubSeq(s, k, Len(s))
  BY <1>0
<1>2. wlantype \in WlanTypes
  BY DEF TelemetryTypeOK
<1>3. /\ s \in Seq(FieldNames) /\ Len(s) \in 1 .. 4
      /\ s[k] \in Written(wlantype) \/ Optional(s[k])
  BY <1>2, StoreFacts DEF Optional, Covers
<1>4. Head(todo) = s[k] /\ Tail(todo) = SubSeq(s, k + 1, Len(s))
  BY <1>1, <1>3, HeadTailOfSubSeq
<1>5. todo \in Seq(FieldNames)
  BY <1>1, <1>3, SubSeqProperties
<1>6. Head(todo) \in FieldNames
  BY <1>3, <1>4
<1>7. CASE k = Len(s)
  <2>1. Tail(todo) = <<>>
    BY <1>3, <1>4, <1>7, SubSeqEmpty
  <2>2. Len(todo) = 1
    BY <1>1, <1>3, <1>7, SubSeqProperties
  <2> QED BY <1>3, <1>4, <1>5, <1>6, <2>1, <2>2
<1>8. CASE k < Len(s)
  <2>1. k + 1 \in 1 .. Len(s)
    BY <1>3, <1>8
  <2>2. /\ Len(Tail(todo)) = Len(todo) - 1
        /\ \A m \in 1 .. Len(Tail(todo)) : Tail(todo)[m] = todo[m + 1]
    BY <1>5, HeadTailProperties
  <2>3. ASSUME NEW n \in 1 .. Len(todo), n # 1
        PROVE  \E m \in 1 .. Len(Tail(todo)) : Tail(todo)[m] = todo[n]
    <3>1. n - 1 \in 1 .. Len(Tail(todo)) /\ Tail(todo)[n - 1] = todo[n]
      BY <1>5, <2>2, <2>3
    <3> QED BY <3>1
  <2>4. todo[1] = Head(todo)
    BY <1>5
  <2> QED BY <1>3, <1>4, <1>5, <1>6, <2>1, <2>3, <2>4
<1> QED BY <1>3, <1>7, <1>8

-----------------------------------------------------------------------------
(* Every state of a process that has just begun or ended is one where       *)
(* nothing has been read, copied or sent.                                   *)

LEMMA FreshGivesInv ==
  ASSUME NEW type \in WlanTypes, on' \in BOOLEAN, Fresh(type)
  PROVE  IInv'
<1>1. /\ wlanstatus' = Cleared /\ buffer' = Cleared /\ todo' = <<>>
      /\ unsent' = {} /\ repeated' = FALSE /\ pc' = "alive" /\ i' = 1
      /\ told' = 0
      /\ reads' = 0 /\ wlantype' = type /\ system_voltage' = 0
      /\ voltage' = <<0, 0>>
  BY DEF Fresh
<1>2. Cleared \in [FieldNames -> 0 .. MaxReads]
      /\ \A f \in FieldNames : Cleared[f] = 0
  BY TelemetryAssumption DEF Cleared
<1>3. TelemetryTypeOK'
  <2>1. voltage' \in Levels \X Levels
    BY SMTT(30), <1>1, TelemetryAssumption
  <2>2. todo' = <<>>
    BY <1>1
  <2>3. repeated' \in BOOLEAN
    BY <1>1
  <2> QED BY <1>1, <1>2, <2>1, <2>2, <2>3, TelemetryAssumption
          DEF TelemetryTypeOK
<1>4. SentInv'
  BY <1>1, <1>2, FieldFacts DEF SentInv
<1>5. FreshInv'
  BY <1>1, <1>2 DEF FreshInv
<1>6. BufferInv'
  BY <1>1 DEF BufferInv
<1>7. ToldInv'
  BY <1>1, <1>2, FieldFacts DEF ToldInv
<1> QED BY <1>3, <1>4, <1>5, <1>6, <1>7 DEF IInv

LEMMA InitGivesInv == TelemetryInit => IInv
<1> SUFFICES ASSUME TelemetryInit PROVE IInv
  OBVIOUS
<1>1. Cleared \in [FieldNames -> 0 .. MaxReads]
      /\ \A f \in FieldNames : Cleared[f] = 0
  BY TelemetryAssumption DEF Cleared
<1>2. TelemetryTypeOK
  <2>1. voltage \in Levels \X Levels
    BY SMTT(30), TelemetryAssumption DEF TelemetryInit
  <2>2. on \in BOOLEAN /\ repeated \in BOOLEAN /\ todo = <<>>
    BY DEF TelemetryInit
  <2> QED BY <1>1, <2>1, <2>2, TelemetryAssumption
          DEF TelemetryInit, TelemetryTypeOK, WlanTypes, CON_NONE, CON_UBIQ
<1>3. SentInv
  BY <1>1, FieldFacts DEF TelemetryInit, SentInv
<1>4. FreshInv
  BY <1>1 DEF TelemetryInit, FreshInv
<1>5. BufferInv
  BY DEF TelemetryInit, BufferInv
<1>6. ToldInv
  BY <1>1, FieldFacts DEF TelemetryInit, ToldInv
<1> QED BY <1>2, <1>3, <1>4, <1>5, <1>6 DEF IInv

-----------------------------------------------------------------------------
(* One lemma per action.                                                    *)

LEMMA ReadKeepsInv ==
  ASSUME IInv, Read
  PROVE  IInv'
<1> USE DEF IInv, Read, status
<1>1. wlantype \in WlanTypes /\ reads \in 0 .. MaxReads
      /\ wlanstatus \in [FieldNames -> 0 .. MaxReads]
      /\ buffer \in [FieldNames -> 0 .. MaxReads]
  BY DEF TelemetryTypeOK
<1>2. reads' \in 1 .. MaxReads /\ (reads' = reads \/ reads' = reads + 1)
  BY <1>1, TelemetryAssumption
<1>3. /\ todo' \in Seq(FieldNames) /\ Len(todo') \in 1 .. 4
      /\ \A f \in Written(wlantype) : \E n \in 1 .. Len(todo') : todo'[n] = f
  BY <1>1, StoreFacts DEF Covers
<1>4. TelemetryTypeOK'
  <2>1. todo' = SubSeq(todo', 1, Len(todo'))
    <3>1. todo' \in Seq(FieldNames)
      BY <1>3
    <3> QED BY <3>1, SubSeqFull
  <2>2. \E s \in Stores(wlantype) : \E n \in 1 .. Len(s) :
          todo' = SubSeq(s, n, Len(s))
    <3>1. todo' \in Stores(wlantype) /\ 1 \in 1 .. Len(todo')
      BY <1>3
    <3> QED BY <2>1, <3>1
  <2>3. reads' \in 0 .. MaxReads
    BY <1>2
  <2> QED BY <2>2, <2>3 DEF TelemetryTypeOK
<1>5. SentInv'
  BY DEF SentInv, Copied
<1>6. FreshInv'
  <2>1. ASSUME NEW f \in FieldNames, ~Optional(f)
        PROVE  \/ wlanstatus[f] = 0
               \/ wlanstatus[f] = reads'
               \/ /\ wlanstatus[f] = reads' - 1
                  /\ \E n \in 1 .. Len(todo') : todo'[n] = f
    <3>1. \/ wlanstatus[f] = 0
          \/ wlanstatus[f] = reads /\ f \in Written(wlantype)
      BY <2>1 DEF FreshInv
    <3> QED BY <1>1, <1>2, <1>3, <3>1
  <2> QED BY <1>2, <2>1 DEF FreshInv, Optional
<1>7. BufferInv'
  BY <1>1, <1>2, FieldFacts DEF BufferInv, Optional
<1>8. ToldInv'
  <2>1. told \in 0 .. MaxReads
    BY DEF TelemetryTypeOK
  <2> QED BY <1>1, <1>2, <2>1 DEF ToldInv
<1> QED BY <1>4, <1>5, <1>6, <1>7, <1>8

LEMMA StoreKeepsInv ==
  ASSUME IInv, Store
  PROVE  IInv'
<1> USE DEF IInv, Store
<1>1. reads \in 1 .. MaxReads /\ i \in 1 .. 4
      /\ wlanstatus \in [FieldNames -> 0 .. MaxReads]
  <2>1. todo # <<>> /\ reads \in 0 .. MaxReads
    BY DEF TelemetryTypeOK
  <2>2. reads >= 1
    BY <2>1 DEF FreshInv
  <2>3. reads \in 1 .. MaxReads
    BY <2>1, <2>2, TelemetryAssumption
  <2> QED BY <2>3 DEF TelemetryTypeOK
<1>2. /\ todo \in Seq(FieldNames) /\ Head(todo) \in FieldNames
      /\ Head(todo) \in Written(wlantype) \/ Optional(Head(todo))
  BY TodoFacts
<1>3. wlanstatus' \in [FieldNames -> 0 .. MaxReads]
      /\ \A f \in FieldNames :
           wlanstatus'[f] = IF f = Head(todo) THEN reads ELSE wlanstatus[f]
  BY <1>1, <1>2
<1>4. TelemetryTypeOK'
  <2>1. unsent' \subseteq FieldNames
    BY <1>2 DEF TelemetryTypeOK
  <2>2. \/ todo' = <<>>
        \/ \E s \in Stores(wlantype) : \E n \in 1 .. Len(s) :
             todo' = SubSeq(s, n, Len(s))
    BY TodoFacts
  <2> QED BY <1>3, <2>1, <2>2 DEF TelemetryTypeOK
<1>5. SentInv'
  BY <1>3, FieldFacts DEF SentInv, Copied
<1>6. FreshInv'
  <2>1. ASSUME NEW f \in FieldNames, ~Optional(f)
        PROVE  /\ wlanstatus'[f] = 0 \/ f \in Written(wlantype)
               /\ \/ wlanstatus'[f] = 0
                  \/ wlanstatus'[f] = reads
                  \/ /\ wlanstatus'[f] = reads - 1
                     /\ \E n \in 1 .. Len(todo') : todo'[n] = f
    <3>1. CASE f = Head(todo)
      BY <1>2, <1>3, <2>1, <3>1
    <3>2. CASE f # Head(todo)
      <4>1. ASSUME NEW n \in 1 .. Len(todo), todo[n] = f
            PROVE  \E m \in 1 .. Len(todo') : todo'[m] = f
        BY <3>2, <4>1, TodoFacts
      <4> QED BY <1>3, <2>1, <3>2, <4>1 DEF FreshInv
    <3> QED BY <3>1, <3>2
  <2> QED BY <1>1, <2>1 DEF FreshInv, Optional
<1>7. BufferInv'
  BY <1>1, <1>3, FieldFacts DEF BufferInv, Optional
<1>8. ToldInv'
  BY <1>1, <1>3, FieldFacts DEF ToldInv
<1> QED BY <1>4, <1>5, <1>6, <1>7, <1>8

\* The ADC thread, and the steps of the main loop that leave the status
\* alone.
LEMMA QuietKeepsInv ==
  ASSUME IInv, Sample \/ SendAlive \/ ReadInteger \/ SendVoltage \/ Sleep
  PROVE  IInv'
<1>1. /\ wlantype' = wlantype /\ wlanstatus' = wlanstatus /\ todo' = todo
      /\ reads' = reads /\ i' = i /\ buffer' = buffer /\ unsent' = unsent
      /\ repeated' = repeated /\ on' = on /\ told' = told
  BY DEF Sample, SendAlive, ReadInteger, SendVoltage, Sleep, status, Main
<1>2. /\ pc \notin {"copy", "send", "clear"} \/ pc' = pc
      /\ pc' \notin {"copy", "send", "clear"} \/ pc' = pc
  BY DEF Sample, SendAlive, ReadInteger, SendVoltage, Sleep, Main
<1>3. /\ system_voltage' \in Levels /\ voltage' \in Levels \X Levels
      /\ pc' \in {"alive", "integer", "decimal", "check", "copy", "send",
                  "clear", "sleep"}
  <2>1. /\ system_voltage \in Levels /\ voltage \in Levels \X Levels
        /\ pc \in {"alive", "integer", "decimal", "check", "copy", "send",
                   "clear", "sleep"}
    BY DEF IInv, TelemetryTypeOK
  <2>2. CASE Sample
    BY <2>1, <2>2 DEF Sample
  <2>3. CASE SendAlive
    BY <2>1, <2>3 DEF SendAlive, Main
  <2>4. CASE ReadInteger
    BY <2>1, <2>4 DEF ReadInteger, Main
  <2>5. CASE SendVoltage
    BY <2>1, <2>5 DEF SendVoltage, Main
  <2>6. CASE Sleep
    BY <2>1, <2>6 DEF Sleep, Main
  <2> QED BY <2>2, <2>3, <2>4, <2>5, <2>6
<1>4. TelemetryTypeOK'
  <2>1. TelemetryTypeOK
    BY DEF IInv
  <2> QED BY <1>1, <1>3, <2>1 DEF TelemetryTypeOK
<1>5. SentInv'
  BY <1>1, <1>2 DEF IInv, SentInv, Copied
<1>6. FreshInv'
  BY <1>1 DEF IInv, FreshInv, Optional
<1>7. BufferInv'
  BY <1>1, <1>2 DEF IInv, BufferInv, Optional
<1>8. ToldInv'
  BY <1>1, <1>2 DEF IInv, ToldInv
<1> QED BY <1>4, <1>5, <1>6, <1>7, <1>8 DEF IInv

LEMMA CheckTypeKeepsInv ==
  ASSUME IInv, CheckType
  PROVE  IInv'
<1>1. /\ wlantype' = wlantype /\ wlanstatus' = wlanstatus /\ todo' = todo
      /\ reads' = reads /\ i' = 1 /\ buffer' = buffer /\ unsent' = unsent
      /\ repeated' = repeated /\ on' = on /\ voltage' = <<0, 0>>
      /\ system_voltage' = system_voltage /\ told' = told
      /\ pc = "check" /\ (pc' = "sleep" \/ pc' = "copy")
      /\ pc' = "copy" => wlanstatus["type"] # 0
  BY DEF CheckType, status, Main
<1>2. TelemetryTypeOK'
  <2>1. TelemetryTypeOK
    BY DEF IInv
  <2>2. voltage' \in Levels \X Levels
    BY <1>1, TelemetryAssumption
  <2> QED BY <1>1, <2>1, <2>2 DEF TelemetryTypeOK
<1>3. SentInv'
  BY <1>1 DEF IInv, SentInv, Copied
<1>4. FreshInv'
  BY <1>1 DEF IInv, FreshInv, Optional
<1>5. BufferInv'
  BY <1>1 DEF BufferInv
<1>6. ToldInv'
  BY <1>1 DEF IInv, ToldInv
<1> QED BY <1>2, <1>3, <1>4, <1>5, <1>6 DEF IInv

LEMMA CopyKeepsInv ==
  ASSUME IInv, Copy
  PROVE  IInv'
<1>1. /\ i \in 1 .. 4 /\ reads \in 0 .. MaxReads
      /\ wlanstatus \in [FieldNames -> 0 .. MaxReads]
      /\ buffer \in [FieldNames -> 0 .. MaxReads]
      /\ unsent \subseteq FieldNames /\ ~repeated
  BY DEF IInv, TelemetryTypeOK, SentInv
<1>2. /\ wlantype' = wlantype /\ wlanstatus' = wlanstatus /\ todo' = todo
      /\ reads' = reads /\ unsent' = unsent \ {Field[i]} /\ on' = on
      /\ pc = "copy" /\ voltage' = voltage
      /\ system_voltage' = system_voltage /\ told' = told
  BY DEF Copy
<1>3. \/ i < 4 /\ i' = i + 1 /\ pc' = "copy"
      \/ i = 4 /\ i' = 1 /\ pc' = "send"
  BY <1>1 DEF Copy
<1>4. /\ buffer' \in [FieldNames -> 0 .. MaxReads]
      /\ \A n \in 1 .. 4 :
           buffer'[Field[n]] =
             IF n = i THEN wlanstatus[Field[n]] ELSE buffer[Field[n]]
  BY <1>1, FieldFacts DEF Copy
<1>5. ~repeated'
  BY <1>1, <1>2 DEF IInv, SentInv, Copied, Copy
<1>6. TelemetryTypeOK'
  <2>1. TelemetryTypeOK
    BY DEF IInv
  <2>2. repeated' \in BOOLEAN
    BY <1>5 DEF Copy
  <2>3. unsent' \subseteq FieldNames
    BY <1>1, <1>2
  <2>4. i' \in 1 .. 4 /\ pc' \in {"copy", "send"}
    BY <1>1, <1>3
  <2> QED BY <1>2, <1>4, <2>1, <2>2, <2>3, <2>4 DEF TelemetryTypeOK
<1>7. SentInv'
  <2>1. \A n \in 1 .. 4 : wlanstatus'[Field[n]] # 0 =>
          Field[n] \in unsent' \/ Copied(n)'
    BY <1>1, <1>2, <1>3, FieldFacts DEF IInv, SentInv, Copied
  <2> QED BY <1>3, <1>5, <2>1 DEF SentInv
<1>8. FreshInv'
  BY <1>2 DEF IInv, FreshInv, Optional
<1>9. BufferInv'
  <2>1. /\ wlanstatus["type"] \in 0 .. MaxReads
        /\ i = 1 => wlanstatus["type"] # 0
        /\ i > 1 => buffer["type"] # 0 /\ buffer["type"] <= reads
    BY <1>1, <1>2 DEF IInv, BufferInv, FieldNames
  <2>2. ~Optional("type")
    BY DEF Optional, OptionalOf
  <2>3. \A n \in 1 .. 4 :
          \/ Optional(Field[n])
          \/ wlanstatus[Field[n]] = 0
          \/ wlanstatus[Field[n]] = reads
          \/ wlanstatus[Field[n]] = reads - 1
    BY FieldFacts DEF IInv, FreshInv
  <2>4. buffer'["type"] # 0 /\ buffer'["type"] <= reads
    BY <1>1, <1>4, <2>1, <2>2, <2>3, FieldFacts
  <2>5. ASSUME NEW n \in 1 .. 4, n < i' \/ pc' = "send"
        PROVE  \/ Optional(Field[n])
               \/ buffer'[Field[n]] = 0
               \/ buffer'[Field[n]] >= buffer'["type"] - 1
    <3>1. CASE n = i
      BY <1>1, <1>4, <2>3, <2>4, <3>1, FieldFacts
    <3>2. CASE n # i
      <4>1. n < i /\ i > 1
        BY <1>1, <1>3, <2>5, <3>2
      <4>2. buffer'["type"] = buffer["type"]
        BY <1>1, <1>4, <4>1, FieldFacts
      <4> QED BY <1>1, <1>2, <1>4, <3>2, <4>1, <4>2 DEF IInv, BufferInv
    <3> QED BY <3>1, <3>2
  <2>6. ~(pc' = "copy" /\ i' = 1)
    BY <1>1, <1>3
  <2> QED BY <1>2, <2>4, <2>5, <2>6 DEF BufferInv, Optional
<1>10. ToldInv'
  BY <1>1, <1>2, <1>3, <1>4 DEF IInv, ToldInv
<1> QED BY <1>6, <1>7, <1>8, <1>9, <1>10 DEF IInv

LEMMA SendKeepsInv ==
  ASSUME IInv, Send
  PROVE  IInv'
<1>1. /\ wlantype' = wlantype /\ wlanstatus' = wlanstatus /\ todo' = todo
      /\ reads' = reads /\ i' = i /\ buffer' = Cleared /\ unsent' = unsent
      /\ repeated' = repeated /\ on' = on /\ voltage' = voltage
      /\ system_voltage' = system_voltage /\ pc = "send" /\ pc' = "clear"
      /\ told' = buffer["type"]
  BY DEF Send, Main
<1>2. i = 1
  BY <1>1 DEF IInv, SentInv
<1>3. TelemetryTypeOK'
  <2>1. TelemetryTypeOK
    BY DEF IInv
  <2>2. Cleared \in [FieldNames -> 0 .. MaxReads]
    BY TelemetryAssumption DEF Cleared
  <2>3. told' \in 0 .. MaxReads
    BY <1>1 DEF IInv, TelemetryTypeOK, FieldNames
  <2> QED BY <1>1, <2>1, <2>2, <2>3 DEF TelemetryTypeOK
<1>4. SentInv'
  BY <1>1, <1>2 DEF IInv, SentInv, Copied
<1>5. FreshInv'
  BY <1>1 DEF IInv, FreshInv, Optional
<1>6. BufferInv'
  BY <1>1 DEF BufferInv
<1>7. ToldInv'
  BY <1>1, <1>2 DEF IInv, BufferInv, ToldInv
<1> QED BY <1>3, <1>4, <1>5, <1>6, <1>7 DEF IInv

LEMMA ClearKeepsInv ==
  ASSUME IInv, Clear
  PROVE  IInv'
<1>1. /\ i \in 1 .. 4
      /\ wlanstatus \in [FieldNames -> 0 .. MaxReads]
  BY DEF IInv, TelemetryTypeOK
<1>2. /\ wlantype' = wlantype /\ buffer' = buffer /\ todo' = todo
      /\ reads' = reads /\ unsent' = unsent /\ on' = on
      /\ pc = "clear" /\ voltage' = voltage /\ repeated' = repeated
      /\ system_voltage' = system_voltage /\ told' = told
  BY DEF Clear
<1>3. \/ i < 4 /\ i' = i + 1 /\ pc' = "clear"
      \/ i = 4 /\ i' = 1 /\ pc' = "sleep"
  BY <1>1 DEF Clear
<1>4. /\ wlanstatus' \in [FieldNames -> 0 .. MaxReads]
      /\ \A f \in FieldNames :
           wlanstatus'[f] = IF f = Field[i] THEN 0 ELSE wlanstatus[f]
  <2>1. wlanstatus' = [wlanstatus EXCEPT ![Field[i]] = 0]
    BY DEF Clear
  <2>2. 0 \in 0 .. MaxReads
    BY TelemetryAssumption
  <2> QED BY <1>1, <2>1, <2>2, FieldFacts
<1>5. TelemetryTypeOK'
  <2>1. TelemetryTypeOK
    BY DEF IInv
  <2>2. i' \in 1 .. 4 /\ pc' \in {"clear", "sleep"}
    BY <1>1, <1>3
  <2> QED BY <1>2, <1>4, <2>1, <2>2 DEF TelemetryTypeOK
<1>6. SentInv'
  <2>1. \A n \in 1 .. 4 : wlanstatus'[Field[n]] # 0 =>
          Field[n] \in unsent' \/ Copied(n)'
    BY <1>1, <1>2, <1>3, <1>4, FieldFacts DEF IInv, SentInv, Copied
  <2> QED BY <1>2, <1>3, <2>1 DEF IInv, SentInv
<1>7. FreshInv'
  BY <1>2, <1>4 DEF IInv, FreshInv, Optional
<1>8. BufferInv'
  BY <1>3 DEF BufferInv
<1>9. ToldInv'
  BY <1>1, <1>2, <1>3, <1>4, FieldFacts DEF IInv, ToldInv
<1> QED BY <1>5, <1>6, <1>7, <1>8, <1>9 DEF IInv

-----------------------------------------------------------------------------
(* The invariant and the theorems.                                          *)

LEMMA StepKeepsInv == IInv /\ [TelemetryNext]_vars => IInv'
<1> SUFFICES ASSUME IInv, [TelemetryNext]_vars PROVE IInv'
  OBVIOUS
<1>1. CASE Read
  BY <1>1, ReadKeepsInv
<1>2. CASE Store
  BY <1>2, StoreKeepsInv
<1>3. CASE Sample \/ SendAlive \/ ReadInteger \/ SendVoltage \/ Sleep
  BY <1>3, QuietKeepsInv
<1>4. CASE CheckType
  BY <1>4, CheckTypeKeepsInv
<1>5. CASE Copy
  BY <1>5, CopyKeepsInv
<1>6. CASE Send
  BY <1>6, SendKeepsInv
<1>7. CASE Clear
  BY <1>7, ClearKeepsInv
<1>8. CASE Exit
  <2>1. on' \in BOOLEAN /\ Fresh(CON_NONE)
    BY <1>8 DEF Exit
  <2>2. CON_NONE \in WlanTypes
    BY DEF WlanTypes, CON_NONE, CON_UBIQ
  <2> QED BY <2>1, <2>2, FreshGivesInv
<1>9. CASE \E type \in WlanTypes : Start(type)
  <2>1. PICK type \in WlanTypes : on' = TRUE /\ Fresh(type)
    BY <1>9 DEF Start
  <2> QED BY <2>1, FreshGivesInv
<1>10. CASE UNCHANGED vars
  BY <1>10 DEF vars, IInv, TelemetryTypeOK, SentInv, Copied, FreshInv,
               Optional, BufferInv, ToldInv
<1> QED BY <1>1, <1>2, <1>3, <1>4, <1>5, <1>6, <1>7, <1>8, <1>9, <1>10
        DEF TelemetryNext, Reader, MainLoop

LEMMA SpecKeepsInv == TelemetrySpec => []IInv
<1>1. TelemetryInit => IInv
  BY InitGivesInv
<1>2. IInv /\ [TelemetryNext]_vars => IInv'
  BY StepKeepsInv
<1> QED BY <1>1, <1>2, PTL DEF TelemetrySpec

\* Every global of the telemetry keeps its type, and what a reading has yet
\* to store is the rest of one reading of the link the board is set up for
\* (voltage.c, wlanstatus.c, rcboard.c).
THEOREM TelemetryTypes == TelemetrySpec => []TelemetryTypeOK
<1>1. IInv => TelemetryTypeOK
  BY DEF IInv
<1> QED BY <1>1, SpecKeepsInv, PTL

\* However the stores of the wireless thread fall between the copy and the
\* memset of SendSignalStatus, no field that was sent is sent again.
THEOREM SentOnce == TelemetrySpec => []SentAtMostOnce
<1>1. IInv => SentAtMostOnce
  BY DEF IInv, SentInv, SentAtMostOnce
<1> QED BY <1>1, SpecKeepsInv, PTL

\* A status that is sent has a type, and nothing in it is older than the
\* status sent before it, however long the texts are and wherever a store
\* falls between copy and memset; what every reading stores is no older than
\* the reading before the type's (SendSignalStatus, ReadWiFi, YotaCurlParser).
THEOREM NothingStaleSent == TelemetrySpec => []NothingStale
<1>1. IInv => NothingStale
  BY FieldFacts DEF IInv, BufferInv, ToldInv, NothingStale, Optional, OptionalOf
<1> QED BY <1>1, SpecKeepsInv, PTL

=============================================================================
