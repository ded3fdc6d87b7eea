--------------------------- MODULE KvServerProofs ---------------------------
(***************************************************************************)
(* The key-value server keeps the commands of its clients apart, for any   *)
(* number of clients, any words and any buffer sizes.                      *)
(***************************************************************************)
EXTENDS KvServer, NatFacts, SequenceTheorems, TLAPS

----------------------------------------------------------------------------
(* The places of tokens *)

\* What strtok_r skips, where the token it finds begins, and what ends it.
LEMMA TokenPlace ==
  ASSUME NEW buffer \in Seq(Word), NEW from \in 1 .. Len(buffer) + 1
  PROVE  LET token == strtok_r(buffer)[from]
         IN  /\ token.first \in from .. Len(buffer) + 1
             /\ token.last \in token.first - 1 .. Len(buffer)
             /\ \A i \in from .. token.first - 1 : buffer[i] = Space
             /\ \A i \in token.first .. token.last : buffer[i] # Space
             /\ token.first <= Len(buffer) => token.first <= token.last
             /\ token.last < Len(buffer) => buffer[token.last + 1] = Space
<1> DEFINE end   == Len(buffer) + 1
           Begins == {i \in from .. end : i = end \/ buffer[i] # Space}
           first == Min(Begins)
           Ends  == {i \in first .. end : i = end \/ buffer[i] = Space}
           after == Min(Ends)
<1>1. end \in Nat /\ from \in Nat /\ from <= end /\ end = Len(buffer) + 1
  BY LenProperties
<1>2. Begins \in SUBSET Nat /\ end \in Begins
  BY <1>1
<1>3. first \in Begins /\ \A i \in Begins : first <= i
  <2> HIDE DEF Begins
  <2> QED BY <1>2, MinIsLeast
<1>4. first \in from .. end /\ (first = end \/ buffer[first] # Space)
  BY <1>3
<1>5. \A i \in from .. first - 1 : buffer[i] = Space
  <2>1. ASSUME NEW i \in from .. first - 1, buffer[i] # Space PROVE FALSE
    <3>1. i \in Begins /\ i < first
      BY <2>1, <1>1, <1>4
    <3> QED BY <3>1, <1>3
  <2> QED BY <2>1
<1> HIDE DEF first
<1>6. Ends \in SUBSET Nat /\ end \in Ends
  BY <1>1, <1>4
<1>7. after \in Ends /\ \A i \in Ends : after <= i
  <2> HIDE DEF Ends
  <2> QED BY <1>6, MinIsLeast
<1>8. after \in first .. end /\ (after = end \/ buffer[after] = Space)
  BY <1>7
<1>9. \A i \in first .. after - 1 : buffer[i] # Space
  <2>1. ASSUME NEW i \in first .. after - 1, buffer[i] = Space PROVE FALSE
    <3>1. i \in Ends /\ i < after
      BY <2>1, <1>1, <1>4, <1>8
    <3> QED BY <3>1, <1>7
  <2> QED BY <2>1
<1>10. strtok_r(buffer)[from] = [first |-> first, last |-> after - 1]
  BY DEF strtok_r, first
<1> HIDE DEF after, Ends, Begins
<1>11. first < end => first < after
  BY <1>1, <1>4, <1>8
<1> QED BY <1>1, <1>4, <1>5, <1>8, <1>9, <1>10, <1>11

\* One of the three tokens is there only if those before it are; the command
\* begins where first does, and between the second and the third token there
\* is nothing but spaces, at least one.
LEMMA TokenText ==
  ASSUME NEW buffer \in Seq(Word), NEW tokens, tokens = Tokens(buffer)
  PROVE  /\ tokens.argument \in Seq(Word) /\ tokens.value \in Seq(Word)
         /\ tokens.argument # NULL =>
               \E i \in 1 .. Len(buffer) : tokens.command[1] = buffer[i]
         /\ tokens.argument # NULL /\ tokens.value # NULL =>
               \E b, e, f, g \in 1 .. Len(buffer) :
                  /\ b <= e /\ e + 1 < f /\ f <= g
                  /\ tokens.argument = SubSeq(buffer, b, e)
                  /\ tokens.value = SubSeq(buffer, f, g)
                  /\ \A i \in e + 1 .. f - 1 : buffer[i] = Space
<1> DEFINE first  == strtok_r(buffer)[1]
           second == strtok_r(buffer)[first.last + 1]
           third  == strtok_r(buffer)[second.last + 1]
<1>0. Len(buffer) \in Nat
  BY LenProperties
<1>1. /\ first.first \in 1 .. Len(buffer) + 1
      /\ first.last \in first.first - 1 .. Len(buffer)
      /\ first.first <= Len(buffer) => first.first <= first.last
  <2>1. 1 \in 1 .. Len(buffer) + 1
    BY <1>0
  <2> QED BY <2>1, TokenPlace
<1> HIDE DEF first
<1>2. first.last + 1 \in 1 .. Len(buffer) + 1
  BY <1>0, <1>1
<1>3. /\ second.first \in first.last + 1 .. Len(buffer) + 1
      /\ second.last \in second.first - 1 .. Len(buffer)
      /\ second.first <= Len(buffer) => second.first <= second.last
      /\ second.last < Len(buffer) => buffer[second.last + 1] = Space
  BY <1>2, TokenPlace
<1> HIDE DEF second
<1>4. second.last + 1 \in 1 .. Len(buffer) + 1
  BY <1>0, <1>1, <1>3, SMTT(30)
<1>5. /\ third.first \in second.last + 1 .. Len(buffer) + 1
      /\ third.last \in third.first - 1 .. Len(buffer)
      /\ \A i \in second.last + 1 .. third.first - 1 : buffer[i] = Space
      /\ \A i \in third.first .. third.last : buffer[i] # Space
      /\ third.first <= Len(buffer) => third.first <= third.last
  BY <1>4, TokenPlace
<1>6. /\ tokens.command = SubSeq(buffer, first.first, first.last)
      /\ tokens.argument = SubSeq(buffer, second.first, second.last)
      /\ tokens.value = SubSeq(buffer, third.first, third.last)
  BY DEF Tokens, Text, first, second
<1> HIDE DEF third
<1>7. tokens.argument \in Seq(Word) /\ tokens.value \in Seq(Word)
  <2>1. SubSeq(buffer, second.first, second.last) \in Seq(Word)
    <3>1. second.first \in 1 .. Len(buffer) + 1
      BY <1>0, <1>1, <1>3
    <3> QED BY <3>1, <1>3, PartOfSeq
  <2>2. SubSeq(buffer, third.first, third.last) \in Seq(Word)
    <3>1. third.first \in 1 .. Len(buffer) + 1
      BY <1>0, <1>1, <1>3, <1>5, SMTT(30)
    <3> QED BY <3>1, <1>5, PartOfSeq
  <2> QED BY <2>1, <2>2, <1>6
<1>8. ASSUME tokens.argument # NULL
      PROVE  /\ second.first <= second.last
             /\ \E i \in 1 .. Len(buffer) : tokens.command[1] = buffer[i]
  <2>1. second.first <= second.last
    <3>1. CASE second.first > second.last
      <4>1. SubSeq(buffer, second.first, second.last) = <<>>
        BY <3>1, <1>0, <1>1, <1>3, SubSeqEmpty
      <4> QED BY <4>1, <1>6, <1>8 DEF NULL
    <3> QED BY <3>1, <1>0, <1>1, <1>3
  <2>2. first.first \in 1 .. Len(buffer) /\ first.first <= first.last
    BY <2>1, <1>0, <1>1, <1>3
  <2>3. SubSeq(buffer, first.first, first.last)[1] = buffer[first.first]
    <3>1. 1 \in 1 .. first.last - first.first + 1
      BY <2>2, <1>0, <1>1
    <3>2. SubSeq(buffer, first.first, first.last)[1] = buffer[first.first + 1 - 1]
      BY <3>1, <1>1, PartOfSeq
    <3> QED BY <3>2, <2>2, <1>0
  <2> QED BY <2>1, <2>2, <2>3, <1>6
<1>9. ASSUME tokens.argument # NULL, tokens.value # NULL
      PROVE  \E b, e, f, g \in 1 .. Len(buffer) :
                  /\ b <= e /\ e + 1 < f /\ f <= g
                  /\ tokens.argument = SubSeq(buffer, b, e)
                  /\ tokens.value = SubSeq(buffer, f, g)
                  /\ \A i \in e + 1 .. f - 1 : buffer[i] = Space
  <2>1. second.first <= second.last
    BY <1>8, <1>9
  <2>2. third.first <= third.last
    <3>1. CASE third.first > third.last
      <4>1. SubSeq(buffer, third.first, third.last) = <<>>
        BY <3>1, <1>0, <1>1, <1>3, <1>5, SubSeqEmpty
      <4> QED BY <4>1, <1>6, <1>9 DEF NULL
    <3> QED BY <3>1, <1>0, <1>1, <1>3, <1>5
  <2>3. second.last + 1 < third.first
    <3>1. second.last < Len(buffer)
      BY <2>2, <1>0, <1>1, <1>3, <1>5
    <3>2. third.first # second.last + 1
      <4>1. third.first \in third.first .. third.last
        BY <2>2, <1>0, <1>1, <1>3, <1>5
      <4> QED BY <4>1, <3>1, <1>3, <1>5
    <3> QED BY <3>2, <1>0, <1>1, <1>3, <1>5
  <2>4. /\ second.first \in 1 .. Len(buffer) /\ second.last \in 1 .. Len(buffer)
        /\ third.first \in 1 .. Len(buffer) /\ third.last \in 1 .. Len(buffer)
    <3>1. /\ second.first \in Int /\ second.last \in Int
          /\ third.first \in Int /\ third.last \in Int
          /\ 1 <= first.last + 1 /\ first.last \in Int
      BY <1>0, <1>1, <1>3, <1>5
    <3>2. /\ first.last + 1 <= second.first /\ second.last <= Len(buffer)
          /\ second.last + 1 <= third.first /\ third.last <= Len(buffer)
      BY <3>1, <1>0, <1>3, <1>5
    <3> QED BY <3>1, <3>2, <2>1, <2>2, <1>0, SMTT(30)
  <2> USE <2>4
  <2> WITNESS second.first \in 1 .. Len(buffer), second.last \in 1 .. Len(buffer),
              third.first \in 1 .. Len(buffer), third.last \in 1 .. Len(buffer)
  <2> QED BY <2>1, <2>2, <2>3, <1>5, <1>6
<1> QED BY <1>7, <1>8, <1>9

----------------------------------------------------------------------------
(* The storage *)

\* find is the place of an item with the key, and 0 only if there is none.
LEMMA FindFinds ==
  ASSUME NEW key
  PROVE  /\ find(key) \in 0 .. Len(storage)
         /\ find(key) # 0 => storage[find(key)].key = key
         /\ find(key) = 0 => \A i \in 1 .. Len(storage) : storage[i].key # key
<1> DEFINE I == {i \in 1 .. Len(storage) : storage[i].key = key}
<1>1. find(key) = IF I # {} THEN Min(I) ELSE 0
  BY DEF find, SelectInSeq
<1>2. CASE I = {}
  BY <1>1, <1>2
<1>3. CASE I # {}
  <2>1. I \in SUBSET Nat
    OBVIOUS
  <2>2. Min(I) \in I
    <3> HIDE DEF I
    <3> QED BY <2>1, <1>3, MinIsLeast
  <2> QED BY <2>2, <1>1, <1>3
<1> QED BY <1>2, <1>3

Item == [key : Seq(Word), value : Seq(Word)]

\* set puts the value at the one place of the key.
LEMMA SetSets ==
  ASSUME storage \in Seq(Item), NEW key \in Seq(Word), NEW value \in Seq(Word),
         set(key, value)
  PROVE  /\ storage' \in Seq(Item)
         /\ \A i \in 1 .. Len(storage') :
               \/ storage'[i].key = key /\ storage'[i].value = value
               \/ \E j \in 1 .. Len(storage) : storage'[i] = storage[j]
         /\ (\A i, j \in 1 .. Len(storage) : storage[i].key = storage[j].key => i = j)
            => \A i, j \in 1 .. Len(storage') : storage'[i].key = storage'[j].key => i = j
<1> DEFINE item == [key |-> key, value |-> value]
<1>1. item \in Item /\ <<item>> \in Seq(Item) /\ Len(<<item>>) = 1 /\ Len(storage) \in Nat
  BY LenProperties DEF Item
<1>2. CASE find(key) = 0
  <2>1. storage' = <<item>> \o storage
    BY <1>2 DEF set
  <2>2. /\ storage' \in Seq(Item) /\ Len(storage') = Len(storage) + 1
        /\ \A i \in 1 .. Len(storage') :
              storage'[i] = IF i = 1 THEN item ELSE storage[i - 1]
    BY <2>1, <1>1, ConcatProperties
  <2>3. \A i \in 1 .. Len(storage) : storage[i].key # key
    BY <1>2, FindFinds
  <2>4. \A i \in 1 .. Len(storage') :
            \/ i = 1 /\ storage'[i].key = key /\ storage'[i].value = value
            \/ i > 1 /\ i - 1 \in 1 .. Len(storage) /\ storage'[i] = storage[i - 1]
    BY <2>2, <1>1
  <2>5. \A i \in 1 .. Len(storage') :
            \/ storage'[i].key = key /\ storage'[i].value = value
            \/ \E j \in 1 .. Len(storage) : storage'[i] = storage[j]
    BY <2>4
  <2>6. ASSUME \A i, j \in 1 .. Len(storage) : storage[i].key = storage[j].key => i = j,
               NEW i \in 1 .. Len(storage'), NEW j \in 1 .. Len(storage'),
               storage'[i].key = storage'[j].key
        PROVE  i = j
    <3>1. CASE i = 1 /\ j = 1
      BY <3>1
    <3>2. CASE i = 1 /\ j > 1
      <4>1. j - 1 \in 1 .. Len(storage) /\ storage'[j] = storage[j - 1]
        BY <3>2, <2>4
      <4>2. storage[j - 1].key = key
        BY <4>1, <3>2, <2>4, <2>6
      <4> QED BY <4>1, <4>2, <2>3
    <3>3. CASE i > 1 /\ j = 1
      <4>1. i - 1 \in 1 .. Len(storage) /\ storage'[i] = storage[i - 1]
        BY <3>3, <2>4
      <4>2. storage[i - 1].key = key
        BY <4>1, <3>3, <2>4, <2>6
      <4> QED BY <4>1, <4>2, <2>3
    <3>4. CASE i > 1 /\ j > 1
      <4>1. i - 1 \in 1 .. Len(storage) /\ storage'[i] = storage[i - 1]
        BY <3>4, <2>4
      <4>2. j - 1 \in 1 .. Len(storage) /\ storage'[j] = storage[j - 1]
        BY <3>4, <2>4
      <4>3. storage[i - 1].key = storage[j - 1].key
        BY <4>1, <4>2, <2>6
      <4>4. i - 1 = j - 1
        BY <4>1, <4>2, <4>3, <2>6
      <4> QED BY <4>4
    <3> QED BY <3>1, <3>2, <3>3, <3>4
  <2> QED BY <2>2, <2>5, <2>6
<1>3. CASE find(key) # 0
  <2>1. find(key) \in 1 .. Len(storage) /\ storage[find(key)].key = key
    BY <1>3, <1>1, FindFinds
  <2>2. storage' = [storage EXCEPT ![find(key)].value = value]
    BY <1>3 DEF set
  <2>3. storage[find(key)] \in Item
    BY <2>1, ElementOfSeq
  <2>4. /\ storage' \in Seq(Item) /\ Len(storage') = Len(storage)
        /\ \A i \in 1 .. Len(storage) :
              storage'[i] = IF i = find(key) THEN [storage[i] EXCEPT !.value = value]
                            ELSE storage[i]
    <3>1. storage' = [storage EXCEPT ![find(key)] =
                                [storage[find(key)] EXCEPT !.value = value]]
      BY <2>2
    <3>2. [storage[find(key)] EXCEPT !.value = value] \in Item
      BY <2>3 DEF Item
    <3> DEFINE new == [storage[find(key)] EXCEPT !.value = value]
    <3>3. new \in Item /\ storage' = [storage EXCEPT ![find(key)] = new]
      BY <3>1, <3>2
    <3>4. \A i \in 1 .. Len(storage) : i = find(key) =>
              new = [storage[i] EXCEPT !.value = value]
      OBVIOUS
    <3> HIDE DEF new
    <3>5. /\ [storage EXCEPT ![find(key)] = new] \in Seq(Item)
          /\ Len([storage EXCEPT ![find(key)] = new]) = Len(storage)
          /\ \A i \in 1 .. Len(storage) : [storage EXCEPT ![find(key)] = new][i] =
                IF i = find(key) THEN new ELSE storage[i]
      BY <3>3, <2>1, ExceptSeq
    <3> QED BY <3>3, <3>4, <3>5
  <2>5. \A i \in 1 .. Len(storage) : storage'[i].key = storage[i].key
    BY <2>4, <2>3 DEF Item
  <2>6. storage'[find(key)].value = value
    BY <2>4, <2>3, <2>1 DEF Item
  <2> QED BY <2>1, <2>4, <2>5, <2>6
<1> QED BY <1>2, <1>3

----------------------------------------------------------------------------
(* The text of the clients *)

\* No text begins or ends with a space, or has two in a row.
Separated(text) ==
    \A i \in 1 .. Len(text) :
        text[i] = Space => 1 < i /\ i < Len(text) /\ text[i + 1] # Space

\* A command is separated text.
LEMMA CommandText ==
  ASSUME NEW cmd \in Command
  PROVE  TextOf(cmd) \in Seq(Word) /\ Separated(TextOf(cmd))
<1>1. Terminator \in Seq(Word) /\ Len(Terminator) \in Nat
      /\ \A i \in 1 .. Len(Terminator) : Terminator[i] = Newline
  BY KvServerAssumption, ElementOfSeq, LenProperties DEF Word, Newline
<1>2. CASE cmd \in [op : {"get"}, key : Keys]
  <2> DEFINE text == <<"get", Space, cmd.key>>
  <2>1. /\ text \in Seq(Word) /\ Len(text) = 3 /\ cmd.key # Space
        /\ text[1] = "get" /\ text[2] = Space /\ text[3] = cmd.key
    BY <1>2, KvServerAssumption DEF Word, Space
  <2>2. TextOf(cmd) = text \o Terminator
    BY <1>2 DEF TextOf
  <2> HIDE DEF text
  <2>3. /\ TextOf(cmd) \in Seq(Word) /\ Len(TextOf(cmd)) = 3 + Len(Terminator)
        /\ \A i \in 1 .. 3 + Len(Terminator) : TextOf(cmd)[i] =
               IF i <= 3 THEN text[i] ELSE Terminator[i - 3]
    <3>1. /\ text \o Terminator \in Seq(Word)
          /\ Len(text \o Terminator) = Len(text) + Len(Terminator)
          /\ \A i \in 1 .. Len(text) + Len(Terminator) : (text \o Terminator)[i] =
               IF i <= Len(text) THEN text[i] ELSE Terminator[i - Len(text)]
      BY <2>1, <1>1, ConcatProperties
    <3> QED BY <3>1, <2>1, <2>2
  <2>4. ASSUME NEW i \in 1 .. 3 + Len(Terminator), TextOf(cmd)[i] = Space
        PROVE  i = 2 /\ TextOf(cmd)[i + 1] # Space
    <3>1. i <= 3
      <4>1. CASE i > 3
        <5>1. i - 3 \in 1 .. Len(Terminator) /\ TextOf(cmd)[i] = Terminator[i - 3]
          BY <4>1, <2>3, <1>1
        <5> QED BY <5>1, <2>4, <1>1 DEF Newline, Space
      <4> QED BY <4>1
    <3>2. TextOf(cmd)[i] = text[i]
      BY <3>1, <2>3
    <3>3. i = 2
      <4>1. i = 1 \/ i = 2 \/ i = 3
        BY <3>1
      <4> QED BY <4>1, <3>2, <2>1, <2>4 DEF Space
    <3>4. i + 1 \in 1 .. 3 + Len(Terminator) /\ i + 1 <= 3
      BY <3>3, <1>1
    <3>5. TextOf(cmd)[i + 1] = text[i + 1]
      BY <3>4, <2>3
    <3> QED BY <3>3, <3>5, <2>1
  <2> QED BY <2>3, <2>4, <1>1 DEF Separated
<1>3. CASE cmd \in [op : {"set"}, key : Keys, value : Values]
  <2> DEFINE text == <<"set", Space, cmd.key, Space, cmd.value>>
  <2>1. /\ text \in Seq(Word) /\ Len(text) = 5 /\ cmd.key # Space /\ cmd.value # Space
        /\ text[1] = "set" /\ text[2] = Space /\ text[3] = cmd.key
        /\ text[4] = Space /\ text[5] = cmd.value
    BY <1>3, KvServerAssumption DEF Word, Space
  <2>2. TextOf(cmd) = text \o Terminator
    BY <1>3 DEF TextOf
  <2> HIDE DEF text
  <2>3. /\ TextOf(cmd) \in Seq(Word) /\ Len(TextOf(cmd)) = 5 + Len(Terminator)
        /\ \A i \in 1 .. 5 + Len(Terminator) : TextOf(cmd)[i] =
               IF i <= 5 THEN text[i] ELSE Terminator[i - 5]
    <3>1. /\ text \o Terminator \in Seq(Word)
          /\ Len(text \o Terminator) = Len(text) + Len(Terminator)
          /\ \A i \in 1 .. Len(text) + Len(Terminator) : (text \o Terminator)[i] =
               IF i <= Len(text) THEN text[i] ELSE Terminator[i - Len(text)]
      BY <2>1, <1>1, ConcatProperties
    <3> QED BY <3>1, <2>1, <2>2
  <2>4. ASSUME NEW i \in 1 .. 5 + Len(Terminator), TextOf(cmd)[i] = Space
        PROVE  (i = 2 \/ i = 4) /\ TextOf(cmd)[i + 1] # Space
    <3>1. i <= 5
      <4>1. CASE i > 5
        <5>1. i - 5 \in 1 .. Len(Terminator) /\ TextOf(cmd)[i] = Terminator[i - 5]
          BY <4>1, <2>3, <1>1
        <5> QED BY <5>1, <2>4, <1>1 DEF Newline, Space
      <4> QED BY <4>1
    <3>2. TextOf(cmd)[i] = text[i]
      BY <3>1, <2>3
    <3>3. i = 2 \/ i = 4
      <4>1. i = 1 \/ i = 2 \/ i = 3 \/ i = 4 \/ i = 5
        BY <3>1
      <4> QED BY <4>1, <3>2, <2>1, <2>4 DEF Space
    <3>4. i + 1 \in 1 .. 5 + Len(Terminator) /\ i + 1 <= 5
      BY <3>3, <1>1
    <3>5. TextOf(cmd)[i + 1] = text[i + 1]
      BY <3>4, <2>3
    <3> QED BY <3>3, <3>5, <2>1
  <2> QED BY <2>3, <2>4, <1>1 DEF Separated
<1> QED BY <1>2, <1>3 DEF Command

\* Separated texts make separated text.
LEMMA TextGrows ==
  ASSUME NEW s \in Seq(Word), NEW t \in Seq(Word), Separated(s), Separated(t)
  PROVE  Separated(s \o t)
<1>1. /\ Len(s) \in Nat /\ Len(t) \in Nat /\ Len(s \o t) = Len(s) + Len(t)
      /\ \A i \in 1 .. Len(s) + Len(t) :
             (s \o t)[i] = IF i <= Len(s) THEN s[i] ELSE t[i - Len(s)]
  BY ConcatProperties, LenProperties
<1> SUFFICES ASSUME NEW i \in 1 .. Len(s) + Len(t), (s \o t)[i] = Space
             PROVE  1 < i /\ i < Len(s) + Len(t) /\ (s \o t)[i + 1] # Space
  BY <1>1 DEF Separated
<1>2. CASE i <= Len(s)
  <2>1. s[i] = Space /\ i \in 1 .. Len(s)
    BY <1>1, <1>2
  <2>2. 1 < i /\ i < Len(s) /\ s[i + 1] # Space
    BY <2>1 DEF Separated
  <2>3. i + 1 \in 1 .. Len(s) + Len(t) /\ i + 1 <= Len(s)
    BY <2>2, <1>1
  <2> QED BY <2>2, <2>3, <1>1
<1>3. CASE i > Len(s)
  <2> DEFINE j == i - Len(s)
  <2>1. t[j] = Space /\ j \in 1 .. Len(t)
    BY <1>1, <1>3
  <2>2. 1 < j /\ j < Len(t) /\ t[j + 1] # Space
    BY <2>1 DEF Separated
  <2>3. /\ i + 1 \in 1 .. Len(s) + Len(t) /\ ~ i + 1 <= Len(s)
        /\ (i + 1) - Len(s) = j + 1
    BY <2>2, <1>1, <1>3
  <2> QED BY <2>2, <2>3, <1>1
<1> QED BY <1>2, <1>3, <1>1

\* What occurs in a text still does when the text has grown.
LEMMA OccursStays ==
  ASSUME NEW s \in Seq(Word), NEW t \in Seq(Word), NEW text \in Seq(Word),
         Occurs(text, s)
  PROVE  Occurs(text, s \o t)
<1>1. PICK i \in 0 .. Len(s) - Len(text) : SubSeq(s, i + 1, i + Len(text)) = text
  BY DEF Occurs
<1>2. /\ Len(s) \in Nat /\ Len(t) \in Nat /\ Len(text) \in Nat
      /\ Len(s \o t) = Len(s) + Len(t)
  BY ConcatProperties, LenProperties
<1>3. i \in 0 .. Len(s \o t) - Len(text)
  BY <1>2
<1>4. SubSeq(s \o t, i + 1, i + Len(text)) = SubSeq(s, i + 1, i + Len(text))
  <2>1. CASE Len(text) = 0
    BY <2>1, <1>2, SubSeqEmpty
  <2>2. CASE Len(text) > 0
    <3>1. i + 1 \in 1 .. Len(s) /\ i + Len(text) \in 1 .. Len(s)
      BY <2>2, <1>2
    <3> QED BY <3>1, SubSeqOfConcat1
  <2> QED BY <2>1, <2>2, <1>2
<1> QED BY <1>1, <1>3, <1>4 DEF Occurs

----------------------------------------------------------------------------
(* The invariant *)

\* An answer is written to a client in the list, and the list has no more
\* clients than there are descriptors.
Cycle == /\ pc = "response" => pos <= Len(clients)
         /\ Len(clients) <= MaxFds

\* The server stops at a dead connection or without descriptors.
Stops == pc = "exit" => (\E c \in Conn : Dead(c)) \/ Len(clients) = MaxFds

Inv == /\ Cycle
       /\ \A c \in Conn : Separated(sent[c])
       /\ ItemsFromOneClient
       /\ Stops

\* Nothing is stored, nobody is in the list.
LEMMA InitInv == Init => Inv
<1> SUFFICES ASSUME Init PROVE Inv
  OBVIOUS
<1> USE KvServerAssumption DEF Init
<1>1. <<>> \in Seq(Conn) /\ <<>> \in Seq(Word) /\ Len(<<>>) = 0 /\ <<>> \in Seq(Item)
  BY EmptySeq
<1>2. TypeOK
  BY <1>1 DEF TypeOK, Item
<1> QED BY <1>1, <1>2 DEF Inv, Cycle, Separated, ItemsFromOneClient, Stops, Dead

\* The clients leave the server alone; what they send is separated text, and
\* what was sent before stays as it is.
LEMMA ClientInv ==
  ASSUME Inv, NEW c \in Conn, Client(c)
  PROVE  Inv'
<1> USE DEF Inv
<1>0. TypeOK
  BY DEF ItemsFromOneClient
<1>1. CASE Connect(c)
  <2>1. Append(backlog, c) \in Seq(Conn)
    BY <1>0, AppendProperties DEF TypeOK
  <2>2. TypeOK'
    BY <2>1, <1>0, <1>1 DEF Connect, TypeOK
  <2> QED BY <2>2, <1>0, <1>1, ZenonT(60)
          DEF Connect, Cycle, ItemsFromOneClient, Stops, Dead, TypeOK, Occurs, Separated
<1>2. CASE Send(c)
  <2>1. PICK cmd \in Command : sent' = [sent EXCEPT ![c] = @ \o TextOf(cmd)]
    BY <1>2 DEF Send
  <2>2. TextOf(cmd) \in Seq(Word) /\ Separated(TextOf(cmd))
    BY CommandText
  <2>3. sent[c] \in Seq(Word) /\ sent'[c] = sent[c] \o TextOf(cmd)
        /\ \A d \in Conn : d # c => sent'[d] = sent[d]
    BY <2>1, <1>0 DEF TypeOK
  <2>4. sent'[c] \in Seq(Word) /\ Len(sent[c]) <= Len(sent'[c])
    <3>1. Len(sent[c]) \in Nat /\ Len(TextOf(cmd)) \in Nat
      BY <2>2, <2>3, LenProperties
    <3> QED BY <2>2, <2>3, <3>1, ConcatProperties
  <2>5. \A d \in Conn : Len(sent[d]) <= Len(sent'[d])
    <3> TAKE d \in Conn
    <3>1. CASE d = c
      BY <3>1, <2>4
    <3>2. CASE d # c
      <4>1. Len(sent[d]) \in Nat
        BY <1>0, LenProperties DEF TypeOK
      <4> QED BY <4>1, <3>2, <2>3
    <3> QED BY <3>1, <3>2
  <2>6. TypeOK'
    <3>1. sent' \in [Conn -> Seq(Word)]
      BY <2>1, <2>3, <2>4, <1>0 DEF TypeOK
    <3>2. \A d \in Conn : taken'[d] <= Len(sent'[d])
      <4> TAKE d \in Conn
      <4>1. taken[d] \in Nat /\ taken[d] <= Len(sent[d]) /\ taken' = taken
        BY <1>0, <1>2 DEF Send, TypeOK
      <4>2. Len(sent[d]) \in Nat /\ Len(sent'[d]) \in Nat
        BY <3>1, <1>0, LenProperties DEF TypeOK
      <4> QED BY <4>1, <4>2, <2>5
    <3> QED BY <3>1, <3>2, <1>0, <1>2 DEF Send, TypeOK
  <2>7. \A d \in Conn : Separated(sent'[d])
    BY <2>2, <2>3, TextGrows
  <2>8. \A text \in Seq(Word), d \in Conn : Occurs(text, sent[d]) => Occurs(text, sent'[d])
    BY <2>2, <2>3, OccursStays
  <2>9. ItemsFromOneClient'
    <3>1. storage' = storage
      BY <1>2 DEF Send
    <3>2. \A i \in DOMAIN storage : storage[i].key \o <<Space>> \o storage[i].value \in Seq(Word)
      <4> TAKE i \in DOMAIN storage
      <4>1. storage[i].key \in Seq(Word) /\ storage[i].value \in Seq(Word)
        <5>1. storage \in Seq(Item)
          BY <1>0 DEF TypeOK, Item
        <5>2. storage[i] \in Item
          BY <5>1, ElementOfSeq, LenProperties
        <5> QED BY <5>2 DEF Item
      <4>2. <<Space>> \in Seq(Word)
        BY DEF Word
      <4> QED BY <4>1, <4>2, ConcatProperties
    <3> QED BY <2>6, <2>8, <3>1, <3>2 DEF ItemsFromOneClient
  <2>10. Cycle' /\ Stops'
    BY <1>2 DEF Send, Cycle, Stops, Dead
  <2> QED BY <2>7, <2>9, <2>10
<1>3. CASE Receive(c)
  <2>1. TypeOK'
    BY <1>0, <1>3, KvServerAssumption, EmptySeq DEF Receive, TypeOK
  <2> QED BY <2>1, <1>3 DEF Receive, Cycle, ItemsFromOneClient, Stops, Dead
<1>4. CASE Close(c)
  <2>1. TypeOK'
    BY <1>0, <1>4, KvServerAssumption, EmptySeq DEF Close, TypeOK
  <2> QED BY <2>1, <1>0, <1>4 DEF Close, Cycle, ItemsFromOneClient, Stops, Dead, TypeOK
<1> QED BY <1>1, <1>2, <1>3, <1>4 DEF Client

\* accept puts a client into the list; it stops the server only when the
\* descriptors are used up.
LEMMA AcceptInv ==
  ASSUME Inv, Accept \/ AcceptNobody \/ AcceptFails \/ ScanEnds
  PROVE  Inv'
<1> USE DEF Inv, network
<1>0. TypeOK /\ Len(clients) \in Nat /\ MaxFds \in Nat
  BY KvServerAssumption, LenProperties DEF ItemsFromOneClient, TypeOK
<1>1. CASE Accept
  <2>1. /\ Head(backlog) \in Conn /\ Tail(backlog) \in Seq(Conn)
        /\ <<Head(backlog)>> \in Seq(Conn) /\ Len(<<Head(backlog)>>) = 1
    BY <1>0, <1>1, HeadTailProperties DEF Accept, TypeOK
  <2>2. clients' \in Seq(Conn) /\ Len(clients') = 1 + Len(clients)
    BY <2>1, <1>0, <1>1, ConcatProperties DEF Accept, TypeOK
  <2>3. TypeOK'
    BY <2>1, <2>2, <1>0, <1>1, SMTT(30) DEF Accept, TypeOK
  <2> QED BY <2>2, <2>3, <1>0, <1>1
          DEF Accept, Cycle, ItemsFromOneClient, Stops, Dead
<1>2. CASE AcceptNobody
  <2>1. TypeOK'
    BY <1>0, <1>2 DEF AcceptNobody, TypeOK
  <2> QED BY <2>1, <1>2 DEF AcceptNobody, Cycle, ItemsFromOneClient, Stops, Dead
<1>3. CASE AcceptFails
  <2>1. TypeOK'
    BY <1>0, <1>3 DEF AcceptFails, TypeOK
  <2> QED BY <2>1, <1>0, <1>3 DEF AcceptFails, Cycle, ItemsFromOneClient, Stops, Dead
<1>4. CASE ScanEnds
  <2>1. TypeOK'
    BY <1>0, <1>4 DEF ScanEnds, TypeOK
  <2> QED BY <2>1, <1>4 DEF ScanEnds, Cycle, ItemsFromOneClient, Stops, Dead
<1> QED BY <1>1, <1>2, <1>3, <1>4

\* A read returns the next words of what its client sent.
LEMMA ReadPart ==
  ASSUME TypeOK, NEW c \in Conn, NEW buffer \in Reads(c)
  PROVE  /\ buffer \in Seq(Word)
         /\ Len(buffer) \in 1 .. Len(sent[c]) - taken[c]
         /\ buffer = SubSeq(sent[c], taken[c] + 1, taken[c] + Len(buffer))
         /\ \A i \in 1 .. Len(buffer) : buffer[i] = sent[c][taken[c] + i]
<1> DEFINE s == sent[c]
           k == taken[c]
<1>1. s \in Seq(Word) /\ Len(s) \in Nat /\ k \in Nat /\ k <= Len(s)
  BY LenProperties DEF TypeOK
<1>2. Inbox(c) \in Seq(Word) /\ Len(Inbox(c)) = Len(s) - k
  <2>1. k + 1 \in 1 .. Len(s) + 1 /\ Len(s) \in (k + 1) - 1 .. Len(s)
    BY <1>1
  <2>2. Len(s) - (k + 1) + 1 = Len(s) - k
    BY <1>1
  <2> QED BY <2>1, <2>2, <1>1, PartOfSeq DEF Inbox
<1>3. PICK n \in ReadLengths(c) : buffer = SubSeq(Inbox(c), 1, n)
  BY DEF Reads
<1>4. n \in 1 .. Len(s) - k
  <2> DEFINE most == Min({Len(Inbox(c)), CLIENT_BUFFER_SIZE - 1})
  <2>1. Len(Inbox(c)) \in Nat /\ CLIENT_BUFFER_SIZE - 1 \in Nat
    BY <1>1, <1>2, KvServerAssumption
  <2>2. most \in Nat /\ most <= Len(Inbox(c))
    <3>1. {Len(Inbox(c)), CLIENT_BUFFER_SIZE - 1} \in SUBSET Nat
      BY <2>1
    <3> QED BY <3>1, MinIsLeast
  <2>3. n \in {most} \ {0} \/ n \in 1 .. most
    BY <1>3 DEF ReadLengths
  <2> HIDE DEF most
  <2> QED BY <2>2, <2>3, <1>2, <1>1
<1> HIDE DEF s, k
<1>5. Inbox(c) = SubSeq(s, k + 1, Len(s))
  BY DEF Inbox, s, k
<1>6. buffer = SubSeq(s, k + 1, k + n)
  <2>1. /\ k + 1 \in 1 .. Len(s) /\ Len(s) \in 1 .. Len(s)
        /\ 1 \in 1 .. Len(s) - (k + 1) + 1 /\ n \in 1 .. Len(s) - (k + 1) + 1
    BY <1>1, <1>4
  <2>2. SubSeq(SubSeq(s, k + 1, Len(s)), 1, n) = SubSeq(s, (k + 1) + 1 - 1, (k + 1) + n - 1)
    BY <2>1, <1>1, SubSeqOfSubSeq
  <2>3. (k + 1) + 1 - 1 = k + 1 /\ (k + 1) + n - 1 = k + n
    BY <1>1, <1>4
  <2> QED BY <2>2, <2>3, <1>3, <1>5
<1>7. /\ buffer \in Seq(Word) /\ Len(buffer) = n
      /\ \A i \in 1 .. n : buffer[i] = s[k + i]
  <2>1. k + 1 \in 1 .. Len(s) + 1 /\ k + n \in (k + 1) - 1 .. Len(s)
    BY <1>1, <1>4
  <2>2. /\ buffer \in Seq(Word) /\ Len(buffer) = (k + n) - (k + 1) + 1
        /\ \A i \in 1 .. (k + n) - (k + 1) + 1 : buffer[i] = s[(k + 1) + i - 1]
    BY <2>1, <1>1, <1>6, PartOfSeq
  <2>3. (k + n) - (k + 1) + 1 = n /\ \A i \in 1 .. n : (k + 1) + i - 1 = k + i
    BY <1>1, <1>4
  <2> QED BY <2>2, <2>3
<1> QED BY <1>4, <1>6, <1>7 DEF s, k

\* Two tokens that a read returns one after the other stand in the client's
\* text with one space between them.
LEMMA TokensOccur ==
  ASSUME TypeOK, NEW c \in Conn, Separated(sent[c]), NEW buffer \in Reads(c),
         NEW tokens, tokens = Tokens(buffer),
         tokens.argument # NULL, tokens.value # NULL
  PROVE  Occurs(tokens.argument \o <<Space>> \o tokens.value, sent[c])
<1> DEFINE s == sent[c]
           k == taken[c]
           n == Len(buffer)
<1>1. s \in Seq(Word) /\ Len(s) \in Nat /\ k \in Nat
  BY LenProperties DEF TypeOK
<1>2. /\ buffer \in Seq(Word) /\ n \in 1 .. Len(s) - k
      /\ buffer = SubSeq(s, k + 1, k + n)
      /\ \A i \in 1 .. n : buffer[i] = s[k + i]
  BY ReadPart
<1>3. PICK b, e, f, g \in 1 .. n :
         /\ b <= e /\ e + 1 < f /\ f <= g
         /\ tokens.argument = SubSeq(buffer, b, e)
         /\ tokens.value = SubSeq(buffer, f, g)
         /\ \A i \in e + 1 .. f - 1 : buffer[i] = Space
  BY <1>2, TokenText, ZenonT(60)
<1>4. \A i \in 1 .. Len(s) : s[i] = Space => 1 < i /\ i < Len(s) /\ s[i + 1] # Space
  BY DEF Separated
<1> HIDE DEF s, k, n
<1>a. /\ k \in Int /\ n \in Int /\ Len(s) \in Int
      /\ 0 <= k /\ 1 <= n /\ k + n <= Len(s)
  BY <1>1, <1>2
<1>b. /\ b \in Int /\ e \in Int /\ f \in Int /\ g \in Int
       /\ 1 <= b /\ b <= e /\ e + 1 < f /\ f <= g /\ g <= n
  BY <1>3, <1>a
<1>5. f = e + 2
  <2>1. CASE f > e + 2
    <3>1. e + 1 \in e + 1 .. f - 1 /\ e + 2 \in e + 1 .. f - 1
      BY <2>1, <1>3
    <3>2. e + 1 \in 1 .. n /\ e + 2 \in 1 .. n
      BY <2>1, <1>a, <1>b
    <3>3. s[k + (e + 1)] = Space /\ s[k + (e + 2)] = Space
      BY <3>1, <3>2, <1>2, <1>3
    <3>4. k + (e + 1) \in 1 .. Len(s) /\ (k + (e + 1)) + 1 = k + (e + 2)
      BY <1>a, <1>b, <2>1
    <3> QED BY <3>3, <3>4, <1>4
  <2> QED BY <2>1, <1>3
<1> DEFINE all == SubSeq(buffer, b, g)
<1>6. Len(buffer) = n
  BY DEF n
<1>7. all = (tokens.argument \o <<Space>>) \o tokens.value
  <2>1. /\ b \in 1 .. Len(buffer) + 1 /\ e \in b - 1 .. Len(buffer) /\ g \in e .. Len(buffer)
        /\ e + 1 \in 1 .. Len(buffer) /\ g \in e + 1 .. Len(buffer)
        /\ (e + 1) + 1 = f /\ f \in 1 .. Len(buffer) + 1 /\ g \in f - 1 .. Len(buffer)
    BY <1>a, <1>b, <1>5, <1>6
  <2>2. SubSeq(buffer, b, e) \o SubSeq(buffer, e + 1, g) = all
    BY <2>1, <1>2, ConcatAdjacentSubSeq
  <2>3. SubSeq(buffer, e + 1, g) = <<buffer[e + 1]>> \o SubSeq(buffer, (e + 1) + 1, g)
    BY <2>1, <1>2, SubSeqRecursiveFirst
  <2>4. buffer[e + 1] = Space
    BY <2>1, <1>3, <1>5
  <2>5. all = SubSeq(buffer, b, e) \o (<<Space>> \o SubSeq(buffer, f, g))
    BY <2>1, <2>2, <2>3, <2>4
  <2>6. /\ SubSeq(buffer, b, e) \in Seq(Word) /\ SubSeq(buffer, f, g) \in Seq(Word)
        /\ <<Space>> \in Seq(Word)
    <3>1. <<Space>> \in Seq(Word)
      BY DEF Word
    <3> QED BY <3>1, <2>1, <1>2, PartOfSeq
  <2>7. all = (SubSeq(buffer, b, e) \o <<Space>>) \o SubSeq(buffer, f, g)
    BY <2>5, <2>6, ConcatAssociative, SMTT(60)
  <2> QED BY <2>7, <1>3
<1>8. SubSeq(s, (k + b - 1) + 1, (k + b - 1) + Len(all)) = all
  <2>1. Len(all) = g - b + 1
    <3>1. b \in 1 .. Len(buffer) + 1 /\ g \in b - 1 .. Len(buffer)
      BY <1>a, <1>b, <1>5, <1>6
    <3> QED BY <3>1, <1>2, PartOfSeq
  <2>2. /\ k + 1 \in 1 .. Len(s) /\ k + n \in 1 .. Len(s)
        /\ b \in 1 .. (k + n) - (k + 1) + 1 /\ g \in 1 .. (k + n) - (k + 1) + 1
    BY <1>a, <1>b
  <2>3. SubSeq(SubSeq(s, k + 1, k + n), b, g) = SubSeq(s, (k + 1) + b - 1, (k + 1) + g - 1)
    BY <2>2, <1>1, SubSeqOfSubSeq
  <2> HIDE DEF all
  <2>4. /\ (k + b - 1) + 1 = (k + 1) + b - 1
        /\ (k + b - 1) + Len(all) = (k + 1) + g - 1
    BY <2>1, <1>a, <1>b
  <2> QED BY <2>3, <2>4, <1>2 DEF all
<1>9. k + b - 1 \in 0 .. Len(s) - Len(all)
  <2>1. Len(all) = g - b + 1
    <3>1. b \in 1 .. Len(buffer) + 1 /\ g \in b - 1 .. Len(buffer)
      BY <1>a, <1>b, <1>5, <1>6
    <3> QED BY <3>1, <1>2, PartOfSeq
  <2> HIDE DEF all
  <2> QED BY <2>1, <1>a, <1>b, <1>5
<1>10. Occurs(all, s)
  BY <1>8, <1>9 DEF Occurs
<1> QED BY <1>7, <1>10 DEF s

\* Reading changes the storage by one item, made of one client's text.
LEMMA ReadInv ==
  ASSUME Inv, NEW c \in Conn, ReadGet(c) \/ ReadSet(c) \/ ReadOther(c)
  PROVE  Inv'
<1> USE DEF Inv
<1>0. TypeOK /\ Len(clients) \in Nat
  BY LenProperties DEF ItemsFromOneClient, TypeOK
<1>1. Reading(c)
  BY DEF ReadGet, ReadSet, ReadOther
<1>2. PICK buffer \in Reads(c) :
        LET tokens == Tokens(buffer) IN
        /\ taken' = [taken EXCEPT ![c] = @ + Len(buffer)]
        /\ UNCHANGED <<conn, backlog, clients, sent, outbox>>
        /\ \/ /\ tokens.argument # NULL
              /\ response' = get(tokens.argument) \o <<Newline>>
              /\ pc' = "response" /\ pos' = pos /\ storage' = storage
           \/ /\ tokens.argument # NULL /\ tokens.value # NULL
              /\ set(tokens.argument, tokens.value)
              /\ pos' = pos + 1 /\ UNCHANGED <<pc, response>>
           \/ pos' = pos + 1 /\ UNCHANGED <<pc, response, storage>>
  BY DEF ReadGet, ReadSet, ReadOther
<1> DEFINE tokens == Tokens(buffer)
<1>3. tokens.argument \in Seq(Word) /\ tokens.value \in Seq(Word)
  <2>1. buffer \in Seq(Word)
    BY <1>0, ReadPart
  <2> QED BY <2>1, TokenText
<1>4. /\ taken' \in [Conn -> Nat] /\ \A d \in Conn : taken'[d] <= Len(sent[d])
  <2>1. Len(buffer) \in 1 .. Len(sent[c]) - taken[c]
    BY <1>0, ReadPart
  <2>2. taken \in [Conn -> Nat] /\ \A d \in Conn : taken[d] <= Len(sent[d])
    BY <1>0 DEF TypeOK
  <2>3. Len(sent[c]) \in Nat
    BY <1>0, LenProperties DEF TypeOK
  <2>4. taken[c] + Len(buffer) \in Nat /\ taken[c] + Len(buffer) <= Len(sent[c])
    BY <2>1, <2>2, <2>3
  <2> QED BY <2>2, <2>4, <1>2
<1>5. storage \in Seq(Item)
  BY <1>0 DEF TypeOK, Item
<1>6. CASE /\ tokens.argument # NULL
           /\ response' = get(tokens.argument) \o <<Newline>>
           /\ pc' = "response" /\ pos' = pos /\ storage' = storage
  <2>1. get(tokens.argument) \in Seq(Word)
    <3>1. find(tokens.argument) # 0 => storage[find(tokens.argument)] \in Item
      <4>1. find(tokens.argument) \in 0 .. Len(storage) /\ Len(storage) \in Nat
        BY <1>5, FindFinds, LenProperties
      <4>2. find(tokens.argument) # 0 => find(tokens.argument) \in 1 .. Len(storage)
        BY <4>1
      <4> QED BY <4>2, <1>5, ElementOfSeq
    <3> QED BY <3>1, EmptySeq DEF get, Item
  <2>2. response' \in Seq(Word)
    <3>1. <<Newline>> \in Seq(Word)
      BY DEF Word
    <3> QED BY <3>1, <2>1, <1>6, ConcatProperties
  <2>3. TypeOK'
    BY <2>2, <1>0, <1>2, <1>4, <1>6 DEF TypeOK
  <2> QED BY <2>3, <1>0, <1>1, <1>2, <1>6
          DEF Cycle, Reading, ItemsFromOneClient, Stops, Dead
<1>7. pos + 1 \in 1 .. Len(clients) + 1
  BY <1>0, <1>1 DEF Reading, TypeOK
<1>8. CASE /\ tokens.argument # NULL /\ tokens.value # NULL
           /\ set(tokens.argument, tokens.value)
           /\ pos' = pos + 1 /\ UNCHANGED <<pc, response>>
  <2>1. /\ storage' \in Seq(Item)
        /\ \A i \in 1 .. Len(storage') :
              \/ storage'[i].key = tokens.argument /\ storage'[i].value = tokens.value
              \/ \E j \in 1 .. Len(storage) : storage'[i] = storage[j]
        /\ \A i, j \in 1 .. Len(storage') : storage'[i].key = storage'[j].key => i = j
    <3>1. \A i, j \in 1 .. Len(storage) : storage[i].key = storage[j].key => i = j
      BY <1>5, LenProperties DEF ItemsFromOneClient
    <3> HIDE DEF tokens
    <3> QED BY <3>1, <1>3, <1>5, <1>8, SetSets
  <2>2. TypeOK'
    BY <2>1, <1>0, <1>2, <1>4, <1>7, <1>8 DEF TypeOK, Item
  <2>3. Occurs(tokens.argument \o <<Space>> \o tokens.value, sent[c])
    BY <1>0, <1>8, TokensOccur
  <2>4. \A i \in 1 .. Len(storage') : \E d \in Conn :
            Occurs(storage'[i].key \o <<Space>> \o storage'[i].value, sent[d])
    <3>1. \A j \in 1 .. Len(storage) : \E d \in Conn :
            Occurs(storage[j].key \o <<Space>> \o storage[j].value, sent[d])
      BY <1>5, LenProperties DEF ItemsFromOneClient
    <3> HIDE DEF tokens
    <3> QED BY <2>1, <2>3, <3>1
  <2>5. DOMAIN storage' = 1 .. Len(storage')
    BY <2>1, LenProperties
  <2>6. ItemsFromOneClient'
    BY <2>1, <2>2, <2>4, <2>5, <1>2 DEF ItemsFromOneClient
  <2> QED BY <2>6, <1>1, <1>2, <1>8 DEF Cycle, Reading, Stops, Dead
<1>9. CASE pos' = pos + 1 /\ UNCHANGED <<pc, response, storage>>
  <2>1. TypeOK'
    BY <1>0, <1>2, <1>4, <1>7, <1>9 DEF TypeOK
  <2> QED BY <2>1, <1>1, <1>2, <1>9 DEF Cycle, Reading, ItemsFromOneClient, Stops, Dead
<1> QED BY <1>2, <1>6, <1>8, <1>9

\* Neither what a client has not sent nor an answer touches storage or texts.
\* The server stops at a dead connection, and the dead stay dead.
LEMMA AnswerInv ==
  ASSUME Inv, NEW c \in Conn,
         \/ ReadNothing(c) \/ ReadFails(c)
         \/ Respond(c) \/ RespondToClosed(c) \/ RespondKills(c)
  PROVE  Inv'
<1> USE DEF Inv, network
<1>0. TypeOK /\ Len(clients) \in Nat
  BY LenProperties DEF ItemsFromOneClient, TypeOK
<1>1. CASE ReadNothing(c)
  <2>1. pos + 1 \in 1 .. Len(clients) + 1
    BY <1>0, <1>1 DEF ReadNothing, Reading, TypeOK
  <2>2. TypeOK'
    BY <2>1, <1>0, <1>1 DEF ReadNothing, TypeOK
  <2> QED BY <2>2, <1>1 DEF ReadNothing, Reading, Cycle, ItemsFromOneClient, Stops, Dead
<1>2. CASE ReadFails(c)
  <2>1. TypeOK'
    BY <1>0, <1>2 DEF ReadFails, TypeOK
  <2> QED BY <2>1, <1>2 DEF ReadFails, Cycle, ItemsFromOneClient, Stops, Dead
<1>3. CASE RespondKills(c)
  <2>1. TypeOK'
    BY <1>0, <1>3 DEF RespondKills, TypeOK
  <2> QED BY <2>1, <1>3 DEF RespondKills, Cycle, ItemsFromOneClient, Stops, Dead
<1>4. CASE RespondToClosed(c)
  <2>1. pos + 1 \in 1 .. Len(clients) + 1
    BY <1>0, <1>4 DEF RespondToClosed, Responding, TypeOK, Cycle
  <2>2. TypeOK'
    BY <2>1, <1>0, <1>4, EmptySeq DEF RespondToClosed, TypeOK
  <2> QED BY <2>2, <1>4 DEF RespondToClosed, Cycle, ItemsFromOneClient, Stops, Dead
<1>5. CASE Respond(c)
  <2>1. pos + 1 \in 1 .. Len(clients) + 1
    BY <1>0, <1>5 DEF Respond, Responding, TypeOK, Cycle
  <2> DEFINE all == outbox[c] \o response
             fits == Min({OutSize, Len(outbox[c]) + Len(response)})
  <2>2. /\ all \in Seq(Word) /\ Len(all) = Len(outbox[c]) + Len(response)
        /\ Len(all) \in Nat /\ OutSize \in Nat
    BY <1>0, ConcatProperties, LenProperties, KvServerAssumption DEF TypeOK
  <2>3. fits \in 0 .. Len(all) /\ fits <= OutSize
    <3>1. {OutSize, Len(outbox[c]) + Len(response)} \in SUBSET Nat
      BY <2>2
    <3>2. /\ fits \in {OutSize, Len(outbox[c]) + Len(response)}
          /\ fits <= OutSize /\ fits <= Len(outbox[c]) + Len(response)
      BY <3>1, MinIsLeast
    <3> HIDE DEF fits
    <3> QED BY <3>1, <3>2, <2>2
  <2>4. outbox' = [outbox EXCEPT ![c] = SubSeq(all, 1, fits)]
    BY <1>5 DEF Respond
  <2> HIDE DEF all, fits
  <2>5. SubSeq(all, 1, fits) \in Seq(Word) /\ Len(SubSeq(all, 1, fits)) <= OutSize
    <3>1. 1 \in 1 .. Len(all) + 1 /\ fits \in 1 - 1 .. Len(all) /\ fits - 1 + 1 = fits
      BY <2>2, <2>3
    <3> QED BY <3>1, <2>2, <2>3, PartOfSeq
  <2>6. TypeOK'
    BY <2>1, <2>4, <2>5, <1>0, <1>5, EmptySeq DEF Respond, TypeOK
  <2> QED BY <2>6, <1>5 DEF Respond, Cycle, ItemsFromOneClient, Stops, Dead
<1> QED BY <1>1, <1>2, <1>3, <1>4, <1>5

----------------------------------------------------------------------------
(* Theorems *)

\* Inv is an inductive invariant of the server and its clients.
THEOREM KvInvariant == Spec => []Inv
<1>1. Inv /\ UNCHANGED vars => Inv'
  BY DEF Inv, vars, Cycle, ItemsFromOneClient, Stops, Dead, TypeOK, Separated, Occurs
<1>2. Inv /\ [Next]_vars => Inv'
  BY <1>1, ClientInv, AcceptInv, ReadInv, AnswerInv DEF Next, Server
<1> QED BY InitInv, <1>2, PTL DEF Spec

\* Commands of two clients are never mixed, wherever the reads fall, and no key
\* is in the list twice.
THEOREM ClientsStayApart == Spec => []ItemsFromOneClient
<1>1. Inv => ItemsFromOneClient
  BY DEF Inv
<1> QED BY KvInvariant, <1>1, PTL

\* A broken connection, and one that is about to be answered, is one whose
\* client asked for something.
Askers == /\ \A c \in Conn : conn[c] = "broken" => Asked(c)
          /\ pc = "response" => Asked(clients[pos])

\* What was asked stays asked, however much is sent and read afterwards.
LEMMA AskedStays ==
  ASSUME TypeOK, TypeOK', NEW c \in Conn, Asked(c),
         \A i \in 1 .. Len(sent[c]) : sent'[c][i] = sent[c][i],
         taken[c] <= taken'[c]
  PROVE  Asked(c)'
<1>1. /\ taken[c] \in Nat /\ taken'[c] \in Nat /\ taken[c] <= Len(sent[c])
      /\ Len(sent[c]) \in Nat
  BY LenProperties DEF TypeOK
<1>2. PICK i \in 1 .. taken[c] : sent[c][i] = "get"
  BY DEF Asked
<1>3. i \in 1 .. taken'[c] /\ i \in 1 .. Len(sent[c])
  BY <1>1
<1> QED BY <1>2, <1>3 DEF Asked

\* A step lengthens what was sent and what was read, or leaves it as it is.
LEMMA TextsGrow ==
  ASSUME TypeOK, [Next]_vars, NEW c \in Conn
  PROVE  /\ \A i \in 1 .. Len(sent[c]) : sent'[c][i] = sent[c][i]
         /\ taken[c] <= taken'[c]
<1>1. sent[c] \in Seq(Word) /\ taken[c] \in Nat /\ Len(sent[c]) \in Nat
  BY LenProperties DEF TypeOK
<1>2. ASSUME NEW d \in Conn, Send(d)
      PROVE  /\ \A i \in 1 .. Len(sent[c]) : sent'[c][i] = sent[c][i]
             /\ taken[c] <= taken'[c]
  <2>1. PICK cmd \in Command : sent' = [sent EXCEPT ![d] = @ \o TextOf(cmd)]
    BY <1>2 DEF Send
  <2>2. taken' = taken
    BY <1>2 DEF Send
  <2>3. CASE c = d
    <3>1. TextOf(cmd) \in Seq(Word)
      BY CommandText
    <3>2. sent'[c] = sent[c] \o TextOf(cmd)
      BY <2>1, <2>3 DEF TypeOK
    <3>3. \A i \in 1 .. Len(sent[c]) : (sent[c] \o TextOf(cmd))[i] = sent[c][i]
      <4> DEFINE t == TextOf(cmd)
      <4>1. t \in Seq(Word) /\ Len(t) \in Nat
        BY <3>1, LenProperties
      <4> HIDE DEF t
      <4>2. \A i \in 1 .. Len(sent[c]) + Len(t) :
                (sent[c] \o t)[i] = IF i <= Len(sent[c]) THEN sent[c][i]
                                     ELSE t[i - Len(sent[c])]
        BY <4>1, <1>1, ConcatProperties
      <4>3. \A i \in 1 .. Len(sent[c]) : i \in 1 .. Len(sent[c]) + Len(t)
        BY <4>1, <1>1
      <4> QED BY <4>2, <4>3, <1>1 DEF t
    <3> QED BY <3>2, <3>3, <2>2, <1>1
  <2>4. CASE c # d
    <3>1. sent'[c] = sent[c]
      BY <2>1, <2>4 DEF TypeOK
    <3> QED BY <3>1, <2>2, <1>1
  <2> QED BY <2>3, <2>4
<1>3. ASSUME NEW d \in Conn, ReadGet(d) \/ ReadSet(d) \/ ReadOther(d)
      PROVE  /\ \A i \in 1 .. Len(sent[c]) : sent'[c][i] = sent[c][i]
             /\ taken[c] <= taken'[c]
  <2>1. PICK buffer \in Reads(d) : /\ taken' = [taken EXCEPT ![d] = @ + Len(buffer)]
                                   /\ sent' = sent
    BY <1>3 DEF ReadGet, ReadSet, ReadOther
  <2>2. Len(buffer) \in Nat
    <3>1. buffer \in Seq(Word)
      BY ReadPart
    <3> QED BY <3>1, LenProperties
  <2>3. taken'[c] = taken[c] \/ taken'[c] = taken[c] + Len(buffer)
    BY <2>1 DEF TypeOK
  <2> QED BY <2>1, <2>2, <2>3, <1>1
<1>4. \/ UNCHANGED <<sent, taken>>
      \/ \E d \in Conn : Send(d) \/ ReadGet(d) \/ ReadSet(d) \/ ReadOther(d)
  BY DEF Next, Server, Client, vars, network, Connect, Receive, Close, Accept,
         AcceptNobody, AcceptFails, ScanEnds, ReadNothing, ReadFails, Respond,
         RespondToClosed, RespondKills
<1> QED BY <1>1, <1>2, <1>3, <1>4

\* The word get of a command that is answered was read from its client.
LEMMA GetAsks ==
  ASSUME Inv, NEW c \in Conn, ReadGet(c)
  PROVE  Asked(c)' /\ clients'[pos'] = c
<1>0. TypeOK
  BY DEF Inv, ItemsFromOneClient
<1>1. PICK buffer \in Reads(c) :
        /\ Tokens(buffer).argument # NULL /\ Tokens(buffer).command[1] = "get"
        /\ taken' = [taken EXCEPT ![c] = @ + Len(buffer)] /\ sent' = sent
        /\ clients' = clients /\ pos' = pos
  BY DEF ReadGet
<1> DEFINE tokens == Tokens(buffer)
<1>2. /\ buffer \in Seq(Word) /\ Len(buffer) \in Nat
      /\ \A i \in 1 .. Len(buffer) : buffer[i] = sent[c][taken[c] + i]
  BY <1>0, ReadPart, LenProperties
<1>3. PICK i \in 1 .. Len(buffer) : tokens.command[1] = buffer[i]
  BY <1>1, <1>2, TokenText
<1>4. taken'[c] = taken[c] + Len(buffer) /\ taken[c] \in Nat
  BY <1>0, <1>1 DEF TypeOK
<1>5. taken[c] + i \in 1 .. taken'[c] /\ sent'[c][taken[c] + i] = "get"
  BY <1>1, <1>2, <1>3, <1>4
<1>6. Asked(c)'
  BY <1>5 DEF Asked
<1>7. clients'[pos'] = c
  BY <1>1 DEF ReadGet, Reading
<1> QED BY <1>6, <1>7

\* Every step keeps Askers.
LEMMA AskersStay ==
  ASSUME Inv, Inv', Askers, [Next]_vars
  PROVE  Askers'
<1>0. TypeOK /\ TypeOK' /\ Cycle
  BY DEF Inv, ItemsFromOneClient
<1>1. ASSUME NEW c \in Conn, Asked(c) PROVE Asked(c)'
  BY <1>0, <1>1, TextsGrow, AskedStays
<1>2. ASSUME NEW c \in Conn, conn'[c] = "broken" PROVE Asked(c)'
  <2>1. CASE conn[c] = "broken"
    BY <2>1, <1>1 DEF Askers
  <2>2. CASE conn[c] # "broken"
    <3>1. PICK d \in Conn : RespondToClosed(d)
      <4>1. \A d \in Conn : (Connect(d) \/ Close(d)) => conn'[c] # "broken"
        BY <2>2, <1>0 DEF Connect, Close, TypeOK
      <4>2. conn' # conn
        BY <1>2, <2>2
      <4>3. \/ conn' = conn
            \/ \E d \in Conn : Connect(d) \/ Close(d) \/ RespondToClosed(d)
        BY DEF Next, Server, Client, vars, network, Send, Receive, Accept,
               AcceptNobody, AcceptFails, ScanEnds, ReadNothing, ReadFails, ReadGet,
               ReadSet, ReadOther, Respond, RespondKills
      <4> QED BY <4>1, <4>2, <4>3, <1>2
    <3>2. d = c /\ Responding(c)
      BY <3>1, <2>2, <1>0, <1>2 DEF RespondToClosed, TypeOK
    <3> QED BY <3>2, <1>1 DEF Askers, Responding
  <2> QED BY <2>1, <2>2
<1>3. ASSUME pc' = "response" PROVE Asked(clients[pos])'
  <2>1. CASE \E c \in Conn : ReadGet(c)
    BY <2>1, GetAsks DEF Asked
  <2>2. CASE ~ \E c \in Conn : ReadGet(c)
    <3>1. pc = "response" /\ clients' = clients /\ pos' = pos
      BY <2>2, <1>3
         DEF Next, Server, Client, vars, network, Connect, Send, Receive, Close, Accept,
             AcceptNobody, AcceptFails, ScanEnds, Reading, ReadNothing, ReadFails,
             ReadSet, ReadOther, Respond, RespondToClosed, RespondKills
    <3>2. clients[pos] \in Conn
      BY <3>1, <1>0, ElementOfSeq DEF Cycle, TypeOK
    <3>3. Asked(clients[pos])
      BY <3>1 DEF Askers
    <3>4. \E i \in 1 .. taken'[clients[pos]] : sent'[clients[pos]][i] = "get"
      BY <3>2, <3>3, <1>1 DEF Asked
    <3> QED BY <3>1, <3>4 DEF Asked
  <2> QED BY <2>1, <2>2
<1> QED BY <1>2, <1>3 DEF Askers

\* Only a client that resets its connection, one that asks and is gone before
\* the answer, and the end of the descriptors stop the server.
THEOREM ServerStopsOnlyFor == Spec => []StopsOnlyFor
<1>1. Init => Askers
  BY DEF Init, Askers
<1>2. Inv /\ Inv' /\ Askers /\ [Next]_vars => Askers'
  BY AskersStay
<1>3. Inv /\ Askers => StopsOnlyFor
  BY DEF Inv, Stops, Dead, Askers, Excused, StopsOnlyFor
<1> QED BY KvInvariant, <1>1, <1>2, <1>3, PTL DEF Spec

----------------------------------------------------------------------------
(* Who is answered.  The clients of test.py send no newline. *)

Places(w, text) == {i \in 1 .. Len(text) : text[i] = w}

\* Count counts places.
LEMMA CountPlaces ==
  ASSUME NEW text \in Seq(Word), NEW w
  PROVE  /\ Count(w, text) = Cardinality(Places(w, text))
         /\ IsFiniteSet(Places(w, text)) /\ Count(w, text) \in Nat
<1>1. DOMAIN text = 1 .. Len(text) /\ Len(text) \in Nat
  BY LenProperties
<1>2. Count(w, text) = Cardinality(Places(w, text))
  BY <1>1 DEF Count, Places
<1>3. IsFiniteSet(1 .. Len(text))
  BY <1>1, FS_Interval
<1>4. IsFiniteSet(Places(w, text))
  <2>1. Places(w, text) \in SUBSET (1 .. Len(text))
    BY DEF Places
  <2> QED BY <2>1, <1>3, FS_Subset
<1> QED BY <1>2, <1>4, FS_CardinalityType

\* A longer part of a text has every word at least as often, and once more if
\* the word is in what was added.
LEMMA CountGrows ==
  ASSUME NEW s \in Seq(Word), NEW w,
         NEW k \in 0 .. Len(s), NEW n \in 0 .. Len(s) - k
  PROVE  /\ Count(w, SubSeq(s, 1, k)) <= Count(w, SubSeq(s, 1, k + n))
         /\ (\E i \in 1 .. n : s[k + i] = w) =>
               Count(w, SubSeq(s, 1, k)) + 1 <= Count(w, SubSeq(s, 1, k + n))
<1>1. Len(s) \in Nat /\ k \in Nat /\ n \in Nat /\ k + n \in 0 .. Len(s)
  BY LenProperties
<1>2. ASSUME NEW m \in 0 .. Len(s)
      PROVE  /\ SubSeq(s, 1, m) \in Seq(Word)
             /\ Places(w, SubSeq(s, 1, m)) = {i \in 1 .. m : s[i] = w}
  <2>1. 1 \in 1 .. Len(s) + 1 /\ m \in 1 - 1 .. Len(s) /\ m - 1 + 1 = m
        /\ \A i \in 1 .. m : 1 + i - 1 = i
    BY <1>1
  <2>2. /\ SubSeq(s, 1, m) \in Seq(Word) /\ Len(SubSeq(s, 1, m)) = m
        /\ \A i \in 1 .. m : SubSeq(s, 1, m)[i] = s[i]
    BY <2>1, PartOfSeq
  <2> QED BY <2>2 DEF Places
<1> DEFINE Old == {i \in 1 .. k : s[i] = w}
           New == {i \in 1 .. k + n : s[i] = w}
<1>3. /\ IsFiniteSet(Old) /\ Count(w, SubSeq(s, 1, k)) = Cardinality(Old)
      /\ IsFiniteSet(New) /\ Count(w, SubSeq(s, 1, k + n)) = Cardinality(New)
  BY <1>1, <1>2, CountPlaces
<1>4. Old \in SUBSET New
  BY <1>1
<1>5. ASSUME NEW i \in 1 .. n, s[k + i] = w
      PROVE  Cardinality(Old) + 1 <= Cardinality(New)
  <2>1. k + i \in New /\ k + i \notin Old
    BY <1>1, <1>5
  <2> HIDE DEF Old, New
  <2>2. /\ IsFiniteSet(Old \cup {k + i})
        /\ Cardinality(Old \cup {k + i}) = Cardinality(Old) + 1
    BY <2>1, <1>3, FS_AddElement
  <2>3. Old \cup {k + i} \in SUBSET New
    BY <2>1, <1>4
  <2> QED BY <2>2, <2>3, <1>3, FS_Subset
<1> HIDE DEF Old, New
<1>6. Cardinality(Old) <= Cardinality(New)
  BY <1>3, <1>4, FS_Subset
<1> QED BY <1>3, <1>5, <1>6

\* What is written adds a line at most, even if it does not fit.
LEMMA CountWritten ==
  ASSUME NEW s \in Seq(Word), NEW t \in Seq(Word),
         \A j \in 1 .. Len(t) : t[j] = Newline => j = Len(t),
         NEW n \in 0 .. Len(s \o t)
  PROVE  Count(Newline, SubSeq(s \o t, 1, n)) <= Count(Newline, s) + 1
<1>1. /\ Len(s) \in Nat /\ Len(t) \in Nat /\ s \o t \in Seq(Word)
      /\ Len(s \o t) = Len(s) + Len(t)
      /\ \A i \in 1 .. Len(s) + Len(t) :
             (s \o t)[i] = IF i <= Len(s) THEN s[i] ELSE t[i - Len(s)]
  BY ConcatProperties, LenProperties
<1>2. /\ SubSeq(s \o t, 1, n) \in Seq(Word) /\ Len(SubSeq(s \o t, 1, n)) = n
      /\ \A i \in 1 .. n : SubSeq(s \o t, 1, n)[i] = (s \o t)[i]
  <2>1. 1 \in 1 .. Len(s \o t) + 1 /\ n \in 1 - 1 .. Len(s \o t) /\ n - 1 + 1 = n
        /\ \A i \in 1 .. n : 1 + i - 1 = i
    BY <1>1
  <2> QED BY <2>1, <1>1, PartOfSeq
<1> DEFINE Old == Places(Newline, s)
           New == Places(Newline, SubSeq(s \o t, 1, n))
           end == Len(s) + Len(t)
<1>3. ASSUME NEW i \in New PROVE i \in Old \cup {end}
  <2>1. i \in 1 .. n /\ i \in 1 .. end /\ (s \o t)[i] = Newline
    BY <1>1, <1>2 DEF Places
  <2>2. CASE i <= Len(s)
    BY <2>1, <2>2, <1>1 DEF Places
  <2>3. CASE i > Len(s)
    <3>1. i - Len(s) \in 1 .. Len(t) /\ t[i - Len(s)] = Newline
      BY <2>1, <2>3, <1>1
    <3>2. i - Len(s) = Len(t)
      BY <3>1
    <3> QED BY <3>2, <2>1, <1>1
  <2> QED BY <2>1, <2>2, <2>3, <1>1
<1>4. /\ IsFiniteSet(Old) /\ Count(Newline, s) = Cardinality(Old)
      /\ Cardinality(Old) \in Nat /\ IsFiniteSet(New)
      /\ Count(Newline, SubSeq(s \o t, 1, n)) = Cardinality(New)
  BY <1>2, CountPlaces
<1> HIDE DEF Old, New, end
<1>5. IsFiniteSet(Old \cup {end}) /\ Cardinality(Old \cup {end}) <= Cardinality(Old) + 1
  <2>1. IsFiniteSet(Old \cup {end})
        /\ \/ Cardinality(Old \cup {end}) = Cardinality(Old)
           \/ Cardinality(Old \cup {end}) = Cardinality(Old) + 1
    BY <1>4, FS_AddElement
  <2> QED BY <2>1, <1>4
<1>6. Cardinality(New) <= Cardinality(Old \cup {end})
  BY <1>3, <1>5, FS_Subset
<1>7. Cardinality(New) \in Nat /\ Cardinality(Old \cup {end}) \in Nat
  BY <1>4, <1>5, FS_CardinalityType
<1> QED BY <1>4, <1>5, <1>6, <1>7

\* Where no client sends a newline there is none in the storage, and an answer
\* has one, its last character.
OneLine ==
    /\ \A c \in Conn : \A i \in 1 .. Len(sent[c]) : sent[c][i] # Newline
    /\ \A i \in 1 .. Len(storage) : \A j \in 1 .. Len(storage[i].value) :
           storage[i].value[j] # Newline
    /\ pc = "response" => \A j \in 1 .. Len(response) :
                              response[j] = Newline => j = Len(response)

\* The lines a client has to read, and the one it is about to get, are answers
\* to gets that were read from it.
Owed ==
    \A c \in Conn :
        LET lines == Count(Newline, outbox[c])
            gets  == Count("get", SubSeq(sent[c], 1, taken[c]))
        IN  /\ lines <= gets
            /\ pc = "response" /\ clients[pos] = c => lines + 1 <= gets

AnswerInvariant == OneLine /\ Owed

\* Counts of what the sockets hold are numbers.
LEMMA Counts ==
  ASSUME TypeOK, NEW c \in Conn
  PROVE  /\ Count(Newline, outbox[c]) \in Nat
         /\ Count("get", SubSeq(sent[c], 1, taken[c])) \in Nat
         /\ taken[c] \in 0 .. Len(sent[c]) /\ sent[c] \in Seq(Word) /\ Len(sent[c]) \in Nat
<1>1. /\ sent[c] \in Seq(Word) /\ Len(sent[c]) \in Nat /\ outbox[c] \in Seq(Word)
      /\ taken[c] \in Nat /\ taken[c] <= Len(sent[c])
  BY LenProperties DEF TypeOK
<1>2. SubSeq(sent[c], 1, taken[c]) \in Seq(Word)
  <2>1. 1 \in 1 .. Len(sent[c]) + 1 /\ taken[c] \in 1 - 1 .. Len(sent[c])
    BY <1>1
  <2> QED BY <2>1, <1>1, PartOfSeq
<1>3. Count(Newline, outbox[c]) \in Nat
  BY <1>1, CountPlaces
<1>4. Count("get", SubSeq(sent[c], 1, taken[c])) \in Nat
  BY <1>2, CountPlaces
<1> QED BY <1>1, <1>3, <1>4

\* A socket that was emptied holds no line.
LEMMA CountEmpty == Count(Newline, <<>>) = 0
<1>1. Places(Newline, <<>>) = {}
  BY DEF Places
<1>2. <<>> \in Seq(Word)
  BY EmptySeq
<1> QED BY <1>1, <1>2, CountPlaces, FS_EmptySet

\* In the beginning nobody is owed anything.
LEMMA InitAnswers == Init => AnswerInvariant
<1> SUFFICES ASSUME Init PROVE AnswerInvariant
  OBVIOUS
<1>1. OneLine
  BY DEF Init, OneLine
<1>2. SubSeq(<<>>, 1, 0) = <<>>
  BY SubSeqEmpty
<1>3. Count("get", <<>>) \in Nat
  <2>1. <<>> \in Seq(Word)
    BY EmptySeq
  <2> QED BY <2>1, CountPlaces
<1>4. Owed
  <2> SUFFICES ASSUME NEW c \in Conn
               PROVE  Count(Newline, outbox[c]) <= Count("get", SubSeq(sent[c], 1, taken[c]))
    BY DEF Init, Owed
  <2>1. outbox[c] = <<>> /\ SubSeq(sent[c], 1, taken[c]) = <<>>
    BY <1>2 DEF Init
  <2>2. Count(Newline, outbox[c]) = 0
    BY <2>1, CountEmpty
  <2>3. Count("get", SubSeq(sent[c], 1, taken[c])) \in Nat
    BY <2>1, <1>3
  <2> QED BY <2>2, <2>3
<1> QED BY <1>1, <1>4 DEF AnswerInvariant

\* What a client sends has no newline and is not taken yet.
LEMMA ClientAnswers ==
  ASSUME TypeOK, AnswerInvariant, Terminator = <<>>, NEW c \in Conn, Client(c)
  PROVE  AnswerInvariant'
<1> USE DEF AnswerInvariant
<1>1. CASE Connect(c)
  BY <1>1 DEF Connect, OneLine, Owed
<1>2. CASE Send(c)
  <2>1. PICK cmd \in Command : sent' = [sent EXCEPT ![c] = @ \o TextOf(cmd)]
    BY <1>2 DEF Send
  <2>2. TextOf(cmd) \in Seq(Word)
    BY CommandText
  <2>3. \A i \in 1 .. Len(TextOf(cmd)) : TextOf(cmd)[i] # Newline
    <3>1. CASE cmd \in [op : {"get"}, key : Keys]
      <4>1. <<"get", Space, cmd.key>> \in Seq(Word) /\ cmd.key # Newline
        BY <3>1, KvServerAssumption DEF Word, Newline
      <4>2. TextOf(cmd) = <<"get", Space, cmd.key>>
        BY <3>1, <4>1, ConcatEmptySeq DEF TextOf
      <4> QED BY <4>1, <4>2 DEF Space, Newline
    <3>2. CASE cmd \in [op : {"set"}, key : Keys, value : Values]
      <4>1. <<"set", Space, cmd.key, Space, cmd.value>> \in Seq(Word)
            /\ cmd.key # Newline /\ cmd.value # Newline
        BY <3>2, KvServerAssumption DEF Word, Newline
      <4>2. TextOf(cmd) = <<"set", Space, cmd.key, Space, cmd.value>>
        BY <3>2, <4>1, ConcatEmptySeq DEF TextOf
      <4> QED BY <4>1, <4>2 DEF Space, Newline
    <3> QED BY <3>1, <3>2 DEF Command
  <2>4. sent[c] \in Seq(Word) /\ sent'[c] = sent[c] \o TextOf(cmd)
        /\ \A d \in Conn : d # c => sent'[d] = sent[d]
    BY <2>1 DEF TypeOK
  <2>5. /\ Len(sent[c]) \in Nat /\ Len(TextOf(cmd)) \in Nat
        /\ Len(sent'[c]) = Len(sent[c]) + Len(TextOf(cmd))
        /\ \A i \in 1 .. Len(sent[c]) + Len(TextOf(cmd)) : sent'[c][i] =
              IF i <= Len(sent[c]) THEN sent[c][i] ELSE TextOf(cmd)[i - Len(sent[c])]
    BY <2>2, <2>4, ConcatProperties, LenProperties
  <2>6. ASSUME NEW i \in 1 .. Len(sent'[c]) PROVE sent'[c][i] # Newline
    <3>1. CASE i <= Len(sent[c])
      BY <3>1, <2>5 DEF OneLine
    <3>2. CASE i > Len(sent[c])
      <4>1. i - Len(sent[c]) \in 1 .. Len(TextOf(cmd))
        BY <3>2, <2>5
      <4>2. sent'[c][i] = TextOf(cmd)[i - Len(sent[c])]
        BY <3>2, <2>5
      <4> QED BY <4>1, <4>2, <2>3
    <3> QED BY <3>1, <3>2, <2>5
  <2>7. OneLine'
    BY <1>2, <2>4, <2>6 DEF Send, OneLine
  <2>8. \A d \in Conn : SubSeq(sent'[d], 1, taken[d]) = SubSeq(sent[d], 1, taken[d])
    <3>1. SubSeq(sent'[c], 1, taken[c]) = SubSeq(sent[c], 1, taken[c])
      <4>1. taken[c] \in Nat /\ taken[c] <= Len(sent[c])
        BY DEF TypeOK
      <4>2. CASE taken[c] = 0
        BY <4>2, SubSeqEmpty
      <4>3. CASE taken[c] > 0
        <5>1. 1 \in 1 .. Len(sent[c]) /\ taken[c] \in 1 .. Len(sent[c])
          BY <4>1, <4>3, <2>5
        <5> QED BY <5>1, <2>2, <2>4, SubSeqOfConcat1
      <4>4. taken[c] = 0 \/ taken[c] > 0
        BY <4>1
      <4> QED BY <4>2, <4>3, <4>4
    <3> TAKE d \in Conn
    <3>2. CASE d = c
      BY <3>1, <3>2
    <3>3. CASE d # c
      BY <3>3, <2>4
    <3> QED BY <3>2, <3>3
  <2>9. Owed'
    BY <1>2, <2>8 DEF Send, Owed
  <2> QED BY <2>7, <2>9
<1>3. CASE outbox' = [outbox EXCEPT ![c] = <<>>] /\ (Receive(c) \/ Close(c))
  <2>1. UNCHANGED <<pc, clients, pos, response, storage, sent, taken>>
    BY <1>3 DEF Receive, Close
  <2>2. ASSUME NEW d \in Conn PROVE Count(Newline, outbox'[d]) <= Count(Newline, outbox[d])
    <3>1. Count(Newline, outbox[d]) \in Nat
      BY Counts
    <3>2. outbox'[d] = IF d = c THEN <<>> ELSE outbox[d]
      BY <1>3 DEF TypeOK
    <3> QED BY <3>1, <3>2, CountEmpty
  <2>3. Owed'
    <3> SUFFICES ASSUME NEW d \in Conn
                 PROVE  LET lines == Count(Newline, outbox'[d])
                            gets  == Count("get", SubSeq(sent[d], 1, taken[d]))
                        IN  /\ lines <= gets
                            /\ pc = "response" /\ clients[pos] = d => lines + 1 <= gets
      BY <2>1 DEF Owed
    <3> DEFINE lines == Count(Newline, outbox[d])
               after == Count(Newline, outbox'[d])
               gets  == Count("get", SubSeq(sent[d], 1, taken[d]))
    <3>1. /\ lines <= gets /\ (pc = "response" /\ clients[pos] = d => lines + 1 <= gets)
      BY DEF Owed
    <3>2. after <= lines /\ lines \in Nat /\ gets \in Nat
      BY <2>2, Counts
    <3>3. after \in Nat
      <4>1. outbox'[d] \in Seq(Word)
        BY <1>3, EmptySeq DEF TypeOK
      <4> QED BY <4>1, CountPlaces
    <3> HIDE DEF lines, after, gets
    <3>4. after <= gets /\ (pc = "response" /\ clients[pos] = d => after + 1 <= gets)
      BY <3>1, <3>2, <3>3
    <3> QED BY <3>4 DEF after, gets
  <2> QED BY <2>1, <2>3 DEF OneLine
<1> QED BY <1>1, <1>2, <1>3 DEF Client, Receive, Close

\* What the server reads from a client without newlines has none.
LEMMA ReadNoNewline ==
  ASSUME TypeOK, OneLine, NEW c \in Conn, NEW buffer \in Reads(c),
         NEW tokens, tokens = Tokens(buffer),
         tokens.argument # NULL, tokens.value # NULL
  PROVE  \A j \in 1 .. Len(tokens.value) : tokens.value[j] # Newline
<1>1. /\ buffer \in Seq(Word) /\ Len(buffer) \in 1 .. Len(sent[c]) - taken[c]
      /\ \A i \in 1 .. Len(buffer) : buffer[i] = sent[c][taken[c] + i]
  BY ReadPart
<1>2. taken[c] \in 0 .. Len(sent[c]) /\ Len(sent[c]) \in Nat
  BY Counts
<1>3. ASSUME NEW i \in 1 .. Len(buffer) PROVE buffer[i] # Newline
  <2>1. taken[c] + i \in 1 .. Len(sent[c])
    BY <1>1, <1>2
  <2> QED BY <2>1, <1>1 DEF OneLine
<1>4. PICK b, e, f, g \in 1 .. Len(buffer) :
         /\ b <= e /\ e + 1 < f /\ f <= g
         /\ tokens.argument = SubSeq(buffer, b, e)
         /\ tokens.value = SubSeq(buffer, f, g)
         /\ \A i \in e + 1 .. f - 1 : buffer[i] = Space
  BY <1>1, TokenText, ZenonT(60)
<1>5. f \in 1 .. Len(buffer) + 1 /\ g \in f - 1 .. Len(buffer)
  BY <1>1, <1>2, <1>4
<1>6. /\ Len(tokens.value) = g - f + 1
      /\ \A j \in 1 .. g - f + 1 : tokens.value[j] = buffer[f + j - 1]
  BY <1>1, <1>4, <1>5, PartOfSeq
<1> SUFFICES ASSUME NEW j \in 1 .. g - f + 1 PROVE tokens.value[j] # Newline
  BY <1>6
<1>7. f + j - 1 \in 1 .. Len(buffer)
  <2>1. f \in Int /\ g \in Int /\ Len(buffer) \in Int /\ 1 <= f /\ g <= Len(buffer)
    BY <1>1, <1>2, <1>4
  <2> QED BY <2>1
<1> QED BY <1>3, <1>6, <1>7

\* A command begins with a word of its read.
LEMMA ReadCounts ==
  ASSUME TypeOK, NEW c \in Conn, NEW buffer \in Reads(c),
         taken' = [taken EXCEPT ![c] = @ + Len(buffer)], UNCHANGED sent
  PROVE  /\ \A d \in Conn : Count("get", SubSeq(sent[d], 1, taken[d])) <=
                            (Count("get", SubSeq(sent[d], 1, taken[d])))'
         /\ (\E i \in 1 .. Len(buffer) : buffer[i] = "get") =>
               Count("get", SubSeq(sent[c], 1, taken[c])) + 1 <=
                            (Count("get", SubSeq(sent[c], 1, taken[c])))'
<1>1. /\ Len(buffer) \in 1 .. Len(sent[c]) - taken[c]
      /\ \A i \in 1 .. Len(buffer) : buffer[i] = sent[c][taken[c] + i]
  BY ReadPart
<1>2. /\ taken[c] \in 0 .. Len(sent[c]) /\ sent[c] \in Seq(Word) /\ Len(sent[c]) \in Nat
  BY Counts
<1>3. /\ taken'[c] = taken[c] + Len(buffer)
      /\ \A d \in Conn : d # c => taken'[d] = taken[d]
  BY DEF TypeOK
<1>4. Len(buffer) \in 0 .. Len(sent[c]) - taken[c]
  BY <1>1, <1>2
<1>5. /\ Count("get", SubSeq(sent[c], 1, taken[c])) <=
            Count("get", SubSeq(sent[c], 1, taken[c] + Len(buffer)))
      /\ (\E i \in 1 .. Len(buffer) : sent[c][taken[c] + i] = "get") =>
            Count("get", SubSeq(sent[c], 1, taken[c])) + 1 <=
               Count("get", SubSeq(sent[c], 1, taken[c] + Len(buffer)))
  BY <1>2, <1>4, CountGrows
<1>6. ASSUME NEW d \in Conn
      PROVE  Count("get", SubSeq(sent[d], 1, taken[d])) <=
                Count("get", SubSeq(sent[d], 1, taken'[d]))
  <2>1. CASE d = c
    BY <2>1, <1>3, <1>5
  <2>2. CASE d # c
    <3>1. Count("get", SubSeq(sent[d], 1, taken[d])) \in Nat
      BY Counts
    <3> QED BY <3>1, <2>2, <1>3
  <2> QED BY <2>1, <2>2
<1>7. ASSUME NEW i \in 1 .. Len(buffer), buffer[i] = "get"
      PROVE  Count("get", SubSeq(sent[c], 1, taken[c])) + 1 <=
                Count("get", SubSeq(sent[c], 1, taken'[c]))
  BY <1>1, <1>3, <1>5, <1>7
<1>8. sent' = sent
  OBVIOUS
<1>9. ASSUME NEW d \in Conn
      PROVE  (Count("get", SubSeq(sent[d], 1, taken[d])))' =
                Count("get", SubSeq(sent[d], 1, taken'[d]))
  BY <1>8 DEF Count
<1> QED BY <1>6, <1>7, <1>9

\* A client is owed a line more only after a get was read from it.
LEMMA ReadAnswers ==
  ASSUME TypeOK, AnswerInvariant, NEW c \in Conn, ReadGet(c) \/ ReadSet(c) \/ ReadOther(c)
  PROVE  AnswerInvariant'
<1> USE DEF AnswerInvariant
<1>0. Reading(c) /\ storage \in Seq(Item) /\ Len(storage) \in Nat
  BY LenProperties DEF ReadGet, ReadSet, ReadOther, TypeOK, Item
<1>1. PICK buffer \in Reads(c) :
        LET tokens == Tokens(buffer) IN
        /\ taken' = [taken EXCEPT ![c] = @ + Len(buffer)]
        /\ UNCHANGED <<clients, sent, outbox>>
        /\ \/ /\ tokens.argument # NULL /\ tokens.command[1] = "get"
              /\ response' = get(tokens.argument) \o <<Newline>>
              /\ pc' = "response" /\ pos' = pos /\ storage' = storage
           \/ /\ tokens.argument # NULL /\ tokens.value # NULL
              /\ set(tokens.argument, tokens.value) /\ pc' = pc
           \/ storage' = storage /\ pc' = pc
  BY DEF ReadGet, ReadSet, ReadOther
<1> DEFINE tokens == Tokens(buffer)
<1>2. buffer \in Seq(Word) /\ tokens.argument \in Seq(Word) /\ tokens.value \in Seq(Word)
  <2>1. buffer \in Seq(Word)
    BY ReadPart
  <2> QED BY <2>1, TokenText
<1>3. ASSUME NEW d \in Conn
      PROVE  /\ Count(Newline, outbox[d]) \in Nat
             /\ Count("get", SubSeq(sent[d], 1, taken[d])) \in Nat
             /\ (Count("get", SubSeq(sent[d], 1, taken[d])))' \in Nat
             /\ Count("get", SubSeq(sent[d], 1, taken[d])) <=
                       (Count("get", SubSeq(sent[d], 1, taken[d])))'
  <2>1. (SubSeq(sent[d], 1, taken[d]))' \in Seq(Word)
    <3>1. taken[d] \in 0 .. Len(sent[d]) /\ sent[d] \in Seq(Word) /\ Len(sent[d]) \in Nat
      BY Counts
    <3>2. Len(buffer) \in 1 .. Len(sent[c]) - taken[c]
      BY ReadPart
    <3>3. taken'[d] = IF d = c THEN taken[d] + Len(buffer) ELSE taken[d]
      BY <1>1 DEF TypeOK
    <3>4. 1 \in 1 .. Len(sent[d]) + 1 /\ taken'[d] \in 1 - 1 .. Len(sent[d])
      BY <3>1, <3>2, <3>3
    <3>5. SubSeq(sent[d], 1, taken'[d]) \in Seq(Word)
      BY <3>1, <3>4, PartOfSeq
    <3> QED BY <3>5, <1>1
  <2>2. Count("get", (SubSeq(sent[d], 1, taken[d]))') \in Nat
    BY <2>1, CountPlaces
  <2>3. (Count("get", SubSeq(sent[d], 1, taken[d])))' \in Nat
    BY <2>2 DEF Count
  <2>4. Count("get", SubSeq(sent[d], 1, taken[d])) <=
                       (Count("get", SubSeq(sent[d], 1, taken[d])))'
    BY <1>1, ReadCounts
  <2> QED BY <2>3, <2>4, Counts
<1>4. ASSUME NEW d \in Conn
      PROVE  (Count(Newline, outbox[d]))' = Count(Newline, outbox[d])
  BY <1>1 DEF Count
<1>5. CASE /\ tokens.argument # NULL /\ tokens.command[1] = "get"
           /\ response' = get(tokens.argument) \o <<Newline>>
           /\ pc' = "response" /\ pos' = pos /\ storage' = storage
  <2> DEFINE value == get(tokens.argument)
  <2>1. value \in Seq(Word) /\ \A j \in 1 .. Len(value) : value[j] # Newline
    <3>1. find(tokens.argument) # 0 => find(tokens.argument) \in 1 .. Len(storage)
      BY <1>0, FindFinds
    <3>2. CASE find(tokens.argument) = 0
      BY <3>2, EmptySeq DEF get
    <3>3. CASE find(tokens.argument) # 0
      <4>1. storage[find(tokens.argument)] \in Item
        BY <3>1, <3>3, <1>0, ElementOfSeq
      <4> QED BY <4>1, <3>1, <3>3 DEF get, Item, OneLine
    <3> QED BY <3>2, <3>3
  <2>2. response' = value \o <<Newline>>
    BY <1>5
  <2> HIDE DEF value
  <2>3. /\ Len(response') = Len(value) + 1 /\ Len(value) \in Nat
        /\ \A j \in 1 .. Len(value) + 1 :
              response'[j] = IF j <= Len(value) THEN value[j] ELSE <<Newline>>[j - Len(value)]
    <3>1. <<Newline>> \in Seq(Word) /\ Len(<<Newline>>) = 1
      BY DEF Word
    <3> QED BY <3>1, <2>1, <2>2, ConcatProperties, LenProperties
  <2>4. \A j \in 1 .. Len(response') : response'[j] = Newline => j = Len(response')
    BY <2>1, <2>3
  <2>5. OneLine'
    BY <2>4, <1>1, <1>5 DEF OneLine
  <2>6. Count("get", SubSeq(sent[c], 1, taken[c])) + 1 <=
              (Count("get", SubSeq(sent[c], 1, taken[c])))'
    <3>1. \E i \in 1 .. Len(buffer) : tokens.command[1] = buffer[i]
      BY <1>2, <1>5, TokenText
    <3>2. \E i \in 1 .. Len(buffer) : buffer[i] = "get"
      BY <3>1, <1>5
    <3> QED BY <3>2, <1>1, ReadCounts
  <2>7. ASSUME NEW d \in Conn
        PROVE  /\ (Count(Newline, outbox[d]))' <= (Count("get", SubSeq(sent[d], 1, taken[d])))'
               /\ d = c => (Count(Newline, outbox[d]))' + 1 <=
                                (Count("get", SubSeq(sent[d], 1, taken[d])))'
    <3> DEFINE lines == Count(Newline, outbox[d])
               gets  == Count("get", SubSeq(sent[d], 1, taken[d]))
    <3>1. lines <= gets
      BY DEF Owed
    <3>2. lines \in Nat /\ gets \in Nat /\ gets' \in Nat /\ gets <= gets' /\ lines' = lines
      BY <1>3, <1>4
    <3>3. d = c => gets + 1 <= gets'
      BY <2>6
    <3> HIDE DEF lines, gets
    <3>4. lines' <= gets' /\ (d = c => lines' + 1 <= gets')
      BY <3>1, <3>2, <3>3
    <3> QED BY <3>4 DEF lines, gets
  <2>8. clients'[pos'] = c
    BY <1>0, <1>1, <1>5 DEF Reading
  <2>9. Owed'
    BY <2>7, <2>8 DEF Owed
  <2> QED BY <2>5, <2>9
<1>6. CASE pc' = pc /\ \/ storage' = storage
                       \/ /\ tokens.argument # NULL /\ tokens.value # NULL
                          /\ set(tokens.argument, tokens.value)
  <2>1. pc' # "response"
    BY <1>0, <1>6 DEF Reading
  <2>2. \A i \in 1 .. Len(storage') : \A j \in 1 .. Len(storage'[i].value) :
             storage'[i].value[j] # Newline
    <3>1. CASE storage' = storage
      BY <3>1 DEF OneLine
    <3>2. CASE /\ tokens.argument # NULL /\ tokens.value # NULL
               /\ set(tokens.argument, tokens.value)
      <4>1. \A i \in 1 .. Len(storage') :
               \/ storage'[i].value = tokens.value
               \/ \E j \in 1 .. Len(storage) : storage'[i] = storage[j]
        BY <3>2, <1>0, <1>2, SetSets
      <4>2. \A j \in 1 .. Len(tokens.value) : tokens.value[j] # Newline
        BY <3>2, ReadNoNewline
      <4> HIDE DEF tokens
      <4> QED BY <4>1, <4>2 DEF OneLine
    <3> QED BY <3>1, <3>2, <1>6
  <2>3. OneLine'
    BY <2>1, <2>2, <1>1 DEF OneLine
  <2>4. ASSUME NEW d \in Conn
        PROVE  (Count(Newline, outbox[d]))' <= (Count("get", SubSeq(sent[d], 1, taken[d])))'
    <3> DEFINE lines == Count(Newline, outbox[d])
               gets  == Count("get", SubSeq(sent[d], 1, taken[d]))
    <3>1. lines <= gets
      BY DEF Owed
    <3>2. lines \in Nat /\ gets \in Nat /\ gets' \in Nat /\ gets <= gets' /\ lines' = lines
      BY <1>3, <1>4
    <3> HIDE DEF lines, gets
    <3>4. lines' <= gets'
      BY <3>1, <3>2
    <3> QED BY <3>4 DEF lines, gets
  <2>5. Owed'
    BY <2>1, <2>4 DEF Owed
  <2> QED BY <2>3, <2>5
<1> QED BY <1>1, <1>5, <1>6

\* What the server owes a client goes to it, and nothing else is written.
LEMMA ServerAnswers ==
  ASSUME TypeOK, AnswerInvariant, Server
  PROVE  AnswerInvariant'
<1> USE DEF AnswerInvariant
<1>1. CASE UNCHANGED <<storage, sent, taken, outbox>> /\ pc' # "response"
  BY <1>1 DEF OneLine, Owed
<1>2. CASE \E c \in Conn : ReadGet(c) \/ ReadSet(c) \/ ReadOther(c)
  BY <1>2, ReadAnswers
<1>3. ASSUME NEW c \in Conn, Respond(c) PROVE AnswerInvariant'
  <2> DEFINE all == outbox[c] \o response
             fits == Min({OutSize, Len(outbox[c]) + Len(response)})
  <2>1. /\ outbox[c] \in Seq(Word) /\ response \in Seq(Word)
        /\ all \in Seq(Word) /\ Len(all) = Len(outbox[c]) + Len(response)
        /\ Len(all) \in Nat /\ OutSize \in Nat
    BY ConcatProperties, LenProperties, KvServerAssumption DEF TypeOK
  <2>2. fits \in 0 .. Len(all)
    <3>1. {OutSize, Len(outbox[c]) + Len(response)} \in SUBSET Nat
      BY <2>1
    <3>2. fits \in Nat /\ fits <= Len(outbox[c]) + Len(response)
      BY <3>1, MinIsLeast
    <3> HIDE DEF fits
    <3> QED BY <3>2, <2>1
  <2>3. outbox' = [outbox EXCEPT ![c] = SubSeq(all, 1, fits)]
    BY <1>3 DEF Respond
  <2> HIDE DEF fits
  <2>4. /\ pc = "response" /\ clients[pos] = c /\ pc' = "read"
        /\ UNCHANGED <<storage, sent, taken>>
    BY <1>3 DEF Respond, Responding
  <2>5. Count(Newline, SubSeq(all, 1, fits)) <= Count(Newline, outbox[c]) + 1
    BY <2>1, <2>2, <2>4, CountWritten DEF OneLine
  <2>6. Count(Newline, SubSeq(all, 1, fits)) \in Nat
    <3>1. SubSeq(all, 1, fits) \in Seq(Word)
      <4>1. 1 \in 1 .. Len(all) + 1 /\ fits \in 1 - 1 .. Len(all)
        BY <2>1, <2>2
      <4> QED BY <4>1, <2>1, PartOfSeq
    <3> QED BY <3>1, CountPlaces
  <2>7. ASSUME NEW d \in Conn
        PROVE  Count(Newline, outbox'[d]) <= Count("get", SubSeq(sent[d], 1, taken[d]))
    <3>1. CASE d # c
      BY <3>1, <2>3 DEF Owed, TypeOK
    <3>2. CASE d = c
      <4> DEFINE lines == Count(Newline, outbox[c])
                 gets  == Count("get", SubSeq(sent[c], 1, taken[c]))
                 after == Count(Newline, SubSeq(all, 1, fits))
      <4>1. lines + 1 <= gets
        BY <2>4 DEF Owed
      <4>2. lines \in Nat /\ gets \in Nat /\ after \in Nat /\ after <= lines + 1
        BY <2>5, <2>6, Counts
      <4>3. outbox'[d] = SubSeq(all, 1, fits)
        BY <3>2, <2>3 DEF TypeOK
      <4> HIDE DEF lines, gets, after
      <4>4. after <= gets
        BY <4>1, <4>2
      <4> QED BY <4>3, <4>4, <3>2 DEF after, gets
    <3> QED BY <3>1, <3>2
  <2>8. OneLine'
    BY <2>4 DEF OneLine
  <2>9. Owed'
    BY <2>4, <2>7 DEF Owed
  <2> QED BY <2>8, <2>9
<1>4. CASE \/ Accept \/ AcceptNobody \/ AcceptFails \/ ScanEnds
           \/ \E c \in Conn : \/ ReadNothing(c) \/ ReadFails(c)
                              \/ RespondToClosed(c) \/ RespondKills(c)
  BY <1>1, <1>4 DEF Accept, AcceptNobody, AcceptFails, ScanEnds, ReadNothing, ReadFails,
                    Reading, RespondToClosed, RespondKills, network
<1> QED BY <1>2, <1>3, <1>4 DEF Server

\* Where the clients send commands only, without newlines, a client never has
\* more lines to read than gets that were read from it: no answer goes to
\* another client, none is given twice.
THEOREM AnswersGoToAskers ==
  ASSUME Terminator = <<>>
  PROVE  Spec => []AnswersOnlyAskers
<1>1. Inv => TypeOK
  BY DEF Inv, ItemsFromOneClient
<1>2. TypeOK /\ AnswerInvariant /\ [Next]_vars => AnswerInvariant'
  <2>1. AnswerInvariant /\ UNCHANGED vars => AnswerInvariant'
    BY DEF AnswerInvariant, OneLine, Owed, vars, Count
  <2> QED BY <2>1, ClientAnswers, ServerAnswers DEF Next
<1>3. AnswerInvariant => AnswersOnlyAskers
  BY DEF AnswerInvariant, Owed, AnswersOnlyAskers
<1> QED BY KvInvariant, InitAnswers, <1>1, <1>2, <1>3, PTL DEF Spec

----------------------------------------------------------------------------
(* The atomic map of patient clients.  They send one command at a time, and *)
(* it fits the buffer: a read returns it whole.                             *)

\* Where strtok_r finds a token that stands between the given places.
LEMMA TokenIs ==
  ASSUME NEW buffer \in Seq(Word), NEW from \in 1 .. Len(buffer),
         NEW f \in from .. Len(buffer), NEW l \in f .. Len(buffer),
         \A i \in from .. f - 1 : buffer[i] = Space,
         \A i \in f .. l : buffer[i] # Space,
         l = Len(buffer) \/ buffer[l + 1] = Space
  PROVE  strtok_r(buffer)[from].first = f /\ strtok_r(buffer)[from].last = l
<1> DEFINE n == Len(buffer)
           b == strtok_r(buffer)[from].first
           e == strtok_r(buffer)[from].last
<1>1. n \in Nat /\ from \in 1 .. n + 1 /\ from \in Nat /\ f \in Nat /\ l \in Nat
      /\ from <= f /\ f <= l /\ l <= n
  BY LenProperties
<1>2. /\ b \in from .. n + 1 /\ e \in b - 1 .. n
      /\ \A i \in from .. b - 1 : buffer[i] = Space
      /\ \A i \in b .. e : buffer[i] # Space
      /\ b <= n => b <= e
      /\ e < n => buffer[e + 1] = Space
  BY <1>1, TokenPlace
<1> HIDE DEF b, e
<1>3. b <= f
  <2>1. CASE b > f
    <3>1. f \in from .. b - 1 /\ f \in f .. l
      BY <2>1, <1>1, <1>2
    <3> QED BY <3>1, <1>2
  <2> QED BY <2>1, <1>1, <1>2
<1>4. b = f
  <2>1. CASE b < f
    <3>1. b \in from .. f - 1 /\ b \in b .. e
      BY <2>1, <1>1, <1>2
    <3> QED BY <3>1, <1>2
  <2> QED BY <2>1, <1>1, <1>2, <1>3
<1>5. e <= l
  <2>1. CASE e > l
    <3>1. l + 1 \in b .. e /\ l # n
      BY <2>1, <1>1, <1>2, <1>4
    <3> QED BY <3>1, <1>2
  <2> QED BY <2>1, <1>1, <1>2
<1>6. e = l
  <2>1. CASE e < l
    <3>1. e + 1 \in f .. l /\ e < n
      BY <2>1, <1>1, <1>2, <1>4
    <3> QED BY <3>1, <1>2
  <2> QED BY <2>1, <1>1, <1>2, <1>5
<1> QED BY <1>4, <1>6 DEF b, e

\* One word of a text.
LEMMA OneWord ==
  ASSUME NEW s \in Seq(Word), NEW i \in 1 .. Len(s)
  PROVE  SubSeq(s, i, i) = <<s[i]>>
<1>1. Len(s) \in Nat /\ s[i] \in Word
  BY LenProperties, ElementOfSeq
<1>2. i \in 1 .. Len(s) + 1 /\ i \in i - 1 .. Len(s) /\ i - i + 1 = 1 /\ i + 1 - 1 = i
  BY <1>1
<1>3. /\ SubSeq(s, i, i) \in Seq(Word) /\ Len(SubSeq(s, i, i)) = 1
      /\ SubSeq(s, i, i)[1] = s[i]
  <2>1. /\ SubSeq(s, i, i) \in Seq(Word) /\ Len(SubSeq(s, i, i)) = i - i + 1
        /\ \A j \in 1 .. i - i + 1 : SubSeq(s, i, i)[j] = s[i + j - 1]
    BY <1>2, PartOfSeq
  <2> QED BY <2>1, <1>2
<1>4. <<s[i]>> \in Seq(Word) /\ Len(<<s[i]>>) = 1 /\ <<s[i]>>[1] = s[i]
  BY <1>1
<1>5. \A j \in 1 .. Len(SubSeq(s, i, i)) : SubSeq(s, i, i)[j] = <<s[i]>>[j]
  BY <1>3, <1>4
<1>6. Len(SubSeq(s, i, i)) = Len(<<s[i]>>)
  BY <1>3, <1>4
<1> QED BY <1>3, <1>4, <1>5, <1>6, SeqEqual

\* What a patient client sends.
GetText(k)    == <<"get", Space, k>>
SetText(k, v) == <<"set", Space, k, Space, v>>

\* The server takes `get k' apart into two words.
LEMMA GetTokens ==
  ASSUME NEW k \in Keys
  PROVE  /\ GetText(k) \in Seq(Word) /\ Len(GetText(k)) = 3
         /\ Tokens(GetText(k)).command[1] = "get"
         /\ Tokens(GetText(k)).argument = <<k>>
<1> DEFINE t == GetText(k)
<1>1. /\ t \in Seq(Word) /\ Len(t) = 3 /\ t[1] = "get" /\ t[2] = Space /\ t[3] = k
      /\ t[1] # Space /\ t[3] # Space
  BY KvServerAssumption DEF GetText, Word, Space
<1> HIDE DEF t
<1>2. strtok_r(t)[1].first = 1 /\ strtok_r(t)[1].last = 1
  <2>1. 1 \in 1 .. Len(t) /\ 1 \in 1 .. 1 /\ (\A i \in 1 .. 1 - 1 : t[i] = Space)
        /\ (\A i \in 1 .. 1 : t[i] # Space) /\ t[1 + 1] = Space
    BY <1>1
  <2> QED BY <2>1, <1>1, TokenIs
<1>3. strtok_r(t)[2].first = 3 /\ strtok_r(t)[2].last = 3
  <2>1. 2 \in 1 .. Len(t) /\ 3 \in 2 .. Len(t) /\ 3 \in 3 .. Len(t)
        /\ (\A i \in 2 .. 3 - 1 : t[i] = Space)
        /\ (\A i \in 3 .. 3 : t[i] # Space) /\ 3 = Len(t)
    BY <1>1
  <2> QED BY <2>1, <1>1, TokenIs
<1>4. strtok_r(t)[1].last + 1 = 2
  BY <1>2
<1>5. Tokens(t).command = SubSeq(t, 1, 1) /\ Tokens(t).argument = SubSeq(t, 3, 3)
  BY <1>2, <1>3, <1>4 DEF Tokens, Text
<1>6. SubSeq(t, 1, 1) = <<t[1]>> /\ SubSeq(t, 3, 3) = <<t[3]>>
  <2>1. 1 \in 1 .. Len(t) /\ 3 \in 1 .. Len(t)
    BY <1>1
  <2> QED BY <2>1, <1>1, OneWord
<1> QED BY <1>1, <1>5, <1>6 DEF t

\* And `set k v' into three.
LEMMA SetTokens ==
  ASSUME NEW k \in Keys, NEW v \in Values
  PROVE  /\ SetText(k, v) \in Seq(Word) /\ Len(SetText(k, v)) = 5
         /\ Tokens(SetText(k, v)).command[1] = "set"
         /\ Tokens(SetText(k, v)).argument = <<k>>
         /\ Tokens(SetText(k, v)).value = <<v>>
<1> DEFINE t == SetText(k, v)
<1>1. /\ t \in Seq(Word) /\ Len(t) = 5
      /\ t[1] = "set" /\ t[2] = Space /\ t[3] = k /\ t[4] = Space /\ t[5] = v
      /\ t[1] # Space /\ t[3] # Space /\ t[5] # Space
  BY KvServerAssumption DEF SetText, Word, Space
<1> HIDE DEF t
<1>2. strtok_r(t)[1].first = 1 /\ strtok_r(t)[1].last = 1
  <2>1. 1 \in 1 .. Len(t) /\ 1 \in 1 .. 1 /\ (\A i \in 1 .. 1 - 1 : t[i] = Space)
        /\ (\A i \in 1 .. 1 : t[i] # Space) /\ t[1 + 1] = Space
    BY <1>1
  <2> QED BY <2>1, <1>1, TokenIs
<1>3. strtok_r(t)[2].first = 3 /\ strtok_r(t)[2].last = 3
  <2>1. 2 \in 1 .. Len(t) /\ 3 \in 2 .. Len(t) /\ 3 \in 3 .. Len(t)
        /\ (\A i \in 2 .. 3 - 1 : t[i] = Space)
        /\ (\A i \in 3 .. 3 : t[i] # Space) /\ t[3 + 1] = Space
    BY <1>1
  <2> QED BY <2>1, <1>1, TokenIs
<1>4. strtok_r(t)[4].first = 5 /\ strtok_r(t)[4].last = 5
  <2>1. 4 \in 1 .. Len(t) /\ 5 \in 4 .. Len(t) /\ 5 \in 5 .. Len(t)
        /\ (\A i \in 4 .. 5 - 1 : t[i] = Space)
        /\ (\A i \in 5 .. 5 : t[i] # Space) /\ 5 = Len(t)
    BY <1>1
  <2> QED BY <2>1, <1>1, TokenIs
<1>5. strtok_r(t)[1].last + 1 = 2 /\ strtok_r(t)[2].last + 1 = 4
  BY <1>2, <1>3
<1>6. /\ Tokens(t).command = SubSeq(t, 1, 1) /\ Tokens(t).argument = SubSeq(t, 3, 3)
      /\ Tokens(t).value = SubSeq(t, 5, 5)
  BY <1>2, <1>3, <1>4, <1>5 DEF Tokens, Text
<1>7. SubSeq(t, 1, 1) = <<t[1]>> /\ SubSeq(t, 3, 3) = <<t[3]>> /\ SubSeq(t, 5, 5) = <<t[5]>>
  <2>1. 1 \in 1 .. Len(t) /\ 3 \in 1 .. Len(t) /\ 5 \in 1 .. Len(t)
    BY <1>1
  <2> QED BY <2>1, <1>1, OneWord
<1> QED BY <1>1, <1>6, <1>7 DEF t

\* The text of a command without terminator, and the command of a text.
LEMMA PatientText ==
  ASSUME Terminator = <<>>, NEW cmd \in Command
  PROVE  \/ /\ cmd.op = "get" /\ cmd.key \in Keys /\ cmd = [op |-> "get", key |-> cmd.key]
            /\ TextOf(cmd) = GetText(cmd.key)
         \/ /\ cmd.op = "set" /\ cmd.key \in Keys /\ cmd.value \in Values
            /\ cmd = [op |-> "set", key |-> cmd.key, value |-> cmd.value]
            /\ TextOf(cmd) = SetText(cmd.key, cmd.value)
<1>1. CASE cmd \in [op : {"get"}, key : Keys]
  <2>1. cmd.op = "get" /\ cmd.key \in Keys /\ cmd = [op |-> "get", key |-> cmd.key]
    BY <1>1
  <2>2. GetText(cmd.key) \o <<>> = GetText(cmd.key)
    BY <2>1, GetTokens, ConcatEmptySeq
  <2> QED BY <2>1, <2>2 DEF TextOf, GetText
<1>2. CASE cmd \in [op : {"set"}, key : Keys, value : Values]
  <2>1. /\ cmd.op = "set" /\ cmd.key \in Keys /\ cmd.value \in Values
        /\ cmd = [op |-> "set", key |-> cmd.key, value |-> cmd.value]
    BY <1>2
  <2>2. SetText(cmd.key, cmd.value) \o <<>> = SetText(cmd.key, cmd.value)
    BY <2>1, SetTokens, ConcatEmptySeq
  <2> QED BY <2>1, <2>2 DEF TextOf, SetText
<1> QED BY <1>1, <1>2 DEF Command

\* Different commands have different texts.
LEMMA CommandOfText ==
  ASSUME Terminator = <<>>, NEW cmd \in Command
  PROVE  CommandIn(TextOf(cmd)) = cmd
<1>1. ASSUME NEW other \in Command, TextOf(other) = TextOf(cmd)
      PROVE  other = cmd
  <2>1. ASSUME NEW k, NEW k2, NEW v2 PROVE GetText(k) # SetText(k2, v2)
    BY DEF GetText, SetText
  <2>2. ASSUME NEW k, NEW k2, GetText(k) = GetText(k2) PROVE k = k2
    BY <2>2 DEF GetText
  <2>3. ASSUME NEW k, NEW v, NEW k2, NEW v2, SetText(k, v) = SetText(k2, v2)
        PROVE  k = k2 /\ v = v2
    BY <2>3 DEF SetText
  <2>4. CASE cmd.op = "get" /\ other.op = "get"
    <3>1. /\ cmd = [op |-> "get", key |-> cmd.key] /\ TextOf(cmd) = GetText(cmd.key)
          /\ other = [op |-> "get", key |-> other.key] /\ TextOf(other) = GetText(other.key)
      BY <2>4, PatientText
    <3> QED BY <3>1, <1>1, <2>2
  <2>5. CASE cmd.op = "set" /\ other.op = "set"
    <3>1. /\ cmd = [op |-> "set", key |-> cmd.key, value |-> cmd.value]
          /\ TextOf(cmd) = SetText(cmd.key, cmd.value)
          /\ other = [op |-> "set", key |-> other.key, value |-> other.value]
          /\ TextOf(other) = SetText(other.key, other.value)
      BY <2>5, PatientText
    <3>2. SetText(cmd.key, cmd.value) = SetText(other.key, other.value)
      BY <3>1, <1>1
    <3>3. cmd.key = other.key /\ cmd.value = other.value
      BY <3>2, <2>3
    <3> QED BY <3>1, <3>3
  <2> QED BY <1>1, <2>1, <2>4, <2>5, PatientText
<1>2. \E other \in Command : TextOf(other) = TextOf(cmd)
  OBVIOUS
<1> QED BY <1>1, <1>2 DEF CommandIn

\* What the list of items holds for a key, if no key is in it twice.
Lookup(items, key) ==
    LET place == SelectInSeq(items, LAMBDA item : item.key = key)
    IN  IF place = 0 THEN <<>> ELSE items[place].value

KeysDiffer(items) ==
    \A i, j \in 1 .. Len(items) : items[i].key = items[j].key => i = j

\* The value of a key's item, and nothing for a key without one.
LEMMA LookupIs ==
  ASSUME NEW items \in Seq(Item), NEW key, KeysDiffer(items)
  PROVE  /\ \A i \in 1 .. Len(items) :
               items[i].key = key => Lookup(items, key) = items[i].value
         /\ (\A i \in 1 .. Len(items) : items[i].key # key) => Lookup(items, key) = <<>>
<1> DEFINE I == {i \in 1 .. Len(items) : items[i].key = key}
           place == SelectInSeq(items, LAMBDA item : item.key = key)
<1>1. place = IF I # {} THEN Min(I) ELSE 0
  BY DEF SelectInSeq
<1>2. CASE I = {}
  BY <1>1, <1>2 DEF Lookup
<1>3. CASE I # {}
  <2>1. I \in SUBSET Nat
    OBVIOUS
  <2>2. Min(I) \in I
    <3> HIDE DEF I
    <3> QED BY <2>1, <1>3, MinIsLeast
  <2>3. place \in 1 .. Len(items) /\ items[place].key = key /\ place # 0
    BY <2>2, <1>1, <1>3
  <2>4. Lookup(items, key) = items[place].value
    <3> HIDE DEF I
    <3> QED BY <2>3 DEF Lookup
  <2> HIDE DEF place
  <2> QED BY <2>3, <2>4 DEF KeysDiffer
<1> QED BY <1>2, <1>3

\* set leaves the items of other keys in the list.
LEMMA SetKeeps ==
  ASSUME storage \in Seq(Item), NEW key \in Seq(Word), NEW value \in Seq(Word),
         set(key, value)
  PROVE  /\ \E i \in 1 .. Len(storage') : storage'[i].key = key /\ storage'[i].value = value
         /\ \A j \in 1 .. Len(storage) : storage[j].key # key =>
               \E i \in 1 .. Len(storage') : storage'[i] = storage[j]
<1> DEFINE item == [key |-> key, value |-> value]
<1>1. item \in Item /\ <<item>> \in Seq(Item) /\ Len(<<item>>) = 1 /\ Len(storage) \in Nat
  BY LenProperties DEF Item
<1>2. CASE find(key) = 0
  <2>1. storage' = <<item>> \o storage
    BY <1>2 DEF set
  <2>2. /\ Len(storage') = Len(storage) + 1
        /\ \A i \in 1 .. Len(storage') :
              storage'[i] = IF i = 1 THEN item ELSE storage[i - 1]
    BY <2>1, <1>1, ConcatProperties
  <2>3. 1 \in 1 .. Len(storage') /\ storage'[1] = item
    BY <2>2, <1>1
  <2>4. \A j \in 1 .. Len(storage) :
            j + 1 \in 1 .. Len(storage') /\ storage'[j + 1] = storage[j]
    BY <2>2, <1>1
  <2>5. storage'[1].key = key /\ storage'[1].value = value
    BY <2>3
  <2> HIDE DEF item
  <2>6. \E i \in 1 .. Len(storage') : storage'[i].key = key /\ storage'[i].value = value
    BY <2>3, <2>5
  <2>7. \A j \in 1 .. Len(storage) : \E i \in 1 .. Len(storage') : storage'[i] = storage[j]
    BY <2>4
  <2> QED BY <2>6, <2>7
<1>3. CASE find(key) # 0
  <2>1. find(key) \in 1 .. Len(storage) /\ storage[find(key)].key = key
    BY <1>3, <1>1, FindFinds
  <2> DEFINE p == find(key)
             new == [storage[p] EXCEPT !.value = value]
  <2>2. storage[p] \in Item
    BY <2>1, ElementOfSeq
  <2>3. new \in Item /\ new.key = key /\ new.value = value
    BY <2>1, <2>2 DEF Item
  <2>4. storage' = [storage EXCEPT ![p] = new]
    BY <1>3 DEF set
  <2> HIDE DEF p, new
  <2>5. p \in 1 .. Len(storage)
    BY <2>1 DEF p
  <2>6. /\ Len(storage') = Len(storage)
        /\ \A i \in 1 .. Len(storage) : storage'[i] = IF i = p THEN new ELSE storage[i]
    BY <2>3, <2>4, <2>5, ExceptSeq
  <2>7. storage[p].key = key
    BY <2>1 DEF p
  <2> QED BY <2>3, <2>5, <2>6, <2>7
<1> QED BY <1>2, <1>3

\* After set, get returns the value for this key, and for every other key what
\* it returned before.
LEMMA SetThenGet ==
  ASSUME storage \in Seq(Item), KeysDiffer(storage),
         NEW key \in Seq(Word), NEW value \in Seq(Word), set(key, value)
  PROVE  /\ Lookup(storage', key) = value
         /\ \A other \in Seq(Word) :
               other # key => Lookup(storage', other) = Lookup(storage, other)
<1>1. /\ storage' \in Seq(Item) /\ KeysDiffer(storage')
      /\ \A i \in 1 .. Len(storage') :
            \/ storage'[i].key = key /\ storage'[i].value = value
            \/ \E j \in 1 .. Len(storage) : storage'[i] = storage[j]
  BY SetSets DEF KeysDiffer
<1>2. Lookup(storage', key) = value
  <2>1. PICK i \in 1 .. Len(storage') : storage'[i].key = key /\ storage'[i].value = value
    BY SetKeeps
  <2> QED BY <2>1, <1>1, LookupIs
<1>3. ASSUME NEW other \in Seq(Word), other # key
      PROVE  Lookup(storage', other) = Lookup(storage, other)
  <2>1. CASE \E j \in 1 .. Len(storage) : storage[j].key = other
    <3>1. PICK j \in 1 .. Len(storage) : storage[j].key = other
      BY <2>1
    <3>2. PICK i \in 1 .. Len(storage') : storage'[i] = storage[j]
      BY <3>1, <1>3, SetKeeps
    <3>3. Lookup(storage, other) = storage[j].value
      BY <3>1, LookupIs
    <3>4. Lookup(storage', other) = storage'[i].value
      BY <3>1, <3>2, <1>1, LookupIs
    <3> QED BY <3>2, <3>3, <3>4
  <2>2. CASE \A j \in 1 .. Len(storage) : storage[j].key # other
    <3>1. \A i \in 1 .. Len(storage') : storage'[i].key # other
      BY <2>2, <1>1, <1>3
    <3>2. Lookup(storage, other) = <<>>
      BY <2>2, LookupIs
    <3>3. Lookup(storage', other) = <<>>
      BY <3>1, <1>1, LookupIs
    <3> QED BY <3>2, <3>3
  <2> QED BY <2>1, <2>2
<1> QED BY <1>2, <1>3

\* get looks the key up in the list, before a step and after it.
LEMMA GetLooksUp ==
  ASSUME NEW key
  PROVE  get(key) = Lookup(storage, key) /\ get(key)' = Lookup(storage', key)
<1>1. get(key) = Lookup(storage, key)
  BY DEF get, find, Lookup
<1>2. get(key)' = Lookup(storage', key)
  BY DEF get, find, Lookup, SelectInSeq
<1> QED BY <1>1, <1>2

\* The answers and the commands that can be under way.
Lines == {<<Newline>>} \cup {<<v, Newline>> : v \in Values}
Texts == {TextOf(cmd) : cmd \in Command}

\* Patient clients take turns with the server: each has one command or one
\* answer under way, whole, and keeps its connection open for it.
Turns ==
    /\ \A c \in Conn : /\ Inbox(c) \in {<<>>} \cup Texts
                       /\ outbox[c] \in {<<>>} \cup Lines
                       /\ Inbox(c) # <<>> => outbox[c] = <<>>
                       /\ Waiting(c) => conn[c] = "open"
    /\ pc = "response" => /\ response \in Lines
                          /\ Inbox(clients[pos]) = <<>>
                          /\ outbox[clients[pos]] = <<>>
    /\ \A i \in 1 .. Len(storage) : storage[i].value \in {<<v>> : v \in Values}

\* The clients of test.py, buffers that hold a command and an answer, and no
\* value that AbstractKv takes for the lack of a reply.
Patience == /\ Patient /\ Terminator = <<>>
            /\ CLIENT_BUFFER_SIZE >= 6 /\ OutSize >= 2
            /\ "no reply" \notin Values

\* What is not read is the end of what was sent.
LEMMA InboxIs ==
  ASSUME NEW s \in Seq(Word), NEW k \in Nat, k <= Len(s)
  PROVE  /\ SubSeq(s, k + 1, Len(s)) \in Seq(Word)
         /\ Len(SubSeq(s, k + 1, Len(s))) = Len(s) - k
         /\ k = Len(s) <=> SubSeq(s, k + 1, Len(s)) = <<>>
<1>1. Len(s) \in Nat
  BY LenProperties
<1>2. k + 1 \in 1 .. Len(s) + 1 /\ Len(s) \in (k + 1) - 1 .. Len(s)
      /\ Len(s) - (k + 1) + 1 = Len(s) - k
  BY <1>1
<1>3. /\ SubSeq(s, k + 1, Len(s)) \in Seq(Word)
      /\ Len(SubSeq(s, k + 1, Len(s))) = Len(s) - k
  BY <1>2, PartOfSeq
<1>4. k = Len(s) => SubSeq(s, k + 1, Len(s)) = <<>>
  <2>1. k = Len(s) => Len(s) < k + 1
    BY <1>1
  <2> QED BY <2>1, <1>1, SubSeqEmpty
<1>5. k # Len(s) => SubSeq(s, k + 1, Len(s)) # <<>>
  <2>1. k # Len(s) => Len(s) - k # 0
    BY <1>1
  <2> QED BY <2>1, <1>3, EmptySeq
<1> QED BY <1>3, <1>4, <1>5

\* A patient client's command is read at once and whole.
LEMMA ReadWhole ==
  ASSUME Patience, TypeOK, Turns, NEW c \in Conn, NEW buffer \in Reads(c)
  PROVE  /\ Inbox(c) \in Texts /\ buffer = Inbox(c)
         /\ taken[c] + Len(buffer) = Len(sent[c])
         /\ SubSeq(sent[c], taken[c] + Len(buffer) + 1, Len(sent[c])) = <<>>
<1> DEFINE inbox == Inbox(c)
           most  == Min({Len(inbox), CLIENT_BUFFER_SIZE - 1})
<1>1. /\ sent[c] \in Seq(Word) /\ taken[c] \in Nat /\ taken[c] <= Len(sent[c])
      /\ Len(sent[c]) \in Nat
  BY LenProperties DEF TypeOK
<1>2. /\ inbox \in Seq(Word) /\ Len(inbox) = Len(sent[c]) - taken[c]
      /\ Len(inbox) \in Nat
  BY <1>1, InboxIs DEF Inbox
<1>3. buffer \in Seq(Word) /\ Len(buffer) \in 1 .. Len(inbox)
  BY <1>2, ReadPart
<1>4. inbox \in Texts
  <2>1. inbox # <<>>
    BY <1>2, <1>3, EmptySeq
  <2> QED BY <2>1 DEF Turns
<1>5. Len(inbox) <= 5
  <2>1. PICK cmd \in Command : inbox = TextOf(cmd)
    BY <1>4 DEF Texts
  <2> HIDE DEF inbox
  <2>2. \/ \E k \in Keys : inbox = GetText(k)
        \/ \E k \in Keys, v \in Values : inbox = SetText(k, v)
    BY <2>1, PatientText DEF Patience
  <2>3. ASSUME NEW k \in Keys, inbox = GetText(k) PROVE Len(inbox) = 3
    BY <2>3, GetTokens
  <2>4. ASSUME NEW k \in Keys, NEW v \in Values, inbox = SetText(k, v) PROVE Len(inbox) = 5
    BY <2>4, SetTokens
  <2>5. Len(inbox) = 3 \/ Len(inbox) = 5
    BY <2>2, <2>3, <2>4
  <2> QED BY <2>5, <1>2
<1>6. PICK n \in ReadLengths(c) : buffer = SubSeq(inbox, 1, n)
  BY DEF Reads
<1> HIDE DEF inbox
<1>7. most = Len(inbox)
  <2>0. CLIENT_BUFFER_SIZE \in Nat /\ CLIENT_BUFFER_SIZE >= 6
    BY KvServerAssumption DEF Patience
  <2>1. CLIENT_BUFFER_SIZE - 1 \in Nat /\ Len(inbox) <= CLIENT_BUFFER_SIZE - 1
    BY <2>0, <1>2, <1>5
  <2>2. {Len(inbox), CLIENT_BUFFER_SIZE - 1} \in SUBSET Nat
    BY <2>1, <1>2
  <2>3. \A y \in {Len(inbox), CLIENT_BUFFER_SIZE - 1} : Len(inbox) <= y
    BY <2>1, <1>2
  <2> QED BY <2>2, <2>3, MinIs
<1>8. n = Len(inbox)
  <2>1. n \in {most} \ {0}
    BY <1>6 DEF ReadLengths, Patience, inbox
  <2> QED BY <2>1, <1>7
<1>9. buffer = inbox
  BY <1>2, <1>6, <1>8, SubSeqFull
<1>10. taken[c] + Len(buffer) = Len(sent[c])
  BY <1>1, <1>2, <1>9
<1>11. SubSeq(sent[c], taken[c] + Len(buffer) + 1, Len(sent[c])) = <<>>
  BY <1>1, <1>10, InboxIs
<1> QED BY <1>4, <1>9, <1>10, <1>11 DEF inbox

\* What a command adds to an empty inbox.
LEMMA SendFills ==
  ASSUME NEW s \in Seq(Word), NEW t \in Seq(Word)
  PROVE  SubSeq(s \o t, Len(s) + 1, Len(s \o t)) = t
<1>1. /\ Len(s) \in Nat /\ Len(t) \in Nat /\ s \o t \in Seq(Word)
      /\ Len(s \o t) = Len(s) + Len(t)
      /\ \A i \in 1 .. Len(s) + Len(t) :
             (s \o t)[i] = IF i <= Len(s) THEN s[i] ELSE t[i - Len(s)]
  BY ConcatProperties, LenProperties
<1> DEFINE part == SubSeq(s \o t, Len(s) + 1, Len(s \o t))
<1>2. /\ Len(s) + 1 \in 1 .. Len(s \o t) + 1
      /\ Len(s \o t) \in (Len(s) + 1) - 1 .. Len(s \o t)
      /\ Len(s \o t) - (Len(s) + 1) + 1 = Len(t)
      /\ \A i \in 1 .. Len(t) : (Len(s) + 1) + i - 1 = Len(s) + i
  BY <1>1
<1>3. /\ part \in Seq(Word) /\ Len(part) = Len(t)
      /\ \A i \in 1 .. Len(t) : part[i] = (s \o t)[Len(s) + i]
  <2>1. /\ part \in Seq(Word) /\ Len(part) = Len(s \o t) - (Len(s) + 1) + 1
        /\ \A i \in 1 .. Len(s \o t) - (Len(s) + 1) + 1 :
              part[i] = (s \o t)[(Len(s) + 1) + i - 1]
    BY <1>1, <1>2, PartOfSeq
  <2> HIDE DEF part
  <2> QED BY <2>1, <1>2
<1> HIDE DEF part
<1>4. \A i \in 1 .. Len(t) : (s \o t)[Len(s) + i] = t[i]
  <2> TAKE i \in 1 .. Len(t)
  <2>1. Len(s) + i \in 1 .. Len(s) + Len(t) /\ ~ Len(s) + i <= Len(s)
        /\ (Len(s) + i) - Len(s) = i
    BY <1>1
  <2> QED BY <2>1, <1>1
<1>5. part = t
  BY <1>3, <1>4, SeqEqual
<1> QED BY <1>5 DEF part

\* Nobody waits for anything at first.
LEMMA InitTurns == Init => Turns
<1> SUFFICES ASSUME Init PROVE Turns
  OBVIOUS
<1>1. \A c \in Conn : Inbox(c) = <<>>
  <2>1. SubSeq(<<>>, 0 + 1, Len(<<>>)) = <<>>
    BY SubSeqEmpty
  <2> QED BY <2>1 DEF Init, Inbox
<1> QED BY <1>1 DEF Init, Turns, Waiting

\* What a read of a patient client's text is taken apart into.
LEMMA ReadText ==
  ASSUME Patience, TypeOK, Turns, NEW c \in Conn, NEW buffer \in Reads(c)
  PROVE  \E cmd \in Command :
            /\ Inbox(c) = TextOf(cmd) /\ cmd.key \in Keys
            /\ Tokens(buffer).argument = <<cmd.key>>
            /\ \/ cmd.op = "get" /\ Tokens(buffer).command[1] = "get"
               \/ /\ cmd.op = "set" /\ Tokens(buffer).command[1] = "set"
                  /\ cmd.value \in Values /\ Tokens(buffer).value = <<cmd.value>>
<1>1. Inbox(c) \in Texts /\ buffer = Inbox(c)
  BY ReadWhole
<1>2. PICK cmd \in Command : Inbox(c) = TextOf(cmd)
  BY <1>1 DEF Texts
<1>3. \/ cmd.op = "get" /\ cmd.key \in Keys /\ buffer = GetText(cmd.key)
      \/ /\ cmd.op = "set" /\ cmd.key \in Keys /\ cmd.value \in Values
         /\ buffer = SetText(cmd.key, cmd.value)
  BY <1>1, <1>2, PatientText DEF Patience
<1>4. CASE cmd.op = "get" /\ cmd.key \in Keys /\ buffer = GetText(cmd.key)
  <2>1. Tokens(buffer).argument = <<cmd.key>> /\ Tokens(buffer).command[1] = "get"
    BY <1>4, GetTokens
  <2> QED BY <2>1, <1>2, <1>4
<1>5. CASE /\ cmd.op = "set" /\ cmd.key \in Keys /\ cmd.value \in Values
           /\ buffer = SetText(cmd.key, cmd.value)
  <2>1. /\ Tokens(buffer).argument = <<cmd.key>> /\ Tokens(buffer).command[1] = "set"
        /\ Tokens(buffer).value = <<cmd.value>>
    BY <1>5, SetTokens
  <2> QED BY <2>1, <1>2, <1>5
<1> QED BY <1>3, <1>4, <1>5

\* Where a read leaves the texts: the client's is empty, the others as they were.
LEMMA ReadEmpties ==
  ASSUME Patience, TypeOK, Turns, NEW c \in Conn, NEW buffer \in Reads(c),
         taken' = [taken EXCEPT ![c] = @ + Len(buffer)], sent' = sent
  PROVE  Inbox(c)' = <<>> /\ \A d \in Conn : d # c => Inbox(d)' = Inbox(d)
<1>1. taken'[c] = taken[c] + Len(buffer) /\ \A d \in Conn : d # c => taken'[d] = taken[d]
  BY DEF TypeOK
<1>2. SubSeq(sent[c], taken[c] + Len(buffer) + 1, Len(sent[c])) = <<>>
  BY ReadWhole
<1> QED BY <1>1, <1>2 DEF Inbox

\* A client that is read sent a whole command, and waits for it.
LEMMA ReadWaits ==
  ASSUME Patience, Inv, Turns, NEW c \in Conn, Reading(c), Reads(c) # {}
  PROVE  /\ conn[c] = "open" /\ outbox[c] = <<>> /\ Inbox(c) # <<>>
         /\ pc = "read" /\ pos \in 1 .. Len(clients) /\ clients[pos] = c
<1>1. TypeOK
  BY DEF Inv, ItemsFromOneClient
<1>2. PICK buffer \in Reads(c) : TRUE
  OBVIOUS
<1>3. Inbox(c) # <<>>
  <2>1. PICK cmd \in Command : Inbox(c) = TextOf(cmd) /\ cmd.key \in Keys
    BY <1>1, <1>2, ReadText
  <2>2. \/ \E k \in Keys : Inbox(c) = GetText(k)
        \/ \E k \in Keys, v \in Values : Inbox(c) = SetText(k, v)
    BY <2>1, PatientText DEF Patience
  <2>3. ASSUME NEW k PROVE GetText(k) # <<>>
    BY DEF GetText
  <2>4. ASSUME NEW k, NEW v PROVE SetText(k, v) # <<>>
    BY DEF SetText
  <2> QED BY <2>2, <2>3, <2>4
<1>4. conn[c] = "open" /\ outbox[c] = <<>>
  BY <1>3 DEF Turns, Waiting
<1> QED BY <1>1, <1>3, <1>4 DEF Reading, TypeOK

\* Reading a `get': the client's text is used up and the answer prepared.
LEMMA PatientGet ==
  ASSUME Patience, Inv, Turns, NEW c \in Conn, ReadGet(c)
  PROVE  \E cmd \in Command :
            /\ Inbox(c) = TextOf(cmd) /\ cmd.op = "get" /\ cmd.key \in Keys
            /\ Inbox(c)' = <<>> /\ \A d \in Conn : d # c => Inbox(d)' = Inbox(d)
            /\ response' = get(<<cmd.key>>) \o <<Newline>> /\ pc' = "response"
            /\ UNCHANGED <<conn, clients, pos, storage, outbox>>
            /\ Reading(c) /\ Reads(c) # {}
<1>1. TypeOK
  BY DEF Inv, ItemsFromOneClient
<1>2. PICK buffer \in Reads(c) :
         /\ Tokens(buffer).command[1] = "get"
         /\ taken' = [taken EXCEPT ![c] = @ + Len(buffer)]
         /\ response' = get(Tokens(buffer).argument) \o <<Newline>>
         /\ pc' = "response"
         /\ UNCHANGED <<conn, backlog, clients, pos, storage, sent, outbox>>
  BY DEF ReadGet
<1>3. PICK cmd \in Command :
            /\ Inbox(c) = TextOf(cmd) /\ cmd.key \in Keys
            /\ Tokens(buffer).argument = <<cmd.key>>
            /\ \/ cmd.op = "get" /\ Tokens(buffer).command[1] = "get"
               \/ /\ cmd.op = "set" /\ Tokens(buffer).command[1] = "set"
                  /\ cmd.value \in Values /\ Tokens(buffer).value = <<cmd.value>>
  BY <1>1, ReadText
<1>4. cmd.op = "get"
  BY <1>2, <1>3
<1>5. Inbox(c)' = <<>> /\ \A d \in Conn : d # c => Inbox(d)' = Inbox(d)
  BY <1>1, <1>2, ReadEmpties
<1>6. response' = get(<<cmd.key>>) \o <<Newline>>
  BY <1>2, <1>3
<1>7. Reading(c) /\ Reads(c) # {}
  BY DEF ReadGet
<1> QED BY <1>2, <1>3, <1>4, <1>5, <1>6, <1>7

\* Reading a `set': the client's text is used up and the value stored.
LEMMA PatientSet ==
  ASSUME Patience, Inv, Turns, NEW c \in Conn, ReadSet(c)
  PROVE  \E cmd \in Command :
            /\ Inbox(c) = TextOf(cmd) /\ cmd.op = "set"
            /\ cmd.key \in Keys /\ cmd.value \in Values
            /\ Inbox(c)' = <<>> /\ \A d \in Conn : d # c => Inbox(d)' = Inbox(d)
            /\ set(<<cmd.key>>, <<cmd.value>>)
            /\ pos' = pos + 1 /\ UNCHANGED <<conn, clients, pc, response, outbox>>
            /\ Reading(c) /\ Reads(c) # {}
<1>1. TypeOK
  BY DEF Inv, ItemsFromOneClient
<1>2. PICK buffer \in Reads(c) :
         /\ Tokens(buffer).command[1] = "set"
         /\ taken' = [taken EXCEPT ![c] = @ + Len(buffer)]
         /\ set(Tokens(buffer).argument, Tokens(buffer).value)
         /\ pos' = pos + 1
         /\ UNCHANGED <<conn, backlog, clients, pc, response, sent, outbox>>
  BY DEF ReadSet
<1>3. PICK cmd \in Command :
            /\ Inbox(c) = TextOf(cmd) /\ cmd.key \in Keys
            /\ Tokens(buffer).argument = <<cmd.key>>
            /\ \/ cmd.op = "get" /\ Tokens(buffer).command[1] = "get"
               \/ /\ cmd.op = "set" /\ Tokens(buffer).command[1] = "set"
                  /\ cmd.value \in Values /\ Tokens(buffer).value = <<cmd.value>>
  BY <1>1, ReadText
<1>4. cmd.op = "set" /\ cmd.value \in Values /\ Tokens(buffer).value = <<cmd.value>>
  BY <1>2, <1>3
<1>5. Inbox(c)' = <<>> /\ \A d \in Conn : d # c => Inbox(d)' = Inbox(d)
  BY <1>1, <1>2, ReadEmpties
<1>6. set(<<cmd.key>>, <<cmd.value>>)
  BY <1>2, <1>3, <1>4
<1>7. Reading(c) /\ Reads(c) # {}
  BY DEF ReadSet
<1> QED BY <1>2, <1>3, <1>4, <1>5, <1>6, <1>7

\* Nothing a patient client sends is forgotten.
LEMMA NoOther ==
  ASSUME Patience, Inv, Turns, NEW c \in Conn
  PROVE  ~ ReadOther(c)
<1> SUFFICES ASSUME ReadOther(c) PROVE FALSE
  OBVIOUS
<1>1. TypeOK
  BY DEF Inv, ItemsFromOneClient
<1>2. PICK buffer \in Reads(c) :
        Tokens(buffer).argument # NULL =>
              /\ Tokens(buffer).command[1] # "get"
              /\ Tokens(buffer).command[1] = "set" => Tokens(buffer).value = NULL
  BY DEF ReadOther
<1>3. PICK cmd \in Command :
            /\ Inbox(c) = TextOf(cmd) /\ cmd.key \in Keys
            /\ Tokens(buffer).argument = <<cmd.key>>
            /\ \/ cmd.op = "get" /\ Tokens(buffer).command[1] = "get"
               \/ /\ cmd.op = "set" /\ Tokens(buffer).command[1] = "set"
                  /\ cmd.value \in Values /\ Tokens(buffer).value = <<cmd.value>>
  BY <1>1, ReadText
<1>4. ASSUME NEW w PROVE <<w>> # NULL
  BY DEF NULL
<1> QED BY <1>2, <1>3, <1>4

\* What the texts and lines of patient clients are, whatever they hold.
LEMMA TextsNotEmpty ==
  ASSUME Patience
  PROVE  /\ <<>> \notin Texts /\ <<>> \notin Lines
         /\ \A cmd \in Command : TextOf(cmd) # <<>>
<1>1. ASSUME NEW cmd \in Command PROVE TextOf(cmd) # <<>>
  <2>1. ASSUME NEW k PROVE GetText(k) # <<>>
    BY DEF GetText
  <2>2. ASSUME NEW k, NEW v PROVE SetText(k, v) # <<>>
    BY DEF SetText
  <2> QED BY <2>1, <2>2, PatientText DEF Patience
<1>2. <<>> \notin Lines
  BY DEF Lines
<1> QED BY <1>1, <1>2 DEF Texts

\* A patient client sends one command after another is done with.
LEMMA PatientSend ==
  ASSUME Patience, TypeOK, NEW c \in Conn, Send(c)
  PROVE  \E cmd \in Command :
            /\ Inbox(c) = <<>> /\ outbox[c] = <<>> /\ conn[c] = "open"
            /\ ~ (pc = "response" /\ clients[pos] = c)
            /\ Inbox(c)' = TextOf(cmd) /\ \A d \in Conn : d # c => Inbox(d)' = Inbox(d)
            /\ UNCHANGED <<conn, clients, pos, pc, response, storage, outbox>>
<1>1. PICK cmd \in Command : sent' = [sent EXCEPT ![c] = @ \o TextOf(cmd)]
  BY DEF Send
<1>2. /\ Inbox(c) = <<>> /\ outbox[c] = <<>> /\ conn[c] = "open"
      /\ ~ (pc = "response" /\ clients[pos] = c)
      /\ UNCHANGED <<conn, clients, pos, pc, response, storage, taken, outbox>>
  BY DEF Send, Waiting, Patience
<1>3. sent[c] \in Seq(Word) /\ taken[c] \in Nat /\ taken[c] <= Len(sent[c])
  BY DEF TypeOK
<1>4. taken[c] = Len(sent[c])
  BY <1>2, <1>3, InboxIs DEF Inbox
<1>5. sent'[c] = sent[c] \o TextOf(cmd) /\ \A d \in Conn : d # c => sent'[d] = sent[d]
  BY <1>1 DEF TypeOK
<1>6. SubSeq(sent[c] \o TextOf(cmd), Len(sent[c]) + 1, Len(sent[c] \o TextOf(cmd)))
         = TextOf(cmd)
  BY <1>3, CommandText, SendFills
<1>7. Inbox(c)' = TextOf(cmd)
  BY <1>2, <1>4, <1>5, <1>6 DEF Inbox
<1>8. \A d \in Conn : d # c => Inbox(d)' = Inbox(d)
  BY <1>2, <1>5 DEF Inbox
<1> QED BY <1>2, <1>7, <1>8

\* Clients that wait for their turn leave every other in its turn.
LEMMA ClientTurns ==
  ASSUME Patience, Inv, Turns, NEW c \in Conn, Client(c)
  PROVE  Turns'
<1>0. TypeOK
  BY DEF Inv, ItemsFromOneClient
<1>1. CASE Connect(c)
  <2>1. /\ \A d \in Conn : Inbox(d)' = Inbox(d) /\ (conn[d] = "open" => conn'[d] = "open")
        /\ UNCHANGED <<clients, pos, pc, response, storage, outbox>>
    BY <1>0, <1>1 DEF Connect, Inbox, TypeOK
  <2>2. pc = "response" => clients[pos] \in Conn
    BY <1>0 DEF Inv, Cycle, TypeOK
  <2> QED BY <2>1, <2>2 DEF Turns, Waiting
<1>2. CASE Send(c)
  <2>1. PICK cmd \in Command :
            /\ Inbox(c) = <<>> /\ outbox[c] = <<>> /\ conn[c] = "open"
            /\ ~ (pc = "response" /\ clients[pos] = c)
            /\ Inbox(c)' = TextOf(cmd) /\ \A d \in Conn : d # c => Inbox(d)' = Inbox(d)
            /\ UNCHANGED <<conn, clients, pos, pc, response, storage, outbox>>
    BY <1>0, <1>2, PatientSend
  <2>2. TextOf(cmd) \in Texts
    BY DEF Texts
  <2>3. pc = "response" => clients[pos] \in Conn
    BY <1>0 DEF Inv, Cycle, TypeOK
  <2> QED BY <2>1, <2>2, <2>3 DEF Turns, Waiting
<1>3. CASE Receive(c)
  <2>1. /\ \A d \in Conn : Inbox(d)' = Inbox(d)
        /\ UNCHANGED <<conn, clients, pos, pc, response, storage>>
        /\ outbox'[c] = <<>> /\ \A d \in Conn : d # c => outbox'[d] = outbox[d]
    BY <1>0, <1>3 DEF Receive, Inbox, TypeOK
  <2>2. pc = "response" => clients[pos] \in Conn
    BY <1>0 DEF Inv, Cycle, TypeOK
  <2> QED BY <2>1, <2>2 DEF Turns, Waiting
<1>4. CASE Close(c)
  <2>1. /\ \A d \in Conn : Inbox(d)' = Inbox(d) /\ (d # c => conn'[d] = conn[d])
        /\ UNCHANGED <<clients, pos, pc, response, storage>>
        /\ outbox'[c] = <<>> /\ \A d \in Conn : d # c => outbox'[d] = outbox[d]
    BY <1>0, <1>4 DEF Close, Inbox, TypeOK
  <2>2. pc = "response" => clients[pos] \in Conn
    BY <1>0 DEF Inv, Cycle, TypeOK
  <2>3. ~ Waiting(c)
    BY <1>4 DEF Close, Patience
  <2> QED BY <2>1, <2>2, <2>3 DEF Turns, Waiting
<1> QED BY <1>1, <1>2, <1>3, <1>4 DEF Client

\* A word and a newline make a line of two.
LEMMA TwoWords ==
  ASSUME NEW v \in Word
  PROVE  /\ <<v>> \o <<Newline>> = <<v, Newline>>
         /\ <<v, Newline>> \in Seq(Word) /\ Len(<<v, Newline>>) = 2
         /\ SubSeq(<<v, Newline>>, 1, 1) = <<v>>
<1>1. /\ <<v>> \in Seq(Word) /\ Len(<<v>>) = 1 /\ <<v>>[1] = v
      /\ <<Newline>> \in Seq(Word) /\ Len(<<Newline>>) = 1 /\ <<Newline>>[1] = Newline
      /\ <<v, Newline>> \in Seq(Word) /\ Len(<<v, Newline>>) = 2
      /\ <<v, Newline>>[1] = v /\ <<v, Newline>>[2] = Newline
  BY DEF Word
<1> DEFINE s == <<v>>
           t == <<Newline>>
           both == <<v, Newline>>
<1>2. both \in Seq(Word) /\ Len(both) = 2 /\ both[1] = v /\ both[2] = Newline
  BY <1>1
<1>3. /\ s \o t \in Seq(Word) /\ Len(s \o t) = 2
      /\ (s \o t)[1] = v /\ (s \o t)[2] = Newline
  <2>1. /\ s \in Seq(Word) /\ Len(s) = 1 /\ s[1] = v
        /\ t \in Seq(Word) /\ Len(t) = 1 /\ t[1] = Newline
    BY <1>1
  <2> HIDE DEF s, t
  <2>2. /\ s \o t \in Seq(Word) /\ Len(s \o t) = Len(s) + Len(t)
        /\ \A i \in 1 .. Len(s) + Len(t) :
              (s \o t)[i] = IF i <= Len(s) THEN s[i] ELSE t[i - Len(s)]
    BY <2>1, ConcatProperties
  <2> QED BY <2>1, <2>2
<1>4. s \o t = both
  <2> HIDE DEF s, t, both
  <2>1. Len(s \o t) = Len(both)
    BY <1>2, <1>3
  <2>2. \A i \in 1 .. Len(s \o t) : (s \o t)[i] = both[i]
    <3> TAKE i \in 1 .. Len(s \o t)
    <3>1. i = 1 \/ i = 2
      BY <1>3
    <3> QED BY <3>1, <1>2, <1>3
  <2> QED BY <1>2, <1>3, <2>1, <2>2, SeqEqual
<1>5. SubSeq(both, 1, 1) = <<v>>
  <2> HIDE DEF both
  <2>1. 1 \in 1 .. Len(both)
    BY <1>2
  <2> QED BY <2>1, <1>2, OneWord
<1> QED BY <1>1, <1>4, <1>5

\* A newline alone is a line too.
LEMMA NoWord ==
  /\ <<>> \o <<Newline>> = <<Newline>>
  /\ <<Newline>> \in Seq(Word) /\ Len(<<Newline>>) = 1
  /\ SubSeq(<<Newline>>, 1, 0) = <<>>
<1>1. <<Newline>> \in Seq(Word) /\ Len(<<Newline>>) = 1
  BY DEF Word
<1> QED BY <1>1, ConcatEmptySeq, SubSeqEmpty

\* A value that was found and a newline make a line, and the line tells it.
LEMMA LineOf ==
  ASSUME Patience, NEW text \in {<<>>} \cup {<<v>> : v \in Values}
  PROVE  /\ text \o <<Newline>> \in Lines
         /\ AnswerIn(text \o <<Newline>>) = ValueOf(text)
         /\ ValueOf(text) # <<"no reply">>
<1>1. CASE text = <<>>
  <2>1. AnswerIn(<<Newline>>) = ValueOf(SubSeq(<<Newline>>, 1, 0))
    BY NoWord DEF AnswerIn
  <2>2. ValueOf(<<>>) # <<"no reply">>
    BY DEF ValueOf
  <2> QED BY <1>1, <2>1, <2>2, NoWord DEF Lines
<1>2. ASSUME NEW v \in Values, text = <<v>>
      PROVE  /\ text \o <<Newline>> \in Lines
             /\ AnswerIn(text \o <<Newline>>) = ValueOf(text)
             /\ ValueOf(text) # <<"no reply">>
  <2>0. v \in Word
    BY DEF Word
  <2>1. AnswerIn(<<v, Newline>>) = ValueOf(SubSeq(<<v, Newline>>, 1, 1))
    BY <2>0, TwoWords DEF AnswerIn
  <2>2. ValueOf(<<v>>) # <<"no reply">>
    <3>1. v # "no reply"
      BY DEF Patience
    <3>2. <<v>> # <<>> /\ <<v>> # <<"no reply">>
      BY <3>1
    <3> QED BY <3>2 DEF ValueOf
  <2> QED BY <1>2, <2>0, <2>1, <2>2, TwoWords DEF Lines
<1> QED BY <1>1, <1>2

\* And every line is made so.
LEMMA LineIs ==
  ASSUME Patience, NEW line \in Lines
  PROVE  /\ AnswerIn(line) # <<"no reply">>
         /\ line \in Seq(Word) /\ Len(line) \in 1 .. OutSize
<1>0. OutSize \in Nat /\ OutSize >= 2
  BY KvServerAssumption DEF Patience
<1>1. CASE line = <<Newline>>
  <2>1. AnswerIn(<<>> \o <<Newline>>) # <<"no reply">>
    BY LineOf
  <2>2. line \in Seq(Word) /\ Len(line) = 1 /\ line = <<>> \o <<Newline>>
    BY <1>1, NoWord
  <2>3. 1 \in 1 .. OutSize
    BY <1>0
  <2> QED BY <2>1, <2>2, <2>3
<1>2. ASSUME NEW v \in Values, line = <<v, Newline>>
      PROVE  /\ AnswerIn(line) # <<"no reply">>
             /\ line \in Seq(Word) /\ Len(line) \in 1 .. OutSize
  <2>0. v \in Word
    BY DEF Word
  <2>1. AnswerIn(<<v>> \o <<Newline>>) # <<"no reply">>
    BY LineOf
  <2>2. line \in Seq(Word) /\ Len(line) = 2 /\ line = <<v>> \o <<Newline>>
    BY <1>2, <2>0, TwoWords
  <2>3. 2 \in 1 .. OutSize
    BY <1>0
  <2> QED BY <2>1, <2>2, <2>3
<1> QED BY <1>1, <1>2 DEF Lines

\* What get finds where clients take turns.
LEMMA GetValue ==
  ASSUME Turns, NEW key
  PROVE  get(key) \in {<<>>} \cup {<<v>> : v \in Values}
<1>1. find(key) \in 0 .. Len(storage)
  BY FindFinds
<1>2. find(key) # 0 => find(key) \in 1 .. Len(storage)
  <2>1. Len(storage) \in Nat \/ 0 .. Len(storage) = {}
    BY <1>1
  <2> QED BY <1>1
<1> QED BY <1>2 DEF get, Turns

\* A patient client is answered at once and its answer fits.
LEMMA PatientRespond ==
  ASSUME Patience, Inv, Turns, NEW c \in Conn, Responding(c)
  PROVE  /\ conn[c] = "open" /\ outbox[c] = <<>> /\ Inbox(c) = <<>> /\ response \in Lines
         /\ SubSeq(outbox[c] \o response, 1,
                   Min({OutSize, Len(outbox[c]) + Len(response)})) = response
<1>1. /\ pc = "response" /\ clients[pos] = c
      /\ conn[c] = "open" /\ outbox[c] = <<>> /\ Inbox(c) = <<>> /\ response \in Lines
  BY DEF Responding, Turns, Waiting
<1>2. response \in Seq(Word) /\ Len(response) \in 1 .. OutSize /\ OutSize \in Nat
  BY <1>1, LineIs, KvServerAssumption
<1>3. <<>> \o response = response /\ Len(<<>>) + Len(response) = Len(response)
  BY <1>2, ConcatEmptySeq
<1>4. Min({OutSize, Len(response)}) = Len(response)
  <2>1. {OutSize, Len(response)} \in SUBSET Nat
        /\ \A y \in {OutSize, Len(response)} : Len(response) <= y
    BY <1>2
  <2> QED BY <2>1, MinIs
<1>5. SubSeq(response, 1, Len(response)) = response
  BY <1>2, SubSeqFull
<1> QED BY <1>1, <1>3, <1>4, <1>5

\* The server leaves every client in its turn.
LEMMA ServerTurns ==
  ASSUME Patience, Inv, Turns, Server
  PROVE  Turns'
<1>0. TypeOK /\ (pc = "response" => clients[pos] \in Conn)
  BY SMTT(30) DEF Inv, ItemsFromOneClient, Cycle, TypeOK
<1>1. CASE /\ Accept \/ AcceptNobody \/ AcceptFails \/ ScanEnds
           \/ \E c \in Conn : ReadNothing(c) \/ ReadFails(c)
  <2>1. /\ \A d \in Conn : Inbox(d)' = Inbox(d)
        /\ UNCHANGED <<conn, storage, outbox>> /\ pc' # "response"
    BY <1>1 DEF Accept, AcceptNobody, AcceptFails, ScanEnds, ReadNothing, ReadFails,
                Reading, Inbox, network
  <2> QED BY <2>1 DEF Turns, Waiting
<1>2. ASSUME NEW c \in Conn, ReadGet(c) PROVE Turns'
  <2>1. PICK cmd \in Command :
            /\ Inbox(c) = TextOf(cmd) /\ cmd.op = "get" /\ cmd.key \in Keys
            /\ Inbox(c)' = <<>> /\ \A d \in Conn : d # c => Inbox(d)' = Inbox(d)
            /\ response' = get(<<cmd.key>>) \o <<Newline>> /\ pc' = "response"
            /\ UNCHANGED <<conn, clients, pos, storage, outbox>>
            /\ Reading(c) /\ Reads(c) # {}
    BY <1>2, PatientGet
  <2>2. conn[c] = "open" /\ outbox[c] = <<>> /\ clients[pos] = c
    BY <2>1, ReadWaits
  <2>3. get(<<cmd.key>>) \in {<<>>} \cup {<<v>> : v \in Values}
    BY GetValue
  <2>4. response' \in Lines
    BY <2>1, <2>3, LineOf
  <2> QED BY <2>1, <2>2, <2>4 DEF Turns, Waiting
<1>3. ASSUME NEW c \in Conn, ReadSet(c) PROVE Turns'
  <2>1. PICK cmd \in Command :
            /\ Inbox(c) = TextOf(cmd) /\ cmd.op = "set"
            /\ cmd.key \in Keys /\ cmd.value \in Values
            /\ Inbox(c)' = <<>> /\ \A d \in Conn : d # c => Inbox(d)' = Inbox(d)
            /\ set(<<cmd.key>>, <<cmd.value>>)
            /\ pos' = pos + 1 /\ UNCHANGED <<conn, clients, pc, response, outbox>>
            /\ Reading(c) /\ Reads(c) # {}
    BY <1>3, PatientSet
  <2>2. pc = "read" /\ pc' = "read"
    BY <2>1 DEF Reading
  <2>3. /\ storage \in Seq(Item) /\ <<cmd.key>> \in Seq(Word) /\ <<cmd.value>> \in Seq(Word)
    BY <1>0, <2>1 DEF TypeOK, Item, Word
  <2>4. \A i \in 1 .. Len(storage') :
               \/ storage'[i].key = <<cmd.key>> /\ storage'[i].value = <<cmd.value>>
               \/ \E j \in 1 .. Len(storage) : storage'[i] = storage[j]
    BY <2>1, <2>3, SetSets
  <2>5. \A i \in 1 .. Len(storage') : storage'[i].value \in {<<v>> : v \in Values}
    <3> TAKE i \in 1 .. Len(storage')
    <3>1. CASE storage'[i].value = <<cmd.value>>
      BY <3>1, <2>1
    <3>2. CASE \E j \in 1 .. Len(storage) : storage'[i] = storage[j]
      BY <3>2 DEF Turns
    <3> QED BY <3>1, <3>2, <2>4
  <2> QED BY <2>1, <2>2, <2>5 DEF Turns, Waiting
<1>4. ASSUME NEW c \in Conn, Respond(c) \/ RespondToClosed(c) \/ RespondKills(c)
      PROVE  Turns'
  <2>1. Responding(c)
    BY <1>4 DEF Respond, RespondToClosed, RespondKills
  <2>2. /\ conn[c] = "open" /\ outbox[c] = <<>> /\ Inbox(c) = <<>> /\ response \in Lines
        /\ SubSeq(outbox[c] \o response, 1,
                   Min({OutSize, Len(outbox[c]) + Len(response)})) = response
    BY <2>1, PatientRespond
  <2>3. Respond(c)
    BY <1>4, <2>2 DEF RespondToClosed, RespondKills, Dead
  <2>4. /\ outbox'[c] = response /\ \A d \in Conn : d # c => outbox'[d] = outbox[d]
        /\ \A d \in Conn : Inbox(d)' = Inbox(d)
        /\ pc' = "read" /\ UNCHANGED <<conn, storage>>
    BY <1>0, <2>2, <2>3 DEF Respond, Inbox, TypeOK
  <2> QED BY <2>2, <2>4 DEF Turns, Waiting
<1> QED BY <1>1, <1>2, <1>3, <1>4, NoOther DEF Server

----------------------------------------------------------------------------
(* The server of patient clients is a map with atomic commands *)

\* What a command that has not been read asks of the map.
LEMMA RequestIs ==
  ASSUME Patience, NEW cmd \in Command
  PROVE  LET request == RequestIn(TextOf(cmd))
         IN  /\ request \in Map!Command
             /\ request.op = cmd.op /\ request.key = cmd.key
             /\ cmd.op = "set" => request.value = <<cmd.value>>
<1>1. RequestIn(TextOf(cmd)) = IF cmd.op = "get" THEN cmd ELSE [cmd EXCEPT !.value = <<@>>]
  BY TextsNotEmpty, CommandOfText DEF RequestIn, Patience
<1>2. CASE cmd.op = "get" /\ cmd.key \in Keys /\ cmd = [op |-> "get", key |-> cmd.key]
  <2>1. RequestIn(TextOf(cmd)) = cmd
    BY <1>1, <1>2
  <2>2. cmd \in [op : {"get"}, key : Keys]
    BY <1>2
  <2> QED BY <2>1, <2>2, <1>2 DEF Map!Command
<1>3. CASE /\ cmd.op = "set" /\ cmd.key \in Keys /\ cmd.value \in Values
           /\ cmd = [op |-> "set", key |-> cmd.key, value |-> cmd.value]
  <2>1. RequestIn(TextOf(cmd)) = [op |-> "set", key |-> cmd.key, value |-> <<cmd.value>>]
    BY <1>1, <1>3
  <2> QED BY <2>1, <1>3 DEF Map!Command
<1> QED BY <1>2, <1>3, PatientText DEF Patience

\* The map is the same while the storage is.
LEMMA MapStays == ASSUME storage' = storage
                  PROVE  \A k \in Keys : get(<<k>>)' = get(<<k>>)
  BY GetLooksUp

Requests == [c \in Conn |-> RequestIn(Inbox(c))]
Answers  == [c \in Conn |-> AnswerOf(c)]
Contents == [k \in Keys |-> ValueOf(get(<<k>>))]

\* Nobody has asked and nothing is stored at first.
LEMMA InitIsMap == Init => Map!AInit
<1> SUFFICES ASSUME Init PROVE Map!AInit
  OBVIOUS
<1>1. \A c \in Conn : Inbox(c) = <<>>
  <2>1. SubSeq(<<>>, 0 + 1, Len(<<>>)) = <<>>
    BY SubSeqEmpty
  <2> QED BY <2>1 DEF Init, Inbox
<1>2. \A c \in Conn : RequestIn(Inbox(c)) = [op |-> "none"]
  BY <1>1 DEF RequestIn
<1>3. \A c \in Conn : AnswerOf(c) = <<"no reply">>
  BY DEF AnswerOf, Init
<1>4. ASSUME NEW key PROVE get(key) = <<>>
  <2>1. find(key) \in 0 .. Len(storage) /\ Len(storage) = 0
    BY FindFinds DEF Init
  <2> QED BY <2>1 DEF get
<1>5. \A k \in Keys : ValueOf(get(<<k>>)) = <<"no value">>
  BY <1>4 DEF ValueOf
<1> QED BY <1>2, <1>3, <1>5 DEF Map!AInit, Map!NoValue, Map!NoRequest, Map!NoReply

\* A command sent is a command asked.
LEMMA SendIsAsk ==
  ASSUME Patience, Inv, Turns, NEW c \in Conn, Send(c)
  PROVE  Map!Ask(c)
<1>1. PICK cmd \in Command :
            /\ Inbox(c) = <<>> /\ outbox[c] = <<>> /\ conn[c] = "open"
            /\ ~ (pc = "response" /\ clients[pos] = c)
            /\ Inbox(c)' = TextOf(cmd) /\ \A d \in Conn : d # c => Inbox(d)' = Inbox(d)
            /\ UNCHANGED <<conn, clients, pos, pc, response, storage, outbox>>
  BY PatientSend DEF Inv, ItemsFromOneClient
<1> DEFINE request == RequestIn(TextOf(cmd))
<1>2. request \in Map!Command
  BY RequestIs
<1>3. Requests[c] = Map!NoRequest /\ Answers[c] = Map!NoReply
  BY <1>1 DEF Requests, Answers, RequestIn, AnswerOf, Map!NoRequest, Map!NoReply
<1>4. Requests' = [Requests EXCEPT ![c] = request]
  <2>1. RequestIn(Inbox(c))' = request
    BY <1>1 DEF RequestIn
  <2>2. \A d \in Conn : d # c => RequestIn(Inbox(d))' = RequestIn(Inbox(d))
    BY <1>1 DEF RequestIn
  <2> HIDE DEF request
  <2> QED BY <2>1, <2>2 DEF Requests
<1>5. Answers' = Answers
  BY <1>1 DEF Answers, AnswerOf, AnswerIn, ValueOf
<1>6. Contents' = Contents
  BY <1>1, MapStays DEF Contents, ValueOf
<1> HIDE DEF request
<1> QED BY <1>2, <1>3, <1>4, <1>5, <1>6 DEF Map!Ask, Requests, Answers, Contents

\* A `get' that is read is executed: its answer is the value of the key.
LEMMA ReadIsGet ==
  ASSUME Patience, Inv, Turns, NEW c \in Conn, ReadGet(c)
  PROVE  Map!DoGet(c)
<1>1. PICK cmd \in Command :
            /\ Inbox(c) = TextOf(cmd) /\ cmd.op = "get" /\ cmd.key \in Keys
            /\ Inbox(c)' = <<>> /\ \A d \in Conn : d # c => Inbox(d)' = Inbox(d)
            /\ response' = get(<<cmd.key>>) \o <<Newline>> /\ pc' = "response"
            /\ UNCHANGED <<conn, clients, pos, storage, outbox>>
            /\ Reading(c) /\ Reads(c) # {}
  BY PatientGet
<1>2. pc = "read" /\ clients[pos] = c
  BY <1>1, ReadWaits
<1> DEFINE value == ValueOf(get(<<cmd.key>>))
<1>3. Requests[c].op = "get" /\ Requests[c].key = cmd.key
  BY <1>1, RequestIs DEF Requests
<1>4. Contents[cmd.key] = value
  BY <1>1 DEF Contents
<1>5. Requests' = [Requests EXCEPT ![c] = Map!NoRequest]
  BY <1>1 DEF Requests, RequestIn, Map!NoRequest
<1>6. Answers' = [Answers EXCEPT ![c] = value]
  <2>1. AnswerIn(get(<<cmd.key>>) \o <<Newline>>) = value
    BY GetValue, LineOf
  <2>2. AnswerOf(c)' = value
    BY <1>1, <1>2, <2>1 DEF AnswerOf, AnswerIn, ValueOf
  <2>3. \A d \in Conn : d # c => AnswerOf(d)' = AnswerOf(d)
    BY <1>1, <1>2 DEF AnswerOf, AnswerIn, ValueOf
  <2> HIDE DEF value
  <2> QED BY <2>2, <2>3 DEF Answers
<1>7. Contents' = Contents
  BY <1>1, MapStays DEF Contents, ValueOf
<1> HIDE DEF value
<1> QED BY <1>3, <1>4, <1>5, <1>6, <1>7 DEF Map!DoGet, Requests, Answers, Contents

\* A `set' that is read is executed: it changes one key, to the value sent.
LEMMA ReadIsSet ==
  ASSUME Patience, Inv, Turns, NEW c \in Conn, ReadSet(c)
  PROVE  Map!DoSet(c)
<1>1. PICK cmd \in Command :
            /\ Inbox(c) = TextOf(cmd) /\ cmd.op = "set"
            /\ cmd.key \in Keys /\ cmd.value \in Values
            /\ Inbox(c)' = <<>> /\ \A d \in Conn : d # c => Inbox(d)' = Inbox(d)
            /\ set(<<cmd.key>>, <<cmd.value>>)
            /\ pos' = pos + 1 /\ UNCHANGED <<conn, clients, pc, response, outbox>>
            /\ Reading(c) /\ Reads(c) # {}
  BY PatientSet
<1>2. Requests[c].op = "set" /\ Requests[c].key = cmd.key /\ Requests[c].value = <<cmd.value>>
  BY <1>1, RequestIs DEF Requests
<1>3. Requests' = [Requests EXCEPT ![c] = Map!NoRequest]
  BY <1>1 DEF Requests, RequestIn, Map!NoRequest
<1>4. Answers' = Answers
  <2>1. pc = "read"
    BY <1>1 DEF Reading
  <2> QED BY <1>1, <2>1 DEF Answers, AnswerOf, AnswerIn, ValueOf
<1>5. /\ Lookup(storage', <<cmd.key>>) = <<cmd.value>>
      /\ \A other \in Seq(Word) : other # <<cmd.key>> =>
            Lookup(storage', other) = Lookup(storage, other)
  <2>1. /\ storage \in Seq(Item) /\ KeysDiffer(storage)
        /\ <<cmd.key>> \in Seq(Word) /\ <<cmd.value>> \in Seq(Word)
    <3>1. storage \in Seq(Item) /\ DOMAIN storage = 1 .. Len(storage)
      BY LenProperties DEF Inv, ItemsFromOneClient, TypeOK, Item
    <3> QED BY <3>1, <1>1, SMTT(30) DEF Inv, ItemsFromOneClient, KeysDiffer, Word
  <2> QED BY <2>1, <1>1, SetThenGet
<1>6. get(<<cmd.key>>)' = <<cmd.value>>
  BY <1>5, GetLooksUp
<1>7. \A k \in Keys : k # cmd.key => get(<<k>>)' = get(<<k>>)
  <2> TAKE k \in Keys
  <2> SUFFICES ASSUME k # cmd.key PROVE get(<<k>>)' = get(<<k>>)
    OBVIOUS
  <2>1. <<k>> \in Seq(Word) /\ <<k>> # <<cmd.key>>
    BY DEF Word
  <2>2. Lookup(storage', <<k>>) = Lookup(storage, <<k>>)
    BY <2>1, <1>5
  <2> QED BY <2>2, GetLooksUp
<1>8. Contents' = [Contents EXCEPT ![cmd.key] = <<cmd.value>>]
  <2>1. ValueOf(get(<<cmd.key>>))' = <<cmd.value>>
    <3>1. ASSUME NEW v PROVE <<v>> # <<>>
      OBVIOUS
    <3> QED BY <3>1, <1>6 DEF ValueOf
  <2>2. \A k \in Keys : k # cmd.key => ValueOf(get(<<k>>))' = ValueOf(get(<<k>>))
    BY <1>7 DEF ValueOf
  <2> QED BY <2>1, <2>2 DEF Contents
<1> QED BY <1>2, <1>3, <1>4, <1>8 DEF Map!DoSet, Requests, Answers, Contents

\* A client that reads its answer takes it.
LEMMA ReceiveIsReceive ==
  ASSUME Patience, Inv, Turns, NEW c \in Conn, Receive(c)
  PROVE  Map!Receive(c)
<1>1. /\ outbox[c] # <<>> /\ outbox'[c] = <<>>
      /\ \A d \in Conn : d # c => outbox'[d] = outbox[d]
      /\ UNCHANGED <<conn, clients, pos, pc, response, storage, sent, taken>>
  BY DEF Receive, Inv, ItemsFromOneClient, TypeOK
<1>2. outbox[c] \in Lines /\ ~ (pc = "response" /\ clients[pos] = c)
  BY <1>1 DEF Turns
<1>3. Answers[c] # Map!NoReply
  BY <1>1, <1>2, LineIs DEF Answers, AnswerOf, Map!NoReply
<1>4. Answers' = [Answers EXCEPT ![c] = Map!NoReply]
  BY <1>1, <1>2 DEF Answers, AnswerOf, AnswerIn, ValueOf, Map!NoReply
<1>5. Requests' = Requests
  BY <1>1 DEF Requests, RequestIn, Inbox
<1>6. Contents' = Contents
  BY <1>1, MapStays DEF Contents, ValueOf
<1> QED BY <1>3, <1>4, <1>5, <1>6 DEF Map!Receive, Requests, Answers, Contents

\* Nobody sees a client connect or close, the server accept and look around,
\* or an answer on its way.
LEMMA Unseen ==
  ASSUME Patience, Inv, Turns,
         \/ Accept \/ AcceptNobody \/ AcceptFails \/ ScanEnds \/ UNCHANGED vars
         \/ \E c \in Conn : \/ ReadNothing(c) \/ ReadFails(c) \/ Connect(c) \/ Close(c)
                            \/ Respond(c) \/ RespondToClosed(c) \/ RespondKills(c)
  PROVE  UNCHANGED Map!avars
<1>0. TypeOK
  BY DEF Inv, ItemsFromOneClient
<1>1. UNCHANGED <<storage, sent, taken>>
  BY DEF Accept, AcceptNobody, AcceptFails, ScanEnds, ReadNothing, ReadFails, Connect,
         Close, Respond, RespondToClosed, RespondKills, network, vars
<1>2. Requests' = Requests
  BY <1>1 DEF Requests, RequestIn, Inbox
<1>3. Contents' = Contents
  BY <1>1, MapStays DEF Contents, ValueOf
<1>4. Answers' = Answers
  <2>1. CASE Accept \/ AcceptNobody \/ AcceptFails \/ ScanEnds
    <3>1. pc # "response" /\ pc' # "response" /\ outbox' = outbox
      BY <2>1 DEF Accept, AcceptNobody, AcceptFails, ScanEnds, network
    <3> QED BY <3>1 DEF Answers, AnswerOf, AnswerIn, ValueOf
  <2>2. CASE UNCHANGED vars
    BY <2>2 DEF vars, Answers, AnswerOf, AnswerIn, ValueOf
  <2>3. ASSUME NEW c \in Conn, ReadNothing(c) \/ ReadFails(c) PROVE Answers' = Answers
    <3>1. pc # "response" /\ pc' # "response" /\ outbox' = outbox
      BY <2>3 DEF ReadNothing, ReadFails, Reading, network
    <3> QED BY <3>1 DEF Answers, AnswerOf, AnswerIn, ValueOf
  <2>4. ASSUME NEW c \in Conn, Connect(c) PROVE Answers' = Answers
    BY <2>4 DEF Connect, Answers, AnswerOf, AnswerIn, ValueOf
  <2>5. ASSUME NEW c \in Conn, Close(c) PROVE Answers' = Answers
    <3>1. outbox[c] = <<>>
      BY <2>5 DEF Close, Patience, Waiting
    <3>2. /\ UNCHANGED <<clients, pos, pc, response>>
          /\ \A d \in Conn : outbox'[d] = outbox[d]
      BY <3>1, <2>5, <1>0 DEF Close, TypeOK
    <3> QED BY <3>2 DEF Answers, AnswerOf, AnswerIn, ValueOf
  <2>6. ASSUME NEW c \in Conn, Respond(c) \/ RespondToClosed(c) \/ RespondKills(c)
        PROVE  Answers' = Answers
    <3>1. Responding(c)
      BY <2>6 DEF Respond, RespondToClosed, RespondKills
    <3>2. /\ conn[c] = "open" /\ outbox[c] = <<>> /\ response \in Lines
          /\ SubSeq(outbox[c] \o response, 1,
                    Min({OutSize, Len(outbox[c]) + Len(response)})) = response
      BY <3>1, PatientRespond
    <3>3. Respond(c)
      BY <2>6, <3>2 DEF RespondToClosed, RespondKills, Dead
    <3>4. outbox'[c] = response /\ \A d \in Conn : d # c => outbox'[d] = outbox[d]
      BY <1>0, <3>2, <3>3 DEF Respond, TypeOK
    <3>5. pc = "response" /\ clients[pos] = c /\ pc' = "read"
      BY <3>1, <3>3 DEF Respond, Responding
    <3>6. response # <<>>
      BY <3>2, TextsNotEmpty
    <3>7. AnswerOf(c)' = AnswerOf(c)
      BY <3>4, <3>5, <3>6 DEF AnswerOf, AnswerIn, ValueOf
    <3>8. \A d \in Conn : d # c => AnswerOf(d)' = AnswerOf(d)
      BY <3>4, <3>5 DEF AnswerOf, AnswerIn, ValueOf
    <3> QED BY <3>7, <3>8 DEF Answers
  <2> QED BY <2>1, <2>2, <2>3, <2>4, <2>5, <2>6
<1> QED BY <1>2, <1>3, <1>4 DEF Map!avars, Requests, Answers, Contents

\* Every step of the server and its clients is one of the map, or unseen.
LEMMA StepIsMap ==
  ASSUME Patience, Inv, Turns, [Next]_vars
  PROVE  [Map!ANext]_(Map!avars)
<1> USE DEF Map!ANext
<1>1. ASSUME NEW c \in Conn, Send(c) \/ ReadGet(c) \/ ReadSet(c) \/ Receive(c)
      PROVE  Map!ANext
  BY <1>1, SendIsAsk, ReadIsGet, ReadIsSet, ReceiveIsReceive
<1>2. ASSUME NEW c \in Conn PROVE ~ ReadOther(c)
  BY NoOther
<1> HIDE DEF Map!ANext
<1> QED BY <1>1, <1>2, Unseen DEF Next, Server, Client

\* Clients that wait their turn see a map with atomic commands (README.md:7-8):
\* the server implements AbstractKv, in whatever order it reads its clients.
\* What the theorem takes as given is how test.py behaves, and buffers that
\* hold one command and one answer.
THEOREM MapIsAtomic == Patience => (Spec => AtomicMap)
<1> SUFFICES ASSUME Patience PROVE Spec => AtomicMap
  OBVIOUS
<1>1. Turns /\ Inv /\ [Next]_vars => Turns'
  <2>1. Turns /\ UNCHANGED vars => Turns'
    BY DEF Turns, vars, Waiting, Inbox
  <2> QED BY <2>1, ClientTurns, ServerTurns DEF Next
<1>2. Spec => []Turns
  BY <1>1, InitTurns, KvInvariant, PTL DEF Spec
<1>3. Inv /\ Turns /\ [Next]_vars => [Map!ANext]_(Map!avars)
  BY StepIsMap
<1> QED BY <1>2, <1>3, InitIsMap, KvInvariant, PTL DEF Spec, AtomicMap, Map!ASpec
=============================================================================
