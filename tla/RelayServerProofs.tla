-------------------------- MODULE RelayServerProofs -------------------------
(***************************************************************************)
(* Theorems about RelayServer, for every list of tags, whatever is in it,  *)
(* and every way a file is cut.                                            *)
(***************************************************************************)
EXTENDS RelayServer, FiniteSetTheorems, SequenceTheorems, WellFoundedInduction, TLAPS

-----------------------------------------------------------------------------
(* Sections.                                                               *)

LEMMA Sizes ==
  /\ N \in Nat \ {0} /\ LastAnalog \in Nat /\ LastBool \in Nat
  /\ 1 <= LastAnalog /\ LastAnalog < LastBool /\ LastBool <= N
  /\ MaxVersion \in Nat /\ TagStamp \in Nat /\ WarnSlots \in Nat
  /\ PrintCap \in Nat /\ PrintCap >= 2
BY RelayAssumption

LEMMA SectionEndIs ==
  ASSUME NEW i \in Positions
  PROVE  SectionEnd[i] = IF i <= LastAnalog THEN LastAnalog
                         ELSE IF i <= LastBool THEN LastBool ELSE N
<1> DEFINE f == [k \in Positions |-> IF k <= LastAnalog THEN LastAnalog
                                       ELSE IF k <= LastBool THEN LastBool ELSE N]
<1>1. SectionEnd = f BY RelayAssumption
<1>2. f[i] = IF i <= LastAnalog THEN LastAnalog
             ELSE IF i <= LastBool THEN LastBool ELSE N
  OBVIOUS
<1> QED BY <1>1, <1>2

-----------------------------------------------------------------------------
(* The text of a list, token for token.                                    *)

EntryFor(list, s, p) == Token("entry", list[p], SectionNames[s], p)
Keys == {Token("key", <<SectionNames[s]>>, "", 0) : s \in 1..3}
          \cup {Token("key", StampName, "", 0)}
Entries(list, s) == {EntryFor(list, s, p) : p \in Positions}
Tokens(list) ==
  {Brace("open"), Brace("close")} \cup Keys
    \cup Entries(list, 1) \cup Entries(list, 2) \cup Entries(list, 3)

LEMMA Names ==
  /\ SectionNames[1] = "analogs" /\ SectionNames[2] = "bools" /\ SectionNames[3] = "words"
  /\ SectionEnds[1] = LastAnalog /\ SectionEnds[2] = LastBool /\ SectionEnds[3] = N
BY DEF SectionNames, SectionEnds

LEMMA OneToken ==
  ASSUME NEW T, NEW a \in T
  PROVE  <<a>> \in Seq(T) /\ Len(<<a>>) = 1 /\ <<a>>[1] = a
  OBVIOUS

LEMMA TwoTokens ==
  ASSUME NEW T, NEW a \in T, NEW b \in T
  PROVE  <<a, b>> \in Seq(T) /\ Len(<<a, b>>) = 2 /\ <<a, b>>[1] = a /\ <<a, b>>[2] = b
  OBVIOUS

\* One sequence after another.
LEMMA Concat ==
  ASSUME NEW T, NEW s, NEW u, s \in Seq(T), u \in Seq(T)
  PROVE  /\ s \o u \in Seq(T) /\ Len(s \o u) = Len(s) + Len(u)
         /\ \A i \in 1..Len(s) : (s \o u)[i] = s[i]
         /\ \A i \in 1..Len(u) : (s \o u)[Len(s) + i] = u[i]
<1>1. /\ s \o u \in Seq(T) /\ Len(s \o u) = Len(s) + Len(u)
      /\ \A i \in 1..(Len(s) + Len(u)) : (s \o u)[i] = IF i <= Len(s) THEN s[i] ELSE u[i - Len(s)]
  BY ConcatProperties
<1>0. Len(s) \in Nat /\ Len(u) \in Nat BY LenProperties
<1>2. \A i \in 1..Len(s) : (s \o u)[i] = s[i] BY <1>0, <1>1
<1>3. ASSUME NEW i \in 1..Len(u) PROVE (s \o u)[Len(s) + i] = u[i]
  <2>1. Len(s) + i \in 1..(Len(s) + Len(u)) /\ ~(Len(s) + i <= Len(s))
        /\ (Len(s) + i) - Len(s) = i
    BY <1>0
  <2> QED BY <1>1, <2>1
<1> QED BY <1>1, <1>2, <1>3

\* Three sequences one after another.
LEMMA ConcatThree ==
  ASSUME NEW T, NEW h, NEW b, NEW t, h \in Seq(T), b \in Seq(T), t \in Seq(T)
  PROVE  /\ h \o b \o t \in Seq(T) /\ Len(h \o b \o t) = Len(h) + Len(b) + Len(t)
         /\ \A i \in 1..Len(h) : (h \o b \o t)[i] = h[i]
         /\ \A i \in 1..Len(b) : (h \o b \o t)[Len(h) + i] = b[i]
         /\ \A i \in 1..Len(t) : (h \o b \o t)[Len(h) + Len(b) + i] = t[i]
<1>1. /\ h \o b \in Seq(T) /\ Len(h \o b) = Len(h) + Len(b)
      /\ \A i \in 1..Len(h) : (h \o b)[i] = h[i]
      /\ \A i \in 1..Len(b) : (h \o b)[Len(h) + i] = b[i]
  BY Concat
<1>2. PICK g : g = h \o b OBVIOUS
<1>3. g \in Seq(T) BY <1>1, <1>2
<1>4. /\ g \o t \in Seq(T) /\ Len(g \o t) = Len(g) + Len(t)
      /\ \A i \in 1..Len(g) : (g \o t)[i] = g[i]
      /\ \A i \in 1..Len(t) : (g \o t)[Len(g) + i] = t[i]
  BY <1>3, Concat
<1>5. Len(h) \in Nat /\ Len(b) \in Nat /\ Len(t) \in Nat BY LenProperties
<1>6. Len(g) = Len(h) + Len(b) BY <1>1, <1>2
<1>7. ASSUME NEW i \in 1..Len(h) PROVE (g \o t)[i] = h[i]
  <2>1. i \in 1..Len(g) BY <1>5, <1>6
  <2> QED BY <1>1, <1>2, <1>4, <2>1
<1>8. ASSUME NEW i \in 1..Len(b) PROVE (g \o t)[Len(h) + i] = b[i]
  <2>1. Len(h) + i \in 1..Len(g) BY <1>5, <1>6
  <2> QED BY <1>1, <1>2, <1>4, <2>1
<1> QED BY <1>2, <1>4, <1>6, <1>7, <1>8

LEMMA TokensAre ==
  ASSUME NEW list
  PROVE  /\ Brace("open") \in Tokens(list) /\ Brace("close") \in Tokens(list)
         /\ \A s \in 1..3 : Token("key", <<SectionNames[s]>>, "", 0) \in Tokens(list)
         /\ Token("key", StampName, "", 0) \in Tokens(list)
         /\ \A s \in 1..3, p \in Positions : EntryFor(list, s, p) \in Tokens(list)
<1>1. \A s \in 1..3 : Token("key", <<SectionNames[s]>>, "", 0) \in Keys
  BY Zenon DEF Keys
<1>2. Token("key", StampName, "", 0) \in Keys BY Zenon DEF Keys
<1>3. \A s \in 1..3, p \in Positions : EntryFor(list, s, p) \in Entries(list, s)
  BY Zenon DEF Entries
<1>4. \A s \in 1..3 : Entries(list, s) \subseteq Tokens(list)
  BY DEF Tokens
<1>5. \A s \in 1..3, p \in Positions : EntryFor(list, s, p) \in Tokens(list)
  BY <1>3, <1>4, Zenon
<1> QED BY <1>1, <1>2, <1>5, Zenon DEF Tokens

\* One section: its name, its braces and an entry for each of its tags.
IsSection(sec, list, s, first, n) ==
  /\ sec \in Seq(Tokens(list)) /\ Len(sec) = n + 3
  /\ sec[1] = Token("key", <<SectionNames[s]>>, "", 0)
  /\ sec[2] = Brace("open")
  /\ \A k \in 1..n : sec[2 + k] = EntryFor(list, s, first + k - 1)
  /\ sec[n + 3] = Brace("close")

LEMMA SectionLayout ==
  ASSUME NEW list, NEW s, NEW first, NEW e, NEW n,
         s \in 1..3, first \in Nat, e \in Nat, n \in Nat,
         1 <= first, e <= N, n = e - first + 1
  PROVE  IsSection(Section(list, s, first, e), list, s, first, n)
<1> DEFINE key == Token("key", <<SectionNames[s]>>, "", 0)
           head == <<key, Brace("open")>>
           body == [k \in 1..n |-> EntryFor(list, s, first + k - 1)]
           tail == <<Brace("close")>>
<1>1. \A k \in 1..n : first + k - 1 \in Positions
  BY Sizes DEF Positions
<1>2. head \in Seq(Tokens(list)) /\ Len(head) = 2
      /\ head[1] = key /\ head[2] = Brace("open")
  <2>1. key \in Tokens(list) /\ Brace("open") \in Tokens(list) BY TokensAre
  <2> HIDE DEF key
  <2> QED BY <2>1, TwoTokens
<1>3. body \in Seq(Tokens(list)) /\ Len(body) = n
      /\ \A k \in 1..n : body[k] = EntryFor(list, s, first + k - 1)
  <2>1. \A k \in 1..n : EntryFor(list, s, first + k - 1) \in Tokens(list)
    BY <1>1, TokensAre
  <2>2. body \in [1..n -> Tokens(list)] BY <2>1
  <2>3. body \in Seq(Tokens(list)) BY <1>1, <2>2 DEF Seq
  <2> QED BY <1>1, <2>3
<1>4. tail \in Seq(Tokens(list)) /\ Len(tail) = 1 /\ tail[1] = Brace("close")
  BY TokensAre, OneToken
<1>5. Section(list, s, first, e) = head \o body \o tail
  BY DEF Section, EntryFor
<1> HIDE DEF head, body, tail, key
<1>6. PICK h, b, t : h = head /\ b = body /\ t = tail OBVIOUS
<1>7. h \in Seq(Tokens(list)) /\ b \in Seq(Tokens(list)) /\ t \in Seq(Tokens(list))
  BY <1>2, <1>3, <1>4, <1>6
<1>8. /\ h \o b \o t \in Seq(Tokens(list)) /\ Len(h \o b \o t) = Len(h) + Len(b) + Len(t)
      /\ \A i \in 1..Len(h) : (h \o b \o t)[i] = h[i]
      /\ \A i \in 1..Len(b) : (h \o b \o t)[Len(h) + i] = b[i]
      /\ \A i \in 1..Len(t) : (h \o b \o t)[Len(h) + Len(b) + i] = t[i]
  BY <1>7, ConcatThree
<1>9. Len(h) = 2 /\ Len(b) = n /\ Len(t) = 1 BY <1>2, <1>3, <1>4, <1>6
<1>10. PICK sec : sec = Section(list, s, first, e) OBVIOUS
<1>11. sec = h \o b \o t BY <1>5, <1>6, <1>10
<1>12. /\ sec \in Seq(Tokens(list)) /\ Len(sec) = Len(h) + Len(b) + Len(t)
       /\ \A i \in 1..Len(h) : sec[i] = h[i]
       /\ \A i \in 1..Len(b) : sec[Len(h) + i] = b[i]
       /\ \A i \in 1..Len(t) : sec[Len(h) + Len(b) + i] = t[i]
  BY <1>8, <1>11, Zenon
<1>13. /\ Len(sec) = n + 3
       /\ \A i \in 1..2 : sec[i] = h[i]
       /\ \A i \in 1..n : sec[2 + i] = b[i]
       /\ sec[n + 3] = t[1]
  <2>1. Len(h) + Len(b) + Len(t) = n + 3 /\ Len(h) + Len(b) + 1 = n + 3 /\ 1 \in 1..Len(t)
    BY <1>9
  <2> QED BY <1>9, <1>12, <2>1
<1>14. sec[1] = key /\ sec[2] = Brace("open") /\ sec[n + 3] = Brace("close")
  BY <1>2, <1>4, <1>6, <1>13
<1>15. \A k \in 1..n : sec[2 + k] = EntryFor(list, s, first + k - 1)
  BY <1>3, <1>6, <1>13
<1> HIDE DEF key
<1>16. Token("key", <<SectionNames[s]>>, "", 0) = key BY DEF key
<1> QED BY <1>10, <1>12, <1>13, <1>14, <1>15, <1>16 DEF IsSection

Key(s) == Token("key", <<SectionNames[s]>>, "", 0)
Stamp == Token("key", StampName, "", 0)

\* What stands where in the text of a list.
Layout(t, list) ==
  /\ t \in Seq(Tokens(list)) /\ Len(t) = N + 12
  /\ t[1] = Brace("open") /\ t[2] = Key(1) /\ t[3] = Brace("open")
  /\ \A p \in Positions : p <= LastAnalog => t[p + 3] = EntryFor(list, 1, p)
  /\ t[LastAnalog + 4] = Brace("close")
  /\ t[LastAnalog + 5] = Key(2) /\ t[LastAnalog + 6] = Brace("open")
  /\ \A p \in Positions :
       LastAnalog < p /\ p <= LastBool => t[p + 6] = EntryFor(list, 2, p)
  /\ t[LastBool + 7] = Brace("close")
  /\ t[LastBool + 8] = Key(3) /\ t[LastBool + 9] = Brace("open")
  /\ \A p \in Positions : LastBool < p => t[p + 9] = EntryFor(list, 3, p)
  /\ t[N + 10] = Brace("close") /\ t[N + 11] = Stamp /\ t[N + 12] = Brace("close")

LEMMA TextLayout ==
  ASSUME NEW list
  PROVE  Layout(TextOf(list, SectionEnds), list)
<1> DEFINE T == Seq(Tokens(list))
           nb == LastBool - LastAnalog
           nw == N - LastBool
<1>0. /\ nb \in Nat /\ nw \in Nat /\ LastAnalog \in Nat /\ LastBool \in Nat /\ N \in Nat
      /\ 1 <= LastAnalog /\ LastAnalog <= N /\ LastBool <= N
      /\ LastAnalog = LastAnalog - 1 + 1 /\ nb = LastBool - (LastAnalog + 1) + 1
      /\ nw = N - (LastBool + 1) + 1
  BY Sizes
<1>1. PICK a : a = Section(list, 1, 1, LastAnalog) OBVIOUS
<1>2. PICK c : c = Section(list, 2, LastAnalog + 1, LastBool) OBVIOUS
<1>3. PICK w : w = Section(list, 3, LastBool + 1, N) OBVIOUS
<1>4. PICK o : o = <<Brace("open")>> OBVIOUS
<1>5. PICK e : e = <<Stamp, Brace("close")>> OBVIOUS
<1>6. /\ a \in T /\ Len(a) = LastAnalog + 3 /\ a[1] = Key(1) /\ a[2] = Brace("open")
      /\ \A k \in 1..LastAnalog : a[2 + k] = EntryFor(list, 1, 1 + k - 1)
      /\ a[LastAnalog + 3] = Brace("close")
  <2>1. 1 \in 1..3 /\ 1 \in Nat OBVIOUS
  <2>2. IsSection(Section(list, 1, 1, LastAnalog), list, 1, 1, LastAnalog)
    BY <1>0, <2>1, SectionLayout
  <2> QED BY <1>1, <2>2 DEF Key, IsSection
<1>7. /\ c \in T /\ Len(c) = nb + 3 /\ c[1] = Key(2) /\ c[2] = Brace("open")
      /\ \A k \in 1..nb : c[2 + k] = EntryFor(list, 2, LastAnalog + 1 + k - 1)
      /\ c[nb + 3] = Brace("close")
  <2>1. 2 \in 1..3 /\ LastAnalog + 1 \in Nat /\ 1 <= LastAnalog + 1 BY <1>0
  <2>2. IsSection(Section(list, 2, LastAnalog + 1, LastBool), list, 2, LastAnalog + 1, nb)
    BY <1>0, <2>1, SectionLayout
  <2> QED BY <1>2, <2>2 DEF Key, IsSection
<1>8. /\ w \in T /\ Len(w) = nw + 3 /\ w[1] = Key(3) /\ w[2] = Brace("open")
      /\ \A k \in 1..nw : w[2 + k] = EntryFor(list, 3, LastBool + 1 + k - 1)
      /\ w[nw + 3] = Brace("close")
  <2>1. 3 \in 1..3 /\ LastBool + 1 \in Nat /\ 1 <= LastBool + 1 BY <1>0
  <2>2. IsSection(Section(list, 3, LastBool + 1, N), list, 3, LastBool + 1, nw)
    BY <1>0, <2>1, SectionLayout
  <2> QED BY <1>3, <2>2 DEF Key, IsSection
<1>9. o \in T /\ Len(o) = 1 /\ o[1] = Brace("open")
  BY <1>4, TokensAre, OneToken
<1>10. e \in T /\ Len(e) = 2 /\ e[1] = Stamp /\ e[2] = Brace("close")
  BY <1>5, TokensAre, TwoTokens DEF Stamp
<1>11. a \in T /\ c \in T /\ w \in T /\ o \in T /\ e \in T
  BY <1>6, <1>7, <1>8, <1>9, <1>10
<1>12. PICK g : g = o \o a \o c OBVIOUS
<1>13. PICK t : t = g \o w \o e OBVIOUS
<1>11a. o \in T /\ a \in T /\ c \in T BY <1>11
<1>14. /\ g \in T /\ Len(g) = Len(o) + Len(a) + Len(c)
       /\ \A i \in 1..Len(o) : g[i] = o[i]
       /\ \A i \in 1..Len(a) : g[Len(o) + i] = a[i]
       /\ \A i \in 1..Len(c) : g[Len(o) + Len(a) + i] = c[i]
  <2>1. /\ o \o a \o c \in T /\ Len(o \o a \o c) = Len(o) + Len(a) + Len(c)
        /\ \A i \in 1..Len(o) : (o \o a \o c)[i] = o[i]
        /\ \A i \in 1..Len(a) : (o \o a \o c)[Len(o) + i] = a[i]
        /\ \A i \in 1..Len(c) : (o \o a \o c)[Len(o) + Len(a) + i] = c[i]
    <3>1. o \o a \o c \in T BY <1>11a, ConcatThree
    <3>2. Len(o \o a \o c) = Len(o) + Len(a) + Len(c) BY <1>11a, ConcatThree
    <3>3. \A i \in 1..Len(o) : (o \o a \o c)[i] = o[i] BY <1>11a, ConcatThree
    <3>4. \A i \in 1..Len(a) : (o \o a \o c)[Len(o) + i] = a[i] BY <1>11a, ConcatThree
    <3>5. \A i \in 1..Len(c) : (o \o a \o c)[Len(o) + Len(a) + i] = c[i] BY <1>11a, ConcatThree
    <3> QED BY <3>1, <3>2, <3>3, <3>4, <3>5
  <2> QED BY <1>12, <2>1, Zenon
<1>15. g \in T BY <1>14, Zenon
<1>16. /\ t \in T /\ Len(t) = Len(g) + Len(w) + Len(e)
       /\ \A i \in 1..Len(g) : t[i] = g[i]
       /\ \A i \in 1..Len(w) : t[Len(g) + i] = w[i]
       /\ \A i \in 1..Len(e) : t[Len(g) + Len(w) + i] = e[i]
  <2>1. /\ g \o w \o e \in T /\ Len(g \o w \o e) = Len(g) + Len(w) + Len(e)
        /\ \A i \in 1..Len(g) : (g \o w \o e)[i] = g[i]
        /\ \A i \in 1..Len(w) : (g \o w \o e)[Len(g) + i] = w[i]
        /\ \A i \in 1..Len(e) : (g \o w \o e)[Len(g) + Len(w) + i] = e[i]
    BY <1>11, <1>15, ConcatThree
  <2> QED BY <1>13, <2>1, Zenon
<1>17. TextOf(list, SectionEnds) = t
  BY <1>1, <1>2, <1>3, <1>4, <1>5, <1>12, <1>13, Names DEF TextOf, Stamp
<1> HIDE DEF T
<1>18. /\ Len(g) = LastBool + 7 /\ g[1] = o[1]
       /\ \A i \in 1..(LastAnalog + 3) : g[1 + i] = a[i]
       /\ \A i \in 1..(nb + 3) : g[LastAnalog + 4 + i] = c[i]
  <2>1. Len(o) + Len(a) + Len(c) = LastBool + 7 /\ Len(o) + Len(a) = LastAnalog + 4
    BY <1>0, <1>6, <1>7, <1>9
  <2> QED BY <1>6, <1>7, <1>9, <1>14, <2>1
<1>19. /\ Len(t) = N + 12
       /\ \A i \in 1..(LastBool + 7) : t[i] = g[i]
       /\ \A i \in 1..(nw + 3) : t[LastBool + 7 + i] = w[i]
       /\ \A i \in 1..2 : t[N + 10 + i] = e[i]
  <2>1. Len(g) + Len(w) + Len(e) = N + 12 /\ Len(g) + Len(w) = N + 10
    BY <1>0, <1>8, <1>10, <1>18
  <2> QED BY <1>8, <1>10, <1>16, <1>18, <2>1
<1>20. t[1] = Brace("open") /\ t[2] = Key(1) /\ t[3] = Brace("open")
  BY <1>0, <1>6, <1>9, <1>18, <1>19
<1>21. ASSUME NEW p \in Positions, p <= LastAnalog PROVE t[p + 3] = EntryFor(list, 1, p)
  <2>1. p \in 1..LastAnalog /\ 2 + p \in 1..(LastAnalog + 3) /\ p + 3 \in 1..(LastBool + 7)
        /\ 1 + (2 + p) = p + 3 /\ 1 + p - 1 = p
    BY <1>0, <1>21, Sizes DEF Positions
  <2> QED BY <1>6, <1>18, <1>19, <2>1
<1>22. t[LastAnalog + 4] = Brace("close")
  <2>1. 1 + (LastAnalog + 3) = LastAnalog + 4 /\ LastAnalog + 4 \in 1..(LastBool + 7)
        /\ LastAnalog + 3 \in 1..(LastAnalog + 3)
    BY Sizes
  <2> QED BY <1>6, <1>18, <1>19, <2>1
<1>23. t[LastAnalog + 5] = Key(2) /\ t[LastAnalog + 6] = Brace("open")
  <2>1. LastAnalog + 4 + 1 = LastAnalog + 5 /\ LastAnalog + 4 + 2 = LastAnalog + 6
        /\ LastAnalog + 5 \in 1..(LastBool + 7) /\ LastAnalog + 6 \in 1..(LastBool + 7)
        /\ 1 \in 1..(nb + 3) /\ 2 \in 1..(nb + 3)
    BY Sizes
  <2> QED BY <1>7, <1>18, <1>19, <2>1
<1>24. ASSUME NEW p \in Positions, LastAnalog < p, p <= LastBool
       PROVE  t[p + 6] = EntryFor(list, 2, p)
  <2>1. PICK k \in 1..nb : p = LastAnalog + k
    <3>1. p - LastAnalog \in 1..nb /\ p = LastAnalog + (p - LastAnalog)
      BY <1>0, <1>24 DEF Positions
    <3> QED BY <3>1
  <2>2. 2 + k \in 1..(nb + 3) /\ p + 6 \in 1..(LastBool + 7)
        /\ LastAnalog + 4 + (2 + k) = p + 6 /\ LastAnalog + 1 + k - 1 = p
    BY <1>0, <1>24, <2>1 DEF Positions
  <2> QED BY <1>7, <1>18, <1>19, <2>1, <2>2
<1>25. t[LastBool + 7] = Brace("close")
  <2>1. LastAnalog + 4 + (nb + 3) = LastBool + 7 /\ LastBool + 7 \in 1..(LastBool + 7)
        /\ nb + 3 \in 1..(nb + 3)
    BY Sizes
  <2> QED BY <1>7, <1>18, <1>19, <2>1
<1>26. t[LastBool + 8] = Key(3) /\ t[LastBool + 9] = Brace("open")
  <2>1. LastBool + 7 + 1 = LastBool + 8 /\ LastBool + 7 + 2 = LastBool + 9
        /\ 1 \in 1..(nw + 3) /\ 2 \in 1..(nw + 3)
    BY Sizes
  <2> QED BY <1>8, <1>19, <2>1
<1>27. ASSUME NEW p \in Positions, LastBool < p PROVE t[p + 9] = EntryFor(list, 3, p)
  <2>1. PICK k \in 1..nw : p = LastBool + k
    <3>1. p - LastBool \in 1..nw /\ p = LastBool + (p - LastBool)
      BY <1>0, <1>27 DEF Positions
    <3> QED BY <3>1
  <2>2. 2 + k \in 1..(nw + 3) /\ LastBool + 7 + (2 + k) = p + 9 /\ LastBool + 1 + k - 1 = p
    BY <1>0, <1>27, <2>1 DEF Positions
  <2> QED BY <1>8, <1>19, <2>1, <2>2
<1>28. t[N + 10] = Brace("close")
  <2>1. LastBool + 7 + (nw + 3) = N + 10 /\ nw + 3 \in 1..(nw + 3) BY Sizes
  <2> QED BY <1>8, <1>19, <2>1
<1>29. t[N + 11] = Stamp /\ t[N + 12] = Brace("close")
  <2>1. N + 10 + 1 = N + 11 /\ N + 10 + 2 = N + 12 BY Sizes
  <2> QED BY <1>10, <1>19, <2>1
<1>30. t \in Seq(Tokens(list)) BY <1>16 DEF T
<1> QED BY <1>17, <1>19, <1>20, <1>21, <1>22, <1>23, <1>24, <1>25, <1>26, <1>27, <1>28,
           <1>29, <1>30 DEF Layout

\* The places of the braces, the keys and the entries.
Opens == {1, 3, LastAnalog + 6, LastBool + 9}
Closes == {LastAnalog + 4, LastBool + 7, N + 10, N + 12}
KeyPlaces == {2, LastAnalog + 5, LastBool + 8, N + 11}
Sec(p) == IF p <= LastAnalog THEN 1 ELSE IF p <= LastBool THEN 2 ELSE 3
At(p) == IF p <= LastAnalog THEN p + 3 ELSE IF p <= LastBool THEN p + 6 ELSE p + 9

LEMMA Places ==
  ASSUME NEW i \in 1..(N + 12)
  PROVE  i \in Opens \/ i \in Closes \/ i \in KeyPlaces \/ \E p \in Positions : i = At(p)
<1>1. CASE 4 <= i /\ i <= LastAnalog + 3
  <2>1. i - 3 \in Positions /\ i = At(i - 3) BY <1>1, Sizes DEF Positions, At
  <2> QED BY <2>1
<1>2. CASE LastAnalog + 7 <= i /\ i <= LastBool + 6
  <2>1. i - 6 \in Positions /\ i = At(i - 6) BY <1>2, Sizes DEF Positions, At
  <2> QED BY <2>1
<1>3. CASE LastBool + 10 <= i /\ i <= N + 9
  <2>1. i - 9 \in Positions /\ i = At(i - 9) BY <1>3, Sizes DEF Positions, At
  <2> QED BY <2>1
<1>4. CASE ~(\/ 4 <= i /\ i <= LastAnalog + 3
             \/ LastAnalog + 7 <= i /\ i <= LastBool + 6
             \/ LastBool + 10 <= i /\ i <= N + 9)
  BY <1>4, Sizes DEF Opens, Closes, KeyPlaces
<1> QED BY <1>1, <1>2, <1>3, <1>4

LEMMA Apart ==
  ASSUME NEW p \in Positions
  PROVE  /\ At(p) \in 1..(N + 12)
         /\ At(p) \notin Opens /\ At(p) \notin Closes /\ At(p) \notin KeyPlaces
         /\ Sec(p) \in 1..3
BY Sizes DEF At, Opens, Closes, KeyPlaces, Positions, Sec

LEMMA BraceFields ==
  ASSUME NEW k
  PROVE  Brace(k).kind = k /\ Brace(k).name = <<>>
BY DEF Brace, Token

LEMMA KeyFields ==
  /\ \A s : Key(s).kind = "key" /\ Key(s).name = <<SectionNames[s]>>
  /\ Stamp.kind = "key" /\ Stamp.name = StampName
BY DEF Key, Stamp, Token

LEMMA EntryFields ==
  ASSUME NEW list, NEW s, NEW p
  PROVE  /\ EntryFor(list, s, p).kind = "entry" /\ EntryFor(list, s, p).name = list[p]
         /\ EntryFor(list, s, p).section = SectionNames[s] /\ EntryFor(list, s, p).pos = p
BY DEF EntryFor, Token

\* The names the launcher writes differ.
LEMMA NamesDiffer ==
  /\ \A s \in 1..3 : <<SectionNames[s]>> # <<>> /\ <<SectionNames[s]>> # StampName
  /\ StampName # <<>>
  /\ \A s, r \in 1..3 : <<SectionNames[s]>> = <<SectionNames[r]>> => s = r
<1>1. ASSUME NEW x, NEW y, <<x>> = <<y>> PROVE x = y BY <1>1
<1>2. ASSUME NEW x PROVE <<x>> # <<>> OBVIOUS
<1>3. \A s \in 1..3 : SectionNames[s] # "updated_unix_ms" BY DEF SectionNames
<1>4. \A s, r \in 1..3 : SectionNames[s] = SectionNames[r] => s = r BY DEF SectionNames
<1> QED BY <1>1, <1>2, <1>3, <1>4 DEF StampName

LEMMA TokenAt ==
  ASSUME NEW t, NEW list, Layout(t, list)
  PROVE  /\ \A i \in Opens : t[i] = Brace("open")
         /\ \A i \in Closes : t[i] = Brace("close")
         /\ \A p \in Positions : t[At(p)] = EntryFor(list, Sec(p), p)
         /\ t[2] = Key(1) /\ t[LastAnalog + 5] = Key(2) /\ t[LastBool + 8] = Key(3)
         /\ t[N + 11] = Stamp
<1>1. \A i \in Opens : t[i] = Brace("open") BY DEF Layout, Opens
<1>2. \A i \in Closes : t[i] = Brace("close") BY DEF Layout, Closes
<1>3. ASSUME NEW p \in Positions PROVE t[At(p)] = EntryFor(list, Sec(p), p)
  BY Sizes DEF Layout, At, Sec, Positions
<1> QED BY <1>1, <1>2, <1>3 DEF Layout

\* What kinds of tokens stand where.
LEMMA Kinds ==
  ASSUME NEW t, NEW list, Layout(t, list), NEW i \in 1..(N + 12)
  PROVE  /\ t[i].kind = "open" <=> i \in Opens
         /\ t[i].kind = "close" <=> i \in Closes
         /\ t[i].kind = "entry" <=> \E p \in Positions : i = At(p)
         /\ i \in Opens \cup Closes => t[i].name = <<>>
         /\ i \in KeyPlaces => t[i].name \in {StampName} \cup {<<SectionNames[s]>> : s \in 1..3}
<1>1. Opens \cap Closes = {} /\ Opens \cap KeyPlaces = {} /\ Closes \cap KeyPlaces = {}
  BY Sizes DEF Opens, Closes, KeyPlaces
<1>2. CASE i \in Opens
  <2>1. t[i].kind = "open" /\ t[i].name = <<>> BY <1>2, TokenAt, BraceFields
  <2> QED BY <1>1, <1>2, <2>1, Apart
<1>3. CASE i \in Closes
  <2>1. t[i].kind = "close" /\ t[i].name = <<>> BY <1>3, TokenAt, BraceFields
  <2> QED BY <1>1, <1>3, <2>1, Apart
<1>4. CASE i \in KeyPlaces
  <2>1. t[i] \in {Key(1), Key(2), Key(3), Stamp} BY <1>4, TokenAt DEF KeyPlaces
  <2>2. t[i].kind = "key" /\ t[i].name \in {StampName} \cup {<<SectionNames[s]>> : s \in 1..3}
    <3>1. \A s \in 1..3 : <<SectionNames[s]>> \in {<<SectionNames[r]>> : r \in 1..3} BY Zenon
    <3>2. 1 \in 1..3 /\ 2 \in 1..3 /\ 3 \in 1..3 OBVIOUS
    <3> QED BY <2>1, <3>1, <3>2, KeyFields, Zenon
  <2> QED BY <1>1, <1>4, <2>2, Apart
<1>5. CASE \E p \in Positions : i = At(p)
  <2>1. PICK p \in Positions : i = At(p) BY <1>5
  <2>2. t[i].kind = "entry" BY <2>1, TokenAt, EntryFields
  <2> QED BY <2>1, <2>2, Apart
<1> QED BY <1>2, <1>3, <1>4, <1>5, Places

\* Nothing the launcher writes but the braces opens one.
LEMMA OpensAre ==
  ASSUME NEW t, NEW list, Layout(t, list), NEW i \in 1..(N + 12)
  PROVE  IsOpen(t[i]) <=> i \in Opens \/ (\E p \in Positions : i = At(p) /\ list[p] \in Braced)
<1>1. \A n \in {<<>>, StampName} \cup {<<SectionNames[s]>> : s \in 1..3} : n \notin Braced
  BY RelayAssumption
<1>2. CASE i \in Opens BY <1>2, Kinds DEF IsOpen
<1>3. CASE i \in Closes
  BY <1>1, <1>3, Kinds, Apart DEF IsOpen
<1>4. CASE i \in KeyPlaces
  BY <1>1, <1>4, Kinds, Apart DEF IsOpen
<1>5. CASE \E p \in Positions : i = At(p)
  <2>1. PICK p \in Positions : i = At(p) BY <1>5
  <2>2. t[i].name = list[p] /\ t[i].kind = "entry" BY <2>1, TokenAt, EntryFields
  <2>3. \A q \in Positions : At(q) = At(p) => q = p BY Sizes DEF At, Positions
  <2> QED BY <2>1, <2>2, <2>3, Apart DEF IsOpen
<1> QED BY <1>2, <1>3, <1>4, <1>5, Places

-----------------------------------------------------------------------------
(* Where the sections are found, in a text cut anywhere.                   *)

LEMMA BoundsForm ==
  ASSUME NEW t, NEW len, NEW s, NEW b, b \in Bounds(t, len, s)
  PROVE  \E n \in NamedAt(t, len, s) :
           \E o \in First({i \in n..len : IsOpen(t[i])}) :
             \E c \in ClosedAt(t, len, o) :
               b = [begin |-> o + 1, end |-> c, inString |-> t[o].kind = "entry"]
<1>1. PICK o \in OpenedAt(t, len, s) :
        \E c \in ClosedAt(t, len, o) :
          b = [begin |-> o + 1, end |-> c, inString |-> t[o].kind = "entry"]
  BY DEF Bounds
<1>2. PICK n \in NamedAt(t, len, s) : o \in First({i \in n..len : IsOpen(t[i])})
  BY DEF OpenedAt
<1> QED BY <1>1, <1>2

KeyAt(s) == IF s = 1 THEN 2 ELSE IF s = 2 THEN LastAnalog + 5 ELSE LastBool + 8

\* The name of a section is found where it is, or in an entry before it.
IsNameAt(n, list, len, s) ==
  /\ n \in 1..len /\ n <= KeyAt(s)
  /\ n = KeyAt(s) \/ \E p \in Positions : n = At(p) /\ list[p] = <<SectionNames[s]>>

LEMMA NameFound ==
  ASSUME NEW t, NEW list, NEW len, NEW s, NEW n,
         Layout(t, list), len \in 0..(N + 12), s \in 1..3,
         n \in NamedAt(t, len, SectionNames[s])
  PROVE  IsNameAt(n, list, len, s)
<1> USE DEF IsNameAt
<1>k. PICK k : k = KeyAt(s) OBVIOUS
<1> DEFINE S == {i \in 1..len : t[i].name = <<SectionNames[s]>>}
<1>1. n \in S /\ \A j \in S : n <= j BY DEF NamedAt, First
<1>2. n \in 1..(N + 12) /\ t[n].name = <<SectionNames[s]>> BY <1>1, Sizes
<1>3. k \in 1..(N + 12) /\ t[k].name = <<SectionNames[s]>>
  BY <1>k, TokenAt, KeyFields, Sizes DEF KeyAt
<1>4. n <= k
  <2>1. CASE k <= len BY <1>1, <1>3, <2>1
  <2>2. CASE ~(k <= len) BY <1>1, <1>3, <2>2, Sizes
  <2> QED BY <2>1, <2>2
<1>5. n \notin Opens /\ n \notin Closes BY <1>2, Kinds, NamesDiffer
<1>6. CASE n \in KeyPlaces
  <2>1. t[2].name = <<SectionNames[1]>> /\ t[LastAnalog + 5].name = <<SectionNames[2]>>
        /\ t[LastBool + 8].name = <<SectionNames[3]>> /\ t[N + 11].name = StampName
    BY TokenAt, KeyFields
  <2>2. n # N + 11 BY <1>2, <2>1, NamesDiffer
  <2>3. n = 2 => s = 1 BY <1>2, <2>1, NamesDiffer
  <2>4. n = LastAnalog + 5 => s = 2 BY <1>2, <2>1, NamesDiffer
  <2>5. n = LastBool + 8 => s = 3 BY <1>2, <2>1, NamesDiffer
  <2>6. n = k BY <1>6, <1>k, <2>2, <2>3, <2>4, <2>5 DEF KeyPlaces, KeyAt
  <2> QED BY <1>1, <1>4, <1>k, <2>6
<1>7. CASE \E p \in Positions : n = At(p)
  <2>1. PICK p \in Positions : n = At(p) BY <1>7
  <2>2. list[p] = <<SectionNames[s]>> BY <1>2, <2>1, TokenAt, EntryFields
  <2> QED BY <1>1, <1>4, <1>k, <2>1, <2>2
<1> QED BY <1>2, <1>5, <1>6, <1>7, Places

\* What is found of a section, if it does not begin inside a string: what is its
\* own, or of the words what are the bools.
Found(s, b, len) ==
  \/ (s = 1 /\ b.begin = 4 /\ b.end \in (LastAnalog + 4)..len)
  \/ (s \in {2, 3} /\ b.begin = LastAnalog + 7 /\ b.end \in (LastBool + 7)..len)
  \/ (s = 3 /\ b.begin = LastBool + 10 /\ b.end \in (N + 10)..len)

LEMMA SectionFound ==
  ASSUME NEW t, NEW list, NEW len, NEW s, NEW b,
         Layout(t, list), len \in 0..(N + 12), s \in 1..3,
         b \in Bounds(t, len, SectionNames[s]), ~b.inString
  PROVE  Found(s, b, len)
<1>1. PICK n, o, c :
        /\ n \in NamedAt(t, len, SectionNames[s])
        /\ o \in First({i \in n..len : IsOpen(t[i])})
        /\ c \in ClosedAt(t, len, o)
        /\ b = [begin |-> o + 1, end |-> c, inString |-> t[o].kind = "entry"]
  BY BoundsForm
<1>n. n \in NamedAt(t, len, SectionNames[s]) BY <1>1
<1>2. n \in 1..len /\ n <= KeyAt(s)
      /\ (n = KeyAt(s) \/ \E p \in Positions : n = At(p) /\ list[p] = <<SectionNames[s]>>)
  <2>1. IsNameAt(n, list, len, s) BY <1>n, NameFound
  <2> QED BY <2>1 DEF IsNameAt
<1>3. n >= 2 /\ (n = 2 <=> s = 1) /\ (n # 2 => n >= 4)
  <2>1. \A p \in Positions : At(p) >= 4 BY Sizes DEF At, Positions
  <2>2. s = 1 => n = 2 BY <1>2, <2>1 DEF KeyAt
  <2>3. s # 1 => n >= 4 BY <1>2, <2>1, Sizes DEF KeyAt
  <2>4. n \in Int BY <1>2
  <2> QED BY <2>2, <2>3, <2>4
<1>4. o \in n..len /\ IsOpen(t[o]) /\ \A j \in n..len : IsOpen(t[j]) => o <= j
  BY <1>1 DEF First
<1>5. o \in 1..(N + 12) /\ t[o].kind # "entry"
  <2>1. b.inString = (t[o].kind = "entry") BY <1>1
  <2>2. o \in 1..(N + 12) BY <1>2, <1>4, Sizes
  <2> QED BY <2>1, <2>2
<1>6. o \in Opens
  BY <1>4, <1>5, OpensAre, Kinds
<1>7. c \in o..len /\ c \in Closes
  <2>1. c \in o..len /\ IsClose(t[c]) BY <1>1 DEF ClosedAt, First
  <2>2. c \in 1..(N + 12) BY <1>5, <2>1, Sizes
  <2> QED BY <2>1, <2>2, Kinds DEF IsClose
<1>8. b.begin = o + 1 /\ b.end = c BY <1>1
<1>9. \A j \in Opens : j >= n => o <= j
  <2>1. SUFFICES ASSUME NEW j \in Opens, j >= n, o > j PROVE FALSE
    BY <1>2, <1>5, Sizes DEF Opens
  <2>2. j \in n..len /\ j \in 1..(N + 12)
    BY <1>2, <1>4, <2>1, Sizes DEF Opens
  <2>3. IsOpen(t[j]) BY <2>1, <2>2, OpensAre
  <2> QED BY <1>4, <1>5, <2>1, <2>2, <2>3
<1>10. CASE s = 1
  <2>1. n = 2 BY <1>3, <1>10
  <2>2. o = 3 BY <1>4, <1>6, <1>9, <2>1, Sizes DEF Opens
  <2>3. c >= LastAnalog + 4 BY <1>7, <2>2, Sizes DEF Closes
  <2> QED BY <1>7, <1>8, <1>10, <2>2, <2>3, Sizes DEF Found
<1>11. CASE s = 2
  <2>1. n >= 4 /\ n <= LastAnalog + 5 BY <1>2, <1>3, <1>11 DEF KeyAt
  <2>2. o = LastAnalog + 6 BY <1>2, <1>4, <1>6, <1>9, <2>1, Sizes DEF Opens
  <2>3. c >= LastBool + 7 BY <1>7, <2>2, Sizes DEF Closes
  <2> QED BY <1>7, <1>8, <1>11, <2>2, <2>3, Sizes DEF Found
<1>12. CASE s = 3
  <2>1. n >= 4 /\ n <= LastBool + 8 BY <1>2, <1>3, <1>12 DEF KeyAt
  <2>2. o \in {LastAnalog + 6, LastBool + 9}
    BY <1>2, <1>4, <1>6, <1>9, <2>1, Sizes DEF Opens
  <2>3. o = LastAnalog + 6 => c >= LastBool + 7 BY <1>7, Sizes DEF Closes
  <2>4. o = LastBool + 9 => c >= N + 10 BY <1>7, Sizes DEF Closes
  <2> QED BY <1>7, <1>8, <1>12, <2>2, <2>3, <2>4, Sizes DEF Found
<1> QED BY <1>10, <1>11, <1>12

-----------------------------------------------------------------------------
(* The inductive invariant.                                                *)

\* What was read is a version the launcher wrote, and nothing newer is served.
BufferInv ==
  /\ buf.version <= latest
  /\ phase \in {"comparing", "applying"} => buf.version >= 1
  /\ phase = "comparing" => section = 0 /\ cursor = 0 /\ end = 0
  /\ \A i \in Positions : data[i] <= buf.version /\ visible[i] <= buf.version

\* A pass is before a section, or in what it found of it.
InSection ==
  \/ cursor = 0
  \/ /\ section = 1
     /\ 4 <= cursor /\ cursor <= LastAnalog + 4 /\ LastAnalog + 4 <= end
  \/ /\ section \in {2, 3}
     /\ LastAnalog + 7 <= cursor /\ cursor <= LastBool + 7 /\ LastBool + 7 <= end
  \/ /\ section = 3
     /\ LastBool + 10 <= cursor /\ cursor <= N + 10 /\ N + 10 <= end

\* The pass has come past the entry of p.
Done(p) == Sec(p) < section \/ (Sec(p) = section /\ cursor # 0 /\ At(p) < cursor)

\* The data model is ahead of what clients read by the entries of this pass.
PassInv ==
  /\ phase = "applying" =>
       /\ section \in 1..3 /\ InSection
       /\ \A p \in Positions :
            data[p] = IF p \in known /\ Done(p) THEN buf.version ELSE visible[p]
  /\ phase # "applying" => data = visible

\* A tag that was warned about is in the table, unless the table is full.
WarnInv ==
  /\ IsFiniteSet(warned) /\ Cardinality(warned) <= WarnSlots
  /\ \A i \in Positions : printed[i] >= 1 =>
       tags[i] \in warned \/ Cardinality(warned) = WarnSlots
  /\ WarnedOnce

IInv == TypeOK /\ BufferInv /\ PassInv /\ WarnInv

-----------------------------------------------------------------------------
(* Types.                                                                  *)

LEMMA TextIs ==
  ASSUME TypeOK
  PROVE  /\ Layout(text, tags) /\ Len(text) = N + 12
         /\ known \subseteq Positions
         /\ buf.version \in Nat /\ buf.len \in 0..(N + 12) /\ end <= buf.len
         /\ cursor \in Nat /\ end \in Nat /\ cursor <= end /\ latest \in Nat
         /\ (cursor # 0 => cursor \in 1..(N + 12))
<1>1. Layout(text, tags) BY TextLayout DEF TypeOK
<1>2. Len(text) = N + 12 BY <1>1 DEF Layout
<1>3. known \subseteq Positions BY DEF TypeOK, KnownIn
<1>4. /\ buf \in [version : 0..MaxVersion, len : 0..Len(text), part : BOOLEAN]
      /\ cursor \in 0..end /\ end \in 0..buf.len /\ latest \in 0..MaxVersion
  BY DEF TypeOK
<1>5. buf.version \in 0..MaxVersion /\ buf.len \in 0..(N + 12) BY <1>2, <1>4
<1> QED BY <1>1, <1>2, <1>3, <1>4, <1>5, Sizes

LEMMA StampInForm ==
  ASSUME NEW x, x \in StampIn
  PROVE  x \in {TagStamp, CutStamp, StampOf(buf.version)}
BY DEF StampIn

\* What is taken for an entry is one, of this section or of the bools.
IsHere(q) ==
  /\ cursor = At(q) /\ Here.pos = q /\ Here.name = tags[q]
  /\ Here.section = SectionNames[Sec(q)] /\ Sec(q) \in 1..3
  /\ Sec(q) = section \/ (section = 3 /\ Sec(q) = 2)

LEMMA HereIs ==
  ASSUME TypeOK, PassInv, AtEntry
  PROVE  \E q \in Positions : IsHere(q)
<1>1. cursor # 0 /\ cursor < end /\ text[cursor].kind = "entry" /\ section \in 1..3 /\ InSection
  BY DEF AtEntry, Here, PassInv
<1>2. cursor \in 1..(N + 12) BY <1>1, TextIs
<1>3. PICK q \in Positions : cursor = At(q) BY <1>1, <1>2, TextIs, Kinds
<1>4. text[cursor] = EntryFor(tags, Sec(q), q) BY <1>3, TextIs, TokenAt
<1>5. Here.pos = q /\ Here.name = tags[q] /\ Here.section = SectionNames[Sec(q)]
  BY <1>4, EntryFields DEF Here
<1>6. Sec(q) \in 1..3 BY Apart
<1>7. Sec(q) = section \/ (section = 3 /\ Sec(q) = 2)
  BY <1>1, <1>3, Sizes DEF InSection, At, Sec, Positions
<1> QED BY <1>3, <1>5, <1>6, <1>7 DEF IsHere

\* Where a section was entered.
LEMMA EnteredAt ==
  ASSUME TypeOK, NEW b, section \in 1..3, b \in Bound, ~b.inString
  PROVE  Found(section, b, buf.len)
<1>1. b \in Bounds(text, buf.len, SectionNames[section]) BY DEF Bound
<1>2. Layout(text, tags) /\ buf.len \in 0..(N + 12) BY TextIs
<1> QED BY <1>1, <1>2, SectionFound

\* A pass comes to the end of a section at the brace that closes it.
LEMMA EndIs ==
  ASSUME TypeOK, PassInv, AtEnd
  PROVE  \/ (section = 1 /\ cursor = LastAnalog + 4)
         \/ (section \in {2, 3} /\ cursor = LastBool + 7)
         \/ (section = 3 /\ cursor = N + 10)
<1>1. cursor # 0 /\ (cursor = end \/ IsClose(text[cursor])) /\ InSection
  BY DEF AtEnd, Here, PassInv
<1>2. cursor \in 1..(N + 12) BY <1>1, TextIs
<1>3. IsClose(text[cursor]) => cursor \in Closes
  BY <1>2, TextIs, Kinds DEF IsClose
<1>4. cursor \in Nat /\ end \in Nat /\ cursor <= end BY TextIs
<1> QED BY <1>1, <1>3, <1>4, Sizes DEF InSection, Closes

\* TypeOK, by what changes together.
FileOK ==
  /\ tags \in TagLists /\ text = TextOf(tags, SectionEnds) /\ known = KnownIn(tags)
  /\ latest \in 0..MaxVersion /\ whole \in BOOLEAN
ProcessOK ==
  /\ phase \in {"off", "starting", "polling", "comparing", "applying"} /\ running \in BOOLEAN
ParserOK ==
  /\ buf \in [version : 0..MaxVersion, len : 0..Len(text), part : BOOLEAN]
  /\ section \in 0..3 /\ cursor \in 0..end /\ end \in 0..buf.len
ModelOK == data \in [Positions -> 0..MaxVersion] /\ visible \in [Positions -> 0..MaxVersion]
WarningsOK ==
  /\ warned \subseteq {tags[i] : i \in Positions} /\ printed \in [Positions -> 0..PrintCap]
ResultOK ==
  /\ last \in {0, CutStamp, TagStamp} \cup {StampOf(v) : v \in 1..latest}
  /\ outcome \in {"none", "applied", "failed", "skipped"}

LEMMA TypeParts ==
  TypeOK <=> FileOK /\ ProcessOK /\ ParserOK /\ ModelOK /\ WarningsOK /\ ResultOK
BY DEF TypeOK, FileOK, ProcessOK, ParserOK, ModelOK, WarningsOK, ResultOK

LEMMA TypePartsNext ==
  TypeOK' <=> FileOK' /\ ProcessOK' /\ ParserOK' /\ ModelOK' /\ WarningsOK' /\ ResultOK'
BY DEF TypeOK, FileOK, ProcessOK, ParserOK, ModelOK, WarningsOK, ResultOK

LEMMA Same ==
  ASSUME TypeOK
  PROVE  /\ UNCHANGED file => FileOK'
         /\ UNCHANGED <<phase, running>> => ProcessOK'
         /\ UNCHANGED <<file, parser>> => ParserOK'
         /\ UNCHANGED model => ModelOK'
         /\ UNCHANGED <<file, warnings>> => WarningsOK'
         /\ UNCHANGED <<file, last, outcome>> => ResultOK'
<1>1. UNCHANGED file => FileOK'
  BY TypeParts DEF FileOK, file
<1>2. UNCHANGED <<phase, running>> => ProcessOK' BY TypeParts DEF ProcessOK
<1>3. UNCHANGED <<file, parser>> => ParserOK' BY TypeParts DEF ParserOK, file, parser
<1>4. UNCHANGED model => ModelOK' BY TypeParts DEF ModelOK, model
<1>5. UNCHANGED <<file, warnings>> => WarningsOK' BY TypeParts DEF WarningsOK, file, warnings
<1>6. UNCHANGED <<file, last, outcome>> => ResultOK' BY TypeParts DEF ResultOK, file
<1> QED BY <1>1, <1>2, <1>3, <1>4, <1>5, <1>6

LEMMA DefaultIs ==
  /\ Default \in [Positions -> 0..MaxVersion] /\ Default \in [Positions -> 0..PrintCap]
  /\ \A i \in Positions : Default[i] = 0
BY Sizes DEF Default

LEMMA EmptyIs ==
  ASSUME NEW n, n \in Nat
  PROVE  /\ Empty \in [version : 0..MaxVersion, len : 0..n, part : BOOLEAN]
         /\ Empty.version = 0 /\ Empty.len = 0
BY Sizes DEF Empty

LEMMA TypeInit == Init => TypeOK /\ BufferInv
<1> SUFFICES ASSUME Init PROVE TypeOK /\ BufferInv
  OBVIOUS
<1>1. Layout(text, tags) BY TextLayout DEF Init
<1>2. Len(text) \in Nat BY <1>1, Sizes DEF Layout
<1>3. FileOK
  <2>1. latest \in 0..MaxVersion BY Sizes DEF Init
  <2>2. /\ tags \in TagLists /\ text = TextOf(tags, SectionEnds) /\ known = KnownIn(tags)
        /\ whole \in BOOLEAN
    BY Zenon DEF Init
  <2> QED BY <2>1, <2>2, Zenon DEF FileOK
<1>4. ProcessOK BY DEF Init, ProcessOK
<1>5. ParserOK BY <1>2, EmptyIs DEF Init, ParserOK
<1>6. ModelOK /\ WarningsOK BY DefaultIs DEF Init, ModelOK, WarningsOK
<1>7. ResultOK BY DEF Init, ResultOK
<1>8. BufferInv BY DefaultIs, <1>2, EmptyIs DEF Init, BufferInv
<1> QED BY <1>3, <1>4, <1>5, <1>6, <1>7, <1>8, TypeParts

\* The process ends.
LEMMA GoneKeeps ==
  ASSUME TypeOK, Gone
  PROVE  TypeOK' /\ BufferInv'
<1>1. Len(text') \in Nat /\ text' = text BY TextIs, Sizes DEF Gone, file
<1>2. FileOK' BY Same DEF Gone
<1>3. ProcessOK' BY DEF Gone, ProcessOK
<1>4. ParserOK' BY <1>1, EmptyIs DEF Gone, ParserOK
<1>5. ModelOK' /\ WarningsOK' BY DefaultIs DEF Gone, ModelOK, WarningsOK
<1>6. ResultOK' BY DEF Gone, ResultOK
<1>7. BufferInv'
  <2>1. latest' = latest /\ latest \in Nat BY TextIs DEF Gone, file
  <2> QED BY <2>1, <1>1, DefaultIs, EmptyIs DEF Gone, BufferInv
<1> QED BY <1>2, <1>3, <1>4, <1>5, <1>6, <1>7, TypePartsNext

LEMMA TypeStep ==
  ASSUME TypeOK, BufferInv, PassInv, [Next]_vars
  PROVE  TypeOK' /\ BufferInv'
<1> USE TypePartsNext
<1>0. /\ buf.version \in Nat /\ buf.len \in Nat /\ latest \in Nat /\ MaxVersion \in Nat
      /\ cursor \in Nat /\ end \in Nat
      /\ data \in [Positions -> 0..MaxVersion] /\ visible \in [Positions -> 0..MaxVersion]
      /\ \A i \in Positions : data[i] \in Nat /\ visible[i] \in Nat
  BY TextIs, Sizes DEF TypeOK
<1>1. CASE BeginWrite
  <2>1. FileOK'
    <3>1. latest' \in 0..MaxVersion BY <1>0, <1>1 DEF BeginWrite
    <3>0. whole' \in BOOLEAN BY <1>1, Zenon DEF BeginWrite
    <3>2. FileOK /\ tags' = tags /\ text' = text /\ known' = known
      BY <1>1, TypeParts DEF BeginWrite
    <3> QED BY <3>0, <3>1, <3>2, Zenon DEF FileOK
  <2>2. ProcessOK' /\ ModelOK' BY <1>1, Same DEF BeginWrite
  <2>3. ParserOK' BY <1>1, TypeParts DEF BeginWrite, ParserOK, parser
  <2>4. WarningsOK' BY <1>1, TypeParts DEF BeginWrite, WarningsOK, context, warnings
  <2>5. ResultOK'
    <3>1. 1..latest \subseteq 1..latest' BY <1>0, <1>1 DEF BeginWrite
    <3> QED BY <1>1, <3>1, TypeParts DEF BeginWrite, ResultOK, context
  <2>6. BufferInv' BY <1>0, <1>1 DEF BeginWrite, BufferInv, parser, model
  <2> QED BY <2>1, <2>2, <2>3, <2>4, <2>5, <2>6
<1>2. CASE FinishWrite
  <2>1. FileOK' BY <1>2, TypeParts DEF FinishWrite, FileOK
  <2>2. ProcessOK' /\ ModelOK' BY <1>2, Same DEF FinishWrite
  <2>3. ParserOK' BY <1>2, TypeParts DEF FinishWrite, ParserOK, parser
  <2>4. WarningsOK' BY <1>2, TypeParts DEF FinishWrite, WarningsOK, context, warnings
  <2>5. ResultOK' BY <1>2, TypeParts DEF FinishWrite, ResultOK, context
  <2>6. BufferInv' BY <1>2 DEF FinishWrite, BufferInv, parser, model
  <2> QED BY <2>1, <2>2, <2>3, <2>4, <2>5, <2>6
<1>3. ASSUME UNCHANGED <<file, parser, model, context>>,
             Spawn \/ Signal \/ Listen
      PROVE  TypeOK' /\ BufferInv'
  <2>1. FileOK' /\ ParserOK' /\ ModelOK' BY <1>3, Same
  <2>2. WarningsOK' /\ ResultOK' BY <1>3, Same DEF context
  <2>3. ProcessOK' BY <1>3, TypeParts DEF Spawn, Signal, Listen, ProcessOK
  <2>4. BufferInv'
    BY <1>3 DEF Spawn, Signal, Listen, BufferInv, file, parser, model
  <2> QED BY <2>1, <2>2, <2>3, <2>4
<1>4. CASE Read
  <2>1. FileOK' BY <1>4, Same DEF Read
  <2>2. ProcessOK' BY <1>4, TypeParts DEF Read, ProcessOK
  <2>3. PICK n \in 0..Len(text), part \in BOOLEAN : buf' = [version |-> latest, len |-> n, part |-> part]
    BY <1>4 DEF Read
  <2>4. buf'.version = latest /\ buf'.len = n BY <2>3
  <2>5. ParserOK'
    <3>1. text' = text BY <1>4 DEF Read, file
    <3>2. latest \in 0..MaxVersion BY DEF TypeOK
    <3>3. buf' \in [version : 0..MaxVersion, len : 0..Len(text), part : BOOLEAN]
      BY <2>3, <3>2
    <3>4. n \in Nat BY <2>3, TextIs, Sizes
    <3> QED BY <1>4, <2>4, <3>1, <3>3, <3>4 DEF Read, ParserOK
  <2>6. ModelOK' /\ WarningsOK' /\ ResultOK' BY <1>4, Same DEF Read, context
  <2>7. BufferInv'
    <3>1. latest' = latest /\ data' = data /\ visible' = visible /\ latest >= 1
      BY <1>0, <1>4 DEF Read, file, model
    <3>2. \A i \in Positions : data[i] <= latest /\ visible[i] <= latest
      BY <1>0 DEF BufferInv
    <3> QED BY <1>0, <1>4, <2>4, <3>1, <3>2 DEF Read, BufferInv
  <2> QED BY <2>1, <2>2, <2>5, <2>6, <2>7
<1>5. CASE PassOver
  <2>1. FileOK' /\ ParserOK' /\ ModelOK' /\ WarningsOK' BY <1>5, Same DEF PassOver
  <2>2. ProcessOK' BY <1>5, TypeParts DEF PassOver, ProcessOK
  <2>3. ResultOK' BY <1>5, TypeParts DEF PassOver, ResultOK, file
  <2>4. BufferInv' BY <1>5 DEF PassOver, BufferInv, file, parser, model
  <2> QED BY <2>1, <2>2, <2>3, <2>4
<1>6. CASE LockModel
  <2>1. FileOK' /\ ModelOK' /\ WarningsOK' /\ ResultOK' BY <1>6, Same DEF LockModel, context
  <2>2. ProcessOK' BY <1>6, TypeParts DEF LockModel, ProcessOK
  <2>3. ParserOK' BY <1>6, TypeParts DEF LockModel, ParserOK, file
  <2>4. BufferInv' BY <1>6 DEF LockModel, BufferInv, file, model
  <2> QED BY <2>1, <2>2, <2>3, <2>4
<1>7. CASE EnterSection
  <2>1. FileOK' /\ ProcessOK' /\ ModelOK' /\ WarningsOK' /\ ResultOK'
    BY <1>7, Same DEF EnterSection, context
  <2>2. PICK b \in Bound : ~b.inString /\ cursor' = b.begin /\ end' = b.end
    BY <1>7 DEF EnterSection
  <2>3. section \in 1..3 BY <1>7 DEF EnterSection, PassInv
  <2>4. Found(section, b, buf.len) BY <2>2, <2>3, EnteredAt
  <2>5. cursor' \in 0..end' /\ end' \in 0..buf.len
    BY <1>0, <2>2, <2>4, Sizes DEF Found
  <2>6. ParserOK' BY <1>7, <2>5, TypeParts DEF EnterSection, ParserOK, file
  <2>7. BufferInv' BY <1>7 DEF EnterSection, BufferInv, file, model
  <2> QED BY <2>1, <2>6, <2>7
<1>8. CASE UpdateAttribute
  <2>1. FileOK' /\ ProcessOK' /\ WarningsOK' /\ ResultOK'
    BY <1>8, Same DEF UpdateAttribute, context
  <2>2. cursor < end BY <1>8 DEF UpdateAttribute, AtEntry
  <2>3. ParserOK' BY <1>0, <1>8, <2>2, TypeParts DEF UpdateAttribute, ParserOK, file
  <2>4. data' = [data EXCEPT ![Here.pos] = buf.version] /\ visible' = visible
        /\ buf' = buf /\ latest' = latest /\ phase' = "applying"
    BY <1>8 DEF UpdateAttribute, AtEntry, file
  <2>5. ModelOK' BY <2>4, TypeParts DEF ModelOK, ParserOK
  <2>6. BufferInv' BY <1>0, <1>8, <2>4 DEF BufferInv, UpdateAttribute, AtEntry
  <2> QED BY <2>1, <2>3, <2>5, <2>6
<1>9. CASE SkipUnknown
  <2>1. FileOK' /\ ProcessOK' /\ ModelOK' /\ ResultOK' BY <1>9, Same DEF SkipUnknown
  <2>2. cursor < end BY <1>9 DEF SkipUnknown, AtEntry
  <2>3. ParserOK' BY <1>0, <1>9, <2>2, TypeParts DEF SkipUnknown, ParserOK, file
  <2>4. WarningsOK'
    <3>1. CASE UNCHANGED warnings BY <1>9, <3>1, Same DEF SkipUnknown
    <3>2. CASE ~UNCHANGED warnings
      <4>1. /\ warned' \subseteq warned \cup {Here.name}
            /\ printed' = [printed EXCEPT ![Here.pos] = IF @ < PrintCap THEN @ + 1 ELSE @]
        BY <1>9, <3>2 DEF SkipUnknown, WarnOnce, Warn
      <4>2. PICK q \in Positions : IsHere(q) BY <1>9, HereIs DEF SkipUnknown
      <4>3. Here.name \in {tags[i] : i \in Positions} BY <4>2 DEF IsHere
      <4>4. printed' \in [Positions -> 0..PrintCap]
        <5>1. printed \in [Positions -> 0..PrintCap] BY TypeParts DEF WarningsOK
        <5>2. Here.pos = q BY <4>2 DEF IsHere
        <5>3. (IF printed[q] < PrintCap THEN printed[q] + 1 ELSE printed[q]) \in 0..PrintCap
          BY <5>1, Sizes
        <5> QED BY <4>1, <5>1, <5>2, <5>3
      <4>5. tags' = tags BY <1>9 DEF SkipUnknown, file
      <4> QED BY <4>1, <4>3, <4>4, <4>5, TypeParts DEF WarningsOK
    <3> QED BY <3>1, <3>2
  <2>5. BufferInv' BY <1>9 DEF SkipUnknown, AtEntry, BufferInv, file, model
  <2> QED BY <2>1, <2>3, <2>4, <2>5
<1>10. CASE FailPass
  <2>1. FileOK' /\ ParserOK' /\ WarningsOK' BY <1>10, Same DEF FailPass
  <2>2. ProcessOK' BY <1>10, TypeParts DEF FailPass, ProcessOK
  <2>3. ModelOK' BY <1>10, TypeParts DEF FailPass, ModelOK
  <2>4. ResultOK' BY <1>10, TypeParts DEF FailPass, ResultOK, file
  <2>5. BufferInv' BY <1>10 DEF FailPass, BufferInv, file, parser
  <2> QED BY <2>1, <2>2, <2>3, <2>4, <2>5
<1>11. CASE NextSection
  <2>1. FileOK' /\ ProcessOK' /\ ModelOK' /\ WarningsOK' /\ ResultOK'
    BY <1>11, Same DEF NextSection, context
  <2>2. ParserOK' BY <1>0, <1>11, TypeParts DEF NextSection, ParserOK, file
  <2>3. BufferInv' BY <1>11 DEF NextSection, AtEnd, BufferInv, file, model
  <2> QED BY <2>1, <2>2, <2>3
<1>12. CASE EndPass
  <2>1. FileOK' /\ ParserOK' /\ WarningsOK' BY <1>12, Same DEF EndPass
  <2>2. ProcessOK' BY <1>12, TypeParts DEF EndPass, ProcessOK
  <2>3. ModelOK' BY <1>12, TypeParts DEF EndPass, ModelOK
  <2>4. buf.version \in 1..latest
    BY <1>0, <1>12 DEF EndPass, AtEnd, BufferInv
  <2>5. last' \in {last, TagStamp, CutStamp, StampOf(buf.version)}
    BY <1>12, StampInForm DEF EndPass
  <2>6. StampOf(buf.version) \in {StampOf(v) : v \in 1..latest} BY <2>4
  <2>7. ResultOK' BY <1>12, <2>5, <2>6, TypeParts DEF EndPass, ResultOK, file
  <2>8. BufferInv' BY <1>12 DEF EndPass, BufferInv, file, parser
  <2> QED BY <2>1, <2>2, <2>3, <2>7, <2>8
<1>13. CASE Gone BY <1>13, GoneKeeps
<1>14. CASE UNCHANGED vars
  <2>1. FileOK' /\ ProcessOK' /\ ParserOK' /\ ModelOK' /\ WarningsOK' /\ ResultOK'
    BY <1>14, Same DEF vars, context
  <2>2. BufferInv' BY <1>14 DEF vars, BufferInv, file, parser, model
  <2> QED BY <2>1, <2>2
<1> QED
  BY <1>1, <1>2, <1>3, <1>4, <1>5, <1>6, <1>7, <1>8, <1>9, <1>10, <1>11, <1>12, <1>13, <1>14
     DEF Next, Loop, Spawn, Signal, Listen, Kill, BindFails, Leave

-----------------------------------------------------------------------------
(* How far a pass has come.                                                *)

\* A value that is accepted is one of the section the pass is in.
LEMMA AcceptedHere ==
  ASSUME TypeOK, PassInv, AtEntry, NEW q, IsHere(q)
  PROVE  Accepts(SectionNames[section], Here.section) <=> Sec(q) = section
<1>1. section \in 1..3 BY DEF PassInv, AtEntry
<1> QED BY <1>1 DEF IsHere, Accepts, SectionNames

\* One entry further.
LEMMA OneFurther ==
  ASSUME TypeOK, PassInv, AtEntry, NEW q \in Positions, IsHere(q),
         section' = section, cursor' = cursor + 1, end' = end
  PROVE  /\ InSection'
         /\ \A p \in Positions : Done(p)' <=> Done(p) \/ (p = q /\ Sec(q) = section)
<1>1. cursor \in Nat /\ cursor # 0 /\ cursor = At(q) /\ section \in 1..3 /\ InSection
      /\ (Sec(q) = section \/ (section = 3 /\ Sec(q) = 2))
  BY TextIs DEF IsHere, PassInv, AtEntry
<1>2. InSection'
  BY <1>1, Sizes DEF InSection, At, Sec, Positions
<1>3. ASSUME NEW p \in Positions
      PROVE  Done(p)' <=> Done(p) \/ (p = q /\ Sec(q) = section)
  <2>1. Done(p)' <=> Sec(p) < section \/ (Sec(p) = section /\ cursor + 1 # 0 /\ At(p) < cursor + 1)
    BY DEF Done
  <2>2. At(p) \in Nat /\ At(q) \in Nat BY Sizes DEF At, Positions
  <2>3. At(p) = At(q) => p = q BY Sizes DEF At, Positions
  <2>4. Sec(p) = section => (At(p) < cursor + 1 <=> At(p) < cursor \/ (p = q /\ Sec(q) = section))
    BY <1>1, <2>2, <2>3
  <2> QED BY <1>1, <2>1, <2>2, <2>4 DEF Done
<1> QED BY <1>2, <1>3

LEMMA PassInit == Init => PassInv
BY DEF Init, PassInv

LEMMA PassStep ==
  ASSUME TypeOK, BufferInv, PassInv, [Next]_vars
  PROVE  PassInv'
<1>0. /\ data \in [Positions -> 0..MaxVersion] /\ visible \in [Positions -> 0..MaxVersion]
      /\ known \subseteq Positions /\ cursor \in Nat
  BY TextIs DEF TypeOK
<1>1. ASSUME UNCHANGED <<known, phase, parser, model>>
      PROVE  PassInv'
  <2>1. /\ known' = known /\ phase' = phase /\ data' = data /\ visible' = visible
        /\ section' = section /\ cursor' = cursor /\ end' = end /\ buf' = buf
    BY <1>1 DEF parser, model
  <2>2. InSection' <=> InSection BY <2>1 DEF InSection
  <2>3. \A p \in Positions : Done(p)' <=> Done(p) BY <2>1 DEF Done
  <2> QED BY <2>1, <2>2, <2>3 DEF PassInv
<1>2. ASSUME UNCHANGED model, phase # "applying", phase' # "applying"
      PROVE  PassInv'
  BY <1>2 DEF PassInv, model
<1>3. ASSUME visible' = data, data' = data, phase' # "applying"
      PROVE  PassInv'
  BY <1>3 DEF PassInv
<1>4. CASE LockModel
  <2>1. /\ data' = data /\ visible' = visible /\ data = visible
        /\ section' = 1 /\ cursor' = 0 /\ phase' = "applying"
    BY <1>4 DEF LockModel, BufferInv, PassInv, model
  <2>2. \A p \in Positions : ~Done(p)' BY <2>1 DEF Done, Sec
  <2> QED BY <2>1, <2>2 DEF PassInv, InSection
<1>5. CASE EnterSection
  <2>1. PICK b \in Bound : ~b.inString /\ cursor' = b.begin /\ end' = b.end
    BY <1>5 DEF EnterSection
  <2>2. /\ section \in 1..3 /\ cursor = 0 /\ section' = section /\ phase' = "applying"
        /\ buf' = buf /\ data' = data /\ visible' = visible /\ known' = known
        /\ \A p \in Positions :
             data[p] = IF p \in known /\ Done(p) THEN buf.version ELSE visible[p]
    BY <1>5 DEF EnterSection, PassInv, model, file
  <2>3. Found(section, b, buf.len) BY <2>1, <2>2, EnteredAt
  <2>4. InSection' BY <2>1, <2>2, <2>3, Sizes DEF Found, InSection
  <2>5. ASSUME NEW p \in Positions PROVE Done(p)' <=> Done(p)
    <3>1. Done(p) <=> Sec(p) < section BY <2>2 DEF Done
    <3>2. Done(p)' <=> Sec(p) < section \/ (Sec(p) = section /\ b.begin # 0 /\ At(p) < b.begin)
      BY <2>1, <2>2 DEF Done
    <3>3. Sec(p) = section => ~(At(p) < b.begin)
      BY <2>2, <2>3, Sizes DEF Found, Sec, At, Positions
    <3> QED BY <3>1, <3>2, <3>3
  <2> QED BY <2>2, <2>4, <2>5 DEF PassInv
<1>6. CASE UpdateAttribute
  <2>1. PICK q \in Positions : IsHere(q) BY <1>6, HereIs DEF UpdateAttribute
  <2>2. q \in known /\ Sec(q) = section
    BY <1>6, <2>1, AcceptedHere DEF UpdateAttribute, IsHere, Known
  <2>3. /\ section \in 1..3 /\ section' = section /\ cursor' = cursor + 1 /\ end' = end
        /\ phase' = "applying" /\ buf' = buf /\ visible' = visible /\ known' = known
        /\ data' = [data EXCEPT ![q] = buf.version]
        /\ \A p \in Positions :
             data[p] = IF p \in known /\ Done(p) THEN buf.version ELSE visible[p]
    BY <1>6, <2>1 DEF UpdateAttribute, AtEntry, IsHere, PassInv, file
  <2>4. InSection' /\ \A p \in Positions : Done(p)' <=> Done(p) \/ p = q
    BY <1>6, <2>1, <2>2, <2>3, OneFurther DEF UpdateAttribute
  <2>5. \A p \in Positions : data'[p] = IF p = q THEN buf.version ELSE data[p]
    BY <1>0, <2>3
  <2> QED BY <2>2, <2>3, <2>4, <2>5 DEF PassInv
<1>7. CASE SkipUnknown
  <2>1. PICK q \in Positions : IsHere(q) BY <1>7, HereIs DEF SkipUnknown
  <2>2. q \notin known BY <1>7, <2>1 DEF SkipUnknown, IsHere, Known
  <2>3. /\ section \in 1..3 /\ section' = section /\ cursor' = cursor + 1 /\ end' = end
        /\ phase' = "applying" /\ buf' = buf /\ visible' = visible /\ known' = known
        /\ data' = data
        /\ \A p \in Positions :
             data[p] = IF p \in known /\ Done(p) THEN buf.version ELSE visible[p]
    BY <1>7 DEF SkipUnknown, AtEntry, PassInv, file, model
  <2>4. InSection' /\ \A p \in Positions : p # q => (Done(p)' <=> Done(p))
    BY <1>7, <2>1, <2>3, OneFurther DEF SkipUnknown
  <2> QED BY <2>2, <2>3, <2>4 DEF PassInv
<1>8. CASE NextSection
  <2>1. (section = 1 /\ cursor = LastAnalog + 4) \/ (section = 2 /\ cursor = LastBool + 7)
    BY <1>8, EndIs, Sizes DEF NextSection
  <2>2. /\ section' = section + 1 /\ cursor' = 0 /\ phase' = "applying"
        /\ buf' = buf /\ visible' = visible /\ known' = known /\ data' = data
        /\ \A p \in Positions :
             data[p] = IF p \in known /\ Done(p) THEN buf.version ELSE visible[p]
    BY <1>8 DEF NextSection, AtEnd, PassInv, file, model
  <2>3. ASSUME NEW p \in Positions PROVE Done(p)' <=> Done(p)
    <3>1. Done(p)' <=> Sec(p) < section + 1 BY <2>2 DEF Done
    <3>2. Sec(p) = section => At(p) < cursor
      BY <2>1, Sizes DEF At, Sec, Positions
    <3>3. Sec(p) \in 1..3 /\ cursor # 0 BY <2>1, Apart, Sizes
    <3> QED BY <2>1, <3>1, <3>2, <3>3 DEF Done
  <2>4. InSection' /\ section' \in 1..3 BY <2>1, <2>2 DEF InSection
  <2> QED BY <2>2, <2>3, <2>4 DEF PassInv
<1>9. CASE Gone BY <1>9 DEF Gone, PassInv
<1>10. BeginWrite \/ FinishWrite \/ Signal \/ UNCHANGED vars => PassInv'
  BY <1>1 DEF BeginWrite, FinishWrite, Signal, vars, file
<1>11. Spawn \/ Listen \/ Read \/ PassOver => PassInv'
  BY <1>2 DEF Spawn, Listen, Read, PassOver
<1>12. FailPass \/ EndPass => PassInv'
  BY <1>3 DEF FailPass, EndPass
<1> QED
  BY <1>4, <1>5, <1>6, <1>7, <1>8, <1>9, <1>10, <1>11, <1>12
     DEF Next, Loop, Kill, BindFails, Leave

-----------------------------------------------------------------------------
(* Warnings.                                                               *)

LEMMA WarnInit == Init => WarnInv
BY DefaultIs, FS_EmptySet, Sizes DEF Init, WarnInv, WarnedOnce

LEMMA WarnStep ==
  ASSUME TypeOK, PassInv, WarnInv, [Next]_vars
  PROVE  WarnInv'
<1>1. ASSUME UNCHANGED <<tags, warnings>>
      PROVE  WarnInv'
  BY <1>1 DEF WarnInv, WarnedOnce, warnings
<1>2. ASSUME UNCHANGED tags, AtEntry, WarnOnce, ~UNCHANGED warnings
      PROVE  WarnInv'
  <2>1. PICK q \in Positions : IsHere(q) BY <1>2, HereIs
  <2>2. /\ tags[q] \notin warned
        /\ warned' = IF Cardinality(warned) < WarnSlots THEN warned \cup {tags[q]} ELSE warned
        /\ printed' = [printed EXCEPT ![q] = IF @ < PrintCap THEN @ + 1 ELSE @]
    BY <1>2, <2>1 DEF WarnOnce, Warn, IsHere
  <2>3. printed \in [Positions -> 0..PrintCap] BY DEF TypeOK
  <2>4. \A p \in Positions : p # q => printed'[p] = printed[p] BY <2>2, <2>3
  <2>5. printed'[q] <= printed[q] + 1 BY <2>2, <2>3, Sizes
  <2>6. Cardinality(warned) \in Nat BY FS_CardinalityType DEF WarnInv
  <2>7. CASE Cardinality(warned) = WarnSlots
    <3>1. warned' = warned BY <2>2, <2>7, Sizes
    <3>2. \A p \in Positions : printed'[p] > 1 => tags[p] \notin warned
      BY <2>2, <2>4 DEF WarnInv, WarnedOnce
    <3> QED BY <1>2, <2>7, <3>1, <3>2 DEF WarnInv, WarnedOnce
  <2>8. CASE Cardinality(warned) < WarnSlots
    <3>1. warned' = warned \cup {tags[q]} BY <2>2, <2>8
    <3>2. IsFiniteSet(warned') /\ Cardinality(warned') <= WarnSlots
      <4>1. IsFiniteSet(warned) BY DEF WarnInv
      <4>2. IsFiniteSet(warned \cup {tags[q]})
            /\ Cardinality(warned \cup {tags[q]}) = Cardinality(warned) + 1
        BY <2>2, <4>1, FS_AddElement
      <4> QED BY <2>6, <2>8, <3>1, <4>2, Sizes
    <3>3. \A p \in Positions : printed[p] <= 1
      BY <2>3, <2>6, <2>8, Sizes DEF WarnInv, WarnedOnce
    <3>4. printed[q] = 0
      <4>1. ~(printed[q] >= 1) BY <2>2, <2>6, <2>8, Sizes DEF WarnInv
      <4> QED BY <2>3, <4>1
    <3>5. \A p \in Positions : ~(printed'[p] > 1)
      <4>1. printed'[q] <= 1 /\ ~(printed'[q] > 1) BY <2>2, <2>3, <3>4, Sizes
      <4>2. \A p \in Positions : printed[p] \in Nat BY <2>3
      <4> QED BY <2>4, <3>3, <4>1, <4>2
    <3>6. \A p \in Positions : printed'[p] >= 1 => tags[p] \in warned'
      <4>1. \A p \in Positions : p # q /\ printed[p] >= 1 => tags[p] \in warned
        BY <2>6, <2>8, Sizes DEF WarnInv
      <4> QED BY <2>4, <3>1, <4>1
    <3> QED BY <1>2, <3>2, <3>5, <3>6 DEF WarnInv, WarnedOnce
  <2> QED BY <2>6, <2>7, <2>8, Sizes DEF WarnInv
<1>3. SkipUnknown => WarnInv' BY <1>1, <1>2 DEF SkipUnknown, file
<1>4. CASE Gone
  BY <1>4, DefaultIs, FS_EmptySet, Sizes DEF Gone, WarnInv, WarnedOnce
<1>5. ~SkipUnknown /\ ~Gone => UNCHANGED <<tags, warnings>>
  BY DEF Next, Loop, Kill, BindFails, Leave, BeginWrite, FinishWrite, Spawn, Signal, Listen,
         Read, PassOver, LockModel, EnterSection, UpdateAttribute, FailPass, NextSection,
         EndPass, vars, file, context
<1> QED BY <1>1, <1>3, <1>4, <1>5

-----------------------------------------------------------------------------

LEMMA IInvHolds == Spec => []IInv
<1>1. Init => IInv BY TypeInit, PassInit, WarnInit DEF IInv
<1>2. IInv /\ [Next]_vars => IInv' BY TypeStep, PassStep, WarnStep DEF IInv
<1> QED BY <1>1, <1>2, PTL DEF Spec

\* The parser of ied_mms_server.c stays inside what it has read: whatever the tags are
\* and wherever the file is cut, its cursor does not pass the end of the section it
\* is in, nor that the end of the buffer; and it updates attributes of the row's tags
\* only, to versions the launcher wrote.
THEOREM TypeCorrect == Spec => []TypeOK
<1>1. IInv => TypeOK BY DEF IInv
<1> QED BY <1>1, IInvHolds, PTL

\* warn_missing_tag_once: for a table of any size, and a row with the same tag twice,
\* a tag is warned about again only when the table is full without it.
THEOREM WarnedOnceHolds == Spec => []WarnedOnce
<1>1. IInv => WarnedOnce BY DEF IInv, WarnInv
<1> QED BY <1>1, IInvHolds, PTL

-----------------------------------------------------------------------------
(* The promise.                                                            *)

\* What a pass leaves: a version for all known tags of the sections up to D.
Delivered(D) ==
  \A p \in Positions :
    data[p] = IF p \in known /\ p <= D THEN buf.version ELSE visible[p]

LEMMA Delivery ==
  ASSUME TypeOK, PassInv, FailPass \/ EndPass
  PROVE  \E D \in {0, LastAnalog, LastBool, N} : Delivered(D)
<1>1. /\ section \in 1..3
      /\ \A p \in Positions :
           data[p] = IF p \in known /\ Done(p) THEN buf.version ELSE visible[p]
  BY DEF FailPass, EndPass, AtEntry, AtEnd, PassInv
<1>2. ASSUME \A p \in Positions : Done(p) <=> Sec(p) < section
      PROVE  \E D \in {0, LastAnalog, LastBool, N} : Delivered(D)
  <2>1. CASE section = 1
    <3>1. \A p \in Positions : Done(p) <=> p <= 0
      BY <1>2, <2>1, Sizes DEF Sec, Positions
    <3> QED BY <1>1, <3>1 DEF Delivered
  <2>2. CASE section = 2
    <3>1. \A p \in Positions : Done(p) <=> p <= LastAnalog
      BY <1>2, <2>2, Sizes DEF Sec, Positions
    <3> QED BY <1>1, <3>1 DEF Delivered
  <2>3. CASE section = 3
    <3>1. \A p \in Positions : Done(p) <=> p <= LastBool
      BY <1>2, <2>3, Sizes DEF Sec, Positions
    <3> QED BY <1>1, <3>1 DEF Delivered
  <2> QED BY <1>1, <2>1, <2>2, <2>3
<1>3. CASE cursor = 0
  BY <1>2, <1>3 DEF Done
<1>4. CASE AtEntry /\ ~Accepts(SectionNames[section], Here.section)
  <2>1. PICK q \in Positions : IsHere(q) BY <1>4, HereIs
  <2>2. section = 3 /\ Sec(q) = 2 /\ cursor = At(q)
    BY <1>4, <2>1, AcceptedHere DEF IsHere
  <2>3. \A p \in Positions : Sec(p) = 3 => ~(At(p) < cursor)
    BY <2>2, Sizes DEF Sec, At, Positions
  <2> QED BY <1>2, <2>2, <2>3 DEF Done
<1>5. CASE EndPass /\ cursor = LastBool + 7
  <2>1. section = 3 BY <1>5 DEF EndPass
  <2>2. \A p \in Positions : Sec(p) = 3 => ~(At(p) < cursor)
    BY <1>5, Sizes DEF Sec, At, Positions
  <2> QED BY <1>2, <2>1, <2>2 DEF Done
<1>6. CASE EndPass /\ cursor = N + 10
  <2>1. section = 3 BY <1>6 DEF EndPass
  <2>2. \A p \in Positions : Done(p) /\ p <= N
    BY <1>6, <2>1, Sizes DEF Done, Sec, At, Positions
  <2> QED BY <1>1, <2>2 DEF Delivered
<1>7. EndPass => cursor \in {LastBool + 7, N + 10}
  <2> SUFFICES ASSUME EndPass PROVE cursor \in {LastBool + 7, N + 10}
    OBVIOUS
  <2>1. AtEnd /\ section = 3 BY DEF EndPass
  <2> QED BY <2>1, EndIs
<1> QED BY <1>3, <1>4, <1>5, <1>6, <1>7 DEF FailPass

LEMMA Smallest ==
  ASSUME NEW S, S \subseteq Nat, S # {}
  PROVE  Min(S) \in S /\ \A n \in S : Min(S) <= n
<1>1. PICK m \in S : \A n \in S : ~(<<n, m>> \in OpToRel(<, Nat))
  BY NatLessThanWellFounded, WFMin
<1>2. \A n \in S : ~(n < m)
  <2>1. \A n \in S : n \in Nat /\ m \in Nat
    OBVIOUS
  <2> QED
    BY <1>1, <2>1 DEF OpToRel
<1>3. \A n \in S : m <= n
  <2> SUFFICES ASSUME NEW n \in S PROVE m <= n
    OBVIOUS
  <2>1. m \in Nat /\ n \in Nat
    OBVIOUS
  <2> QED BY <1>2, <2>1
<1> QED BY <1>3 DEF Min

LEMMA Largest ==
  ASSUME NEW S, S \subseteq Positions, S # {}
  PROVE  Max(S) \in S /\ \A n \in S : n <= Max(S)
<1> DEFINE T == {N - i : i \in S}
<1>0. N \in Nat /\ \A i \in S : i \in Nat /\ i <= N BY Sizes DEF Positions
<1>1. T \subseteq Nat /\ T # {} BY <1>0
<1>2. PICK i \in S : Min(T) = N - i BY <1>1, Smallest
<1>3. \A n \in S : Min(T) <= N - n BY <1>1, Smallest
<1>4. \A n \in S : i >= n BY <1>0, <1>2, <1>3
<1> QED BY <1>0, <1>4 DEF Max

\* Who stands for a tag.
LEMMA StandIs ==
  ASSUME known \subseteq Positions, NEW i \in Positions
  PROVE  /\ known = {} => Stand(i) = i
         /\ known # {} => Stand(i) \in known
         /\ \A k \in known : SectionEnd[k] = SectionEnd[i] => SectionEnd[Stand(i)] = SectionEnd[i]
         /\ (\A k \in known : SectionEnd[k] # SectionEnd[i]) =>
              /\ \A k \in known : k <= i => k <= Stand(i)
              /\ (\A k \in known : k > i) => \A k \in known : Stand(i) <= k
<1> DEFINE mine == {j \in known : SectionEnd[j] = SectionEnd[i]}
           before == {j \in known : j <= i}
<1>0. known \subseteq Nat /\ Positions \subseteq Nat BY DEF Positions
<1>1. CASE mine # {}
  <2>1. Stand(i) = IF i \in known THEN i ELSE Min(mine) BY <1>1 DEF Stand
  <2>2. mine \subseteq Nat BY <1>0
  <2>3. Min(mine) \in mine BY <1>1, <2>2, Smallest
  <2>4. Stand(i) \in mine BY <2>1, <2>3
  <2> QED BY <1>1, <2>4
<1>2. CASE mine = {} /\ before # {}
  <2>1. Stand(i) = Max(before) BY <1>2 DEF Stand
  <2>2. before \subseteq Positions OBVIOUS
  <2>3. Max(before) \in before /\ \A n \in before : n <= Max(before)
    BY <1>2, <2>2, Largest
  <2>4. PICK k \in known : k <= i BY <1>2
  <2>5. k \in Nat /\ i \in Nat BY <1>0
  <2>6. ~(k > i) BY <2>4, <2>5
  <2>7. ~(\A x \in known : x > i) BY <2>4, <2>6
  <2>8. \A x \in known : SectionEnd[x] # SectionEnd[i] BY <1>2
  <2>9. \A x \in known : x <= i => x <= Stand(i) BY <2>1, <2>3
  <2>10. Stand(i) \in known BY <2>1, <2>3
  <2> QED BY <2>7, <2>8, <2>9, <2>10
<1>3. CASE mine = {} /\ before = {} /\ known # {}
  <2>1. Stand(i) = Min(known) BY <1>3 DEF Stand
  <2>2. Min(known) \in known /\ \A n \in known : Min(known) <= n
    BY <1>0, <1>3, Smallest
  <2> QED BY <1>0, <1>3, <2>1, <2>2
<1>4. CASE known = {}
  <2>1. Stand(i) = i BY <1>4 DEF Stand
  <2> QED BY <1>4, <2>1
<1> QED BY <1>1, <1>2, <1>3, <1>4

\* A section end, as the end of what is delivered.
LEMMA Ends ==
  ASSUME NEW D \in {0, LastAnalog, LastBool, N}, NEW i \in Positions
  PROVE  /\ SectionEnd[i] \in Nat /\ i <= SectionEnd[i]
         /\ i <= D <=> SectionEnd[i] <= D
         /\ \A j \in Positions : SectionEnd[j] < SectionEnd[i] => SectionEnd[j] < i
<1>1. SectionEnd[i] = IF i <= LastAnalog THEN LastAnalog
                      ELSE IF i <= LastBool THEN LastBool ELSE N
  BY SectionEndIs
<1>2. SectionEnd[i] \in Nat /\ i <= SectionEnd[i] /\ (i <= D <=> SectionEnd[i] <= D)
  BY <1>1, Sizes DEF Positions
<1>3. ASSUME NEW j \in Positions, SectionEnd[j] < SectionEnd[i] PROVE SectionEnd[j] < i
  <2>1. SectionEnd[j] = IF j <= LastAnalog THEN LastAnalog
                        ELSE IF j <= LastBool THEN LastBool ELSE N
    BY SectionEndIs
  <2> QED BY <1>1, <1>3, <2>1, Sizes DEF Positions
<1> QED BY <1>2, <1>3

\* What is delivered of the known tags is a number of sections of what stands for all.
LEMMA StandsLead ==
  ASSUME known \subseteq Positions, known # {}, NEW D \in {0, LastAnalog, LastBool, N},
         NEW i \in Positions, NEW j \in Positions, Stand(i) <= D, SectionEnd[j] <= SectionEnd[i]
  PROVE  Stand(j) <= D
<1> DEFINE k == Stand(j)
           m == Stand(i)
<1>0. k \in known /\ m \in known /\ k \in Positions /\ m \in Positions BY StandIs
<1>1. D \in Nat BY Sizes
<1>2. /\ k \in Nat /\ m \in Nat /\ i \in Nat /\ j \in Nat /\ SectionEnd[k] \in Nat
      /\ SectionEnd[m] \in Nat /\ SectionEnd[i] \in Nat /\ SectionEnd[j] \in Nat
  BY <1>0, Ends DEF Positions
<1> SUFFICES ASSUME ~(k <= D) PROVE FALSE
  OBVIOUS
<1>3. ~(SectionEnd[k] <= D) /\ SectionEnd[m] <= D BY <1>0, Ends
<1>4. CASE \E x \in known : SectionEnd[x] = SectionEnd[i]
  <2>1. SectionEnd[m] = SectionEnd[i] BY <1>4, StandIs
  <2>2. SectionEnd[j] <= D BY <1>1, <1>2, <1>3, <2>1
  <2>3. CASE \E x \in known : SectionEnd[x] = SectionEnd[j]
    <3>1. SectionEnd[k] = SectionEnd[j] BY <2>3, StandIs
    <3> QED BY <1>3, <2>2, <3>1
  <2>4. CASE \A x \in known : SectionEnd[x] # SectionEnd[j]
    <3>1. j <= D BY <2>2, Ends
    <3>2. CASE k <= j BY <1>1, <1>2, <3>1, <3>2
    <3>3. CASE ~(k <= j)
      <4>1. \A x \in known : x > j
        <5> SUFFICES ASSUME NEW x \in known, ~(x > j) PROVE FALSE
          OBVIOUS
        <5> DEFINE lower == {y \in known : y <= j}
        <5>1. x \in Nat /\ x <= j BY DEF Positions
        <5>2. Stand(j) = Max(lower) BY <2>4, <5>1 DEF Stand
        <5>3. lower # {} /\ lower \subseteq Positions BY <5>1
        <5>4. Max(lower) \in lower BY <5>3, Largest
        <5> QED BY <3>3, <5>2, <5>4
      <4>2. k <= m BY <1>0, <2>4, <4>1, StandIs
      <4> QED BY <1>1, <1>2, <4>2
    <3> QED BY <3>2, <3>3
  <2> QED BY <2>3, <2>4
<1>5. CASE \A x \in known : SectionEnd[x] # SectionEnd[i]
  <2>1. SectionEnd[k] # SectionEnd[i] /\ \A x \in known : x <= i => x <= m
    BY <1>0, <1>5, StandIs
  <2>2. CASE \E x \in known : SectionEnd[x] = SectionEnd[j]
    <3>1. SectionEnd[k] = SectionEnd[j] BY <2>2, StandIs
    <3>2. SectionEnd[k] < SectionEnd[i] BY <1>2, <2>1, <3>1
    <3>3. k <= i BY <1>0, <1>2, <3>2, Ends
    <3> QED BY <1>0, <1>1, <1>2, <2>1, <3>3
  <2>3. CASE \A x \in known : SectionEnd[x] # SectionEnd[j]
    <3>1. CASE \E x \in known : ~(x > j)
      <4> DEFINE lower == {y \in known : y <= j}
      <4>0. PICK x \in known : ~(x > j) BY <3>1
      <4>a. x \in Nat /\ j \in Nat BY DEF Positions
      <4>b. x <= j BY <4>0, <4>a
      <4>1. lower # {} /\ lower \subseteq Positions BY <4>b
      <4>2. Stand(j) = Max(lower) BY <2>3, <4>1 DEF Stand
      <4>3. Max(lower) \in lower BY <4>1, Largest
      <4>4. k <= j /\ SectionEnd[k] # SectionEnd[j] BY <1>0, <2>3, <4>2, <4>3
      <4>5. SectionEnd[k] <= SectionEnd[j]
        BY <1>0, <1>2, <4>4, Ends, SectionEndIs, Sizes
      <4>6. SectionEnd[k] < SectionEnd[i] BY <1>2, <4>4, <4>5
      <4>7. k <= i BY <1>0, <1>2, <4>6, Ends
      <4> QED BY <1>0, <1>1, <1>2, <2>1, <4>7
    <3>2. CASE \A x \in known : x > j
      <4>1. k <= m BY <1>0, <2>3, <3>2, StandIs
      <4> QED BY <1>1, <1>2, <4>1
    <3> QED BY <3>1, <3>2
  <2> QED BY <2>2, <2>3
<1> QED BY <1>4, <1>5

\* The sections of which a pass delivers something to the tags that stand for all.
Reached(D) == {i \in Positions : known # {} /\ Stand(i) <= D}

LEMMA PassDelivers ==
  ASSUME TypeOK, BufferInv, PassInv, FailPass \/ EndPass
  PROVE  \E v \in 1..latest, S \in SUBSET Promise!Tags : Promise!Deliver(v, S)
<1>1. PICK D \in {0, LastAnalog, LastBool, N} : Delivered(D) BY Delivery
<1>2. visible' = data /\ UNCHANGED <<tags, text, known, latest>>
  BY DEF FailPass, EndPass, file
<1>3. known \subseteq Positions BY TextIs
<1> DEFINE S == Reached(D)
           v == buf.version
<1>4. v \in 1..latest
  <2>1. phase = "applying" BY DEF FailPass, EndPass, AtEntry, AtEnd
  <2>2. v >= 1 /\ v <= latest BY <2>1 DEF BufferInv
  <2>3. v \in Nat /\ latest \in Nat BY TextIs
  <2> QED BY <2>2, <2>3
<1>5. Promise!Leading(S)
  <2> SUFFICES ASSUME NEW i \in S, NEW j \in Positions, SectionEnd[j] <= SectionEnd[i]
               PROVE  j \in S
    BY DEF Promise!Leading, Promise!Tags, Positions
  <2>1. i \in Positions /\ known # {} /\ Stand(i) <= D BY DEF Reached
  <2>2. Stand(j) <= D BY <1>3, <2>1, StandsLead
  <2> QED BY <2>1, <2>2 DEF Reached
<1>6. \A i \in Positions : known # {} => Stand(i) \in known /\ Stand(i) \in Positions
  BY <1>3, StandIs
<1>7. \A i \in Positions : Seen'[i] = data[Stand(i)]
  BY <1>2 DEF Seen, Stand
<1>8. \A i \in Positions : Seen[i] = visible[Stand(i)] BY DEF Seen
<1>9. ASSUME NEW i \in S PROVE Seen[i] <= v
  <2>1. i \in Positions /\ known # {} BY DEF Reached
  <2>2. Stand(i) \in Positions BY <1>6, <2>1
  <2> QED BY <1>8, <2>1, <2>2 DEF BufferInv
<1>10. ASSUME NEW i \in Positions PROVE Seen'[i] = IF i \in S THEN v ELSE Seen[i]
  <2>1. CASE known = {}
    <3>1. Stand(i) = i BY <1>3, <2>1, StandIs
    <3>2. data[i] = visible[i] BY <1>1, <2>1 DEF Delivered
    <3> QED BY <1>7, <1>8, <2>1, <3>1, <3>2 DEF Reached
  <2>2. CASE known # {}
    <3>1. PICK k : k = Stand(i) OBVIOUS
    <3>2. k \in known /\ k \in Positions BY <1>6, <2>2, <3>1
    <3>3. i \in S <=> k <= D BY <2>2, <3>1 DEF Reached
    <3>4. data[k] = IF k <= D THEN v ELSE visible[k] BY <1>1, <3>2 DEF Delivered
    <3> QED BY <1>7, <1>8, <3>1, <3>3, <3>4
  <2> QED BY <2>1, <2>2
<1>11. Seen' = [i \in Positions |-> IF i \in S THEN v ELSE Seen[i]]
  BY <1>10 DEF Seen
<1>12. Promise!Deliver(v, S)
  BY <1>2, <1>5, <1>9, <1>11 DEF Promise!Deliver, Promise!Tags, Positions
<1>13. S \in SUBSET Promise!Tags BY DEF Reached, Promise!Tags, Positions
<1> QED BY <1>4, <1>12, <1>13

LEMMA SeenKept == UNCHANGED <<known, visible>> => UNCHANGED Seen
BY DEF Seen, Stand

LEMMA DefaultSeen ==
  ASSUME known \subseteq Positions
  PROVE  visible = Default => Seen = [i \in Positions |-> 0]
<1>1. \A i \in Positions : Stand(i) \in Positions BY StandIs
<1> QED BY <1>1 DEF Seen, Default

LEMMA DefaultSeenNext ==
  ASSUME known \subseteq Positions, known' = known, visible' = Default
  PROVE  Seen' = [i \in Positions |-> 0]
<1>1. \A i \in Positions : Stand(i) \in Positions BY StandIs
<1>2. Seen' = [i \in Positions |-> visible'[Stand(i)]] BY DEF Seen, Stand
<1> QED BY <1>1, <1>2 DEF Default

LEMMA PromiseStep ==
  IInv /\ [Next]_vars => [Promise!Next]_(Promise!vars)
<1> SUFFICES ASSUME IInv, [Next]_vars
             PROVE  Promise!Next \/ UNCHANGED Promise!vars
  OBVIOUS
<1>0. TypeOK /\ BufferInv /\ PassInv /\ known \subseteq Positions BY TextIs DEF IInv
<1>1. CASE BeginWrite
  <2>1. latest < MaxVersion /\ latest' = latest + 1 /\ UNCHANGED <<known, visible>>
    BY <1>1 DEF BeginWrite, model
  <2>2. UNCHANGED Seen BY <2>1, SeenKept
  <2> QED BY <2>1, <2>2 DEF Promise!Next, Promise!Publish
<1>2. CASE FailPass \/ EndPass
  BY <1>0, <1>2, PassDelivers DEF Promise!Next
<1>3. CASE Gone
  <2>1. visible' = Default /\ known' = known /\ latest' = latest BY <1>3 DEF Gone, file
  <2>2. Seen' = [i \in Positions |-> 0] BY <1>0, <2>1, DefaultSeenNext
  <2> QED BY <2>1, <2>2 DEF Promise!Next, Promise!Restart, Promise!Tags, Positions
<1>4. CASE ~BeginWrite /\ ~FailPass /\ ~EndPass /\ ~Gone
  <2>1. UNCHANGED <<known, visible, latest>>
    BY <1>4 DEF Next, Loop, Kill, BindFails, Leave, FinishWrite, Spawn, Signal, Listen, Read,
                PassOver, LockModel, EnterSection, UpdateAttribute, SkipUnknown, NextSection,
                vars, file, model
  <2>2. UNCHANGED Seen BY <2>1, SeenKept
  <2> QED BY <2>1, <2>2 DEF Promise!vars
<1> QED BY <1>1, <1>2, <1>3, <1>4

\* Whatever the tags are, wherever a file is cut and whichever value or section ends
\* a pass, clients see versions section by section in the order of the file, each
\* tag from older to newer, until the process is started again.
THEOREM KeepsPromiseHolds == Spec => KeepsPromise
<1>1. Init => Promise!Init
  <2> SUFFICES ASSUME Init PROVE Promise!Init
    OBVIOUS
  <2>1. latest = 0 /\ visible = Default /\ known \subseteq Positions
    BY DEF Init, KnownIn
  <2>2. Seen = [i \in Positions |-> 0] BY <2>1, DefaultSeen
  <2> QED BY <2>1, <2>2 DEF Promise!Init, Promise!Tags, Positions
<1>2. IInv /\ [Next]_vars => [Promise!Next]_(Promise!vars) BY PromiseStep
<1> QED BY <1>1, <1>2, IInvHolds, PTL DEF Spec, KeepsPromise, Promise!Spec

-----------------------------------------------------------------------------
(* What is found in a whole text with an ordinary list.                    *)

LEMMA Two ==
  ASSUME NEW a, NEW b, a # b
  PROVE  IsFiniteSet({a, b}) /\ Cardinality({a, b}) = 2
<1>1. IsFiniteSet({a}) /\ Cardinality({a}) = 1 BY FS_Singleton
<1>2. {a, b} = {a} \cup {b} /\ b \notin {a} OBVIOUS
<1> QED BY <1>1, <1>2, FS_AddElement

LEMMA Three ==
  ASSUME NEW a, NEW b, NEW c, a # b, a # c, b # c
  PROVE  IsFiniteSet({a, b, c}) /\ Cardinality({a, b, c}) = 3
<1>1. IsFiniteSet({a, b}) /\ Cardinality({a, b}) = 2 BY Two
<1>2. {a, b, c} = {a, b} \cup {c} OBVIOUS
<1> QED BY <1>1, <1>2, FS_AddElement

LEMMA Four ==
  ASSUME NEW a, NEW b, NEW c, NEW d, a # b, a # c, a # d, b # c, b # d, c # d
  PROVE  IsFiniteSet({a, b, c, d}) /\ Cardinality({a, b, c, d}) = 4
<1>1. IsFiniteSet({a, b, c}) /\ Cardinality({a, b, c}) = 3 BY Three
<1>2. {a, b, c, d} = {a, b, c} \cup {d} OBVIOUS
<1> QED BY <1>1, <1>2, FS_AddElement

LEMMA FirstThere ==
  ASSUME NEW S, S \subseteq Nat, S # {}
  PROVE  First(S) # {}
<1>1. Min(S) \in S /\ \A j \in S : Min(S) <= j BY Smallest
<1> QED BY <1>1 DEF First

LEMMA KeyPlace ==
  ASSUME NEW s, s \in 1..3
  PROVE  /\ KeyAt(s) \in KeyPlaces /\ KeyAt(s) \in 1..(N + 12)
         /\ KeyAt(s) + 1 \in Opens /\ KeyAt(s) + 1 \in 1..(N + 12)
BY Sizes DEF KeyAt, KeyPlaces, Opens

\* The brace a section is read from is its own.
LEMMA OpenedThere ==
  ASSUME TypeOK, Ordinary, NEW s, s \in 1..3, NEW n, NEW o,
         n \in NamedAt(text, buf.len, SectionNames[s]),
         o \in First({i \in n..buf.len : IsOpen(text[i])})
  PROVE  o = KeyAt(s) + 1
<1>0. Layout(text, tags) /\ buf.len \in 0..(N + 12) BY TextIs
<1>1. IsNameAt(n, tags, buf.len, s) BY <1>0, NameFound
<1>2. n \in 1..buf.len /\ n <= KeyAt(s) BY <1>1 DEF IsNameAt
<1>3. o \in n..buf.len /\ IsOpen(text[o]) /\ \A j \in n..buf.len : IsOpen(text[j]) => o <= j
  BY DEF First
<1>4. PICK k : k = KeyAt(s) + 1 OBVIOUS
<1>5. k \in Opens /\ k \in 1..(N + 12) /\ k - 1 \in KeyPlaces /\ k - 1 \in 1..(N + 12) /\ n <= k - 1
  BY <1>2, <1>4, KeyPlace
<1>6. IsOpen(text[k]) BY <1>0, <1>5, OpensAre
<1>7. o <= k
  <2>1. CASE k \in n..buf.len BY <1>3, <1>6, <2>1
  <2>2. CASE k \notin n..buf.len BY <1>0, <1>2, <1>3, <1>5, <2>2
  <2> QED BY <2>1, <2>2
<1>8. o \in 1..(N + 12) BY <1>0, <1>2, <1>3, Sizes
<1>9. CASE n = k - 1
  <2>1. k - 1 \notin Opens BY <1>5, Sizes DEF KeyPlaces, Opens
  <2>2. \A p \in Positions : k - 1 # At(p) BY <1>5, Apart
  <2>3. ~IsOpen(text[k - 1]) BY <1>0, <1>5, <2>1, <2>2, OpensAre
  <2>4. o # k - 1 BY <1>3, <2>3
  <2> QED BY <1>3, <1>4, <1>5, <1>7, <1>8, <1>9, <2>4
<1>10. CASE n # k - 1
  <2>1. PICK p \in Positions : n = At(p) /\ tags[p] = <<SectionNames[s]>>
    BY <1>1, <1>4, <1>5, <1>10, KeyPlace DEF IsNameAt
  <2>2. Named # {} BY <2>1 DEF Named
  <2>3. Braces = {} BY <2>2 DEF Ordinary
  <2>4. o \in Opens BY <1>0, <1>3, <1>8, <2>3, OpensAre DEF Braces
  <2>5. At(p) <= o /\ At(p) <= KeyAt(s) BY <1>2, <1>3, <2>1
  <2>6. CASE s = 1 BY <2>5, <2>6, Sizes DEF At, KeyAt, Positions
  <2>7. CASE s = 2
    BY <1>4, <1>7, <2>4, <2>5, <2>7, Sizes DEF At, KeyAt, Opens, Positions
  <2>8. CASE s = 3
    <3>1. ~(p <= LastAnalog)
      BY <2>1, <2>8, Sizes, Names DEF Ordinary, Positions
    <3> QED
      BY <1>4, <1>7, <2>4, <2>5, <2>8, <3>1, Sizes DEF At, KeyAt, Opens, Positions
  <2> QED BY <2>6, <2>7, <2>8
<1> QED BY <1>9, <1>10

\* All of an ordinary text: the brace of a section is closed where the section ends
\* or, if a tag in it has a brace, at the end of the text.
LEMMA ClosedThere ==
  ASSUME TypeOK, Ordinary, NEW s, s \in 1..3, buf.len = N + 12
  PROVE  ClosedAt(text, buf.len, KeyAt(s) + 1) # {}
<1>0. Layout(text, tags) BY TextIs
<1>1. PICK o : o = KeyAt(s) + 1 OBVIOUS
<1>2. o = IF s = 1 THEN 3 ELSE IF s = 2 THEN LastAnalog + 6 ELSE LastBool + 9
  BY <1>1, Sizes DEF KeyAt
<1>3. o \in Opens /\ o \in 1..(N + 12) BY <1>1, KeyPlace
<1> DEFINE S == {j \in o..(N + 12) :
                   /\ IsClose(text[j])
                   /\ Cardinality(Opening(text, o, j)) = Cardinality(Closing(text, o, j))}
<1>4. \A i \in 1..(N + 12) :
        /\ IsOpen(text[i]) <=> i \in Opens \/ (\E p \in Positions : i = At(p) /\ p \in Braces)
        /\ IsClose(text[i]) <=> i \in Closes
  BY <1>0, OpensAre, Kinds DEF Braces, IsClose
<1>5. S # {}
  <2>1. CASE \A p \in Braces : Sec(p) # s
    <3>1. PICK e : e = IF s = 1 THEN LastAnalog + 4 ELSE IF s = 2 THEN LastBool + 7 ELSE N + 10
      OBVIOUS
    <3>2. e \in o..(N + 12) /\ e \in Closes /\ e \in 1..(N + 12)
      BY <1>2, <3>1, Sizes DEF Closes
    <3>3. \A i \in o..e : i \in 1..(N + 12) BY <1>3, <3>2, Sizes
    <3>4. \A i \in o..e : i \in Opens <=> i = o
      BY <1>2, <3>1, Sizes DEF Opens
    <3>5. \A i \in o..e : i \in Closes <=> i = e
      BY <1>2, <3>1, Sizes DEF Closes
    <3>6. \A p \in Positions : At(p) \in o..e => Sec(p) = s
      BY <1>2, <3>1, Sizes DEF At, Sec, Positions
    <3>7. \A i \in o..e : IsOpen(text[i]) <=> i = o
      BY <1>4, <2>1, <3>3, <3>4, <3>6
    <3>8. \A i \in o..e : IsClose(text[i]) <=> i = e
      BY <1>4, <3>3, <3>5
    <3>9. o \in o..e /\ e \in o..e BY <1>3, <3>2
    <3>10. Opening(text, o, e) = {o} BY <3>7, <3>9 DEF Opening
    <3>11. Closing(text, o, e) = {e} BY <3>8, <3>9 DEF Closing
    <3>12. Cardinality({o}) = Cardinality({e})
      <4>1. Cardinality({o}) = 1 BY FS_Singleton
      <4>2. Cardinality({e}) = 1 BY FS_Singleton
      <4> QED BY <4>1, <4>2
    <3>13. e \in S BY <3>2, <3>8, <3>9, <3>10, <3>11, <3>12
    <3> QED BY <3>13
  <2>2. CASE \E p \in Braces : Sec(p) = s
    <3>1. PICK p \in Braces : Sec(p) = s BY <2>2
    <3>2. p \in Positions BY DEF Braces
    <3>3. \A q \in Braces : q = p
      <4>1. SUFFICES ASSUME NEW q \in Braces, q # p PROVE FALSE
        OBVIOUS
      <4>2. IsFiniteSet(Braces)
        <5>1. IsFiniteSet(1..N) BY Sizes, FS_Interval
        <5>2. Braces \in SUBSET (1..N) BY DEF Braces, Positions
        <5> QED BY <5>1, <5>2, FS_Subset
      <4>3. Cardinality({p, q}) = 2 BY <4>1, Two
      <4>4. {p, q} \in SUBSET Braces OBVIOUS
      <4>5. Cardinality({p, q}) <= Cardinality(Braces) BY <4>2, <4>4, FS_Subset
      <4>6. Cardinality(Braces) <= 1 BY DEF Ordinary
      <4>7. Cardinality(Braces) \in Nat BY <4>2, FS_CardinalityType
      <4> QED BY <4>3, <4>5, <4>6, <4>7
    <3>4. PICK m : m = N + 12 OBVIOUS
    <3>5. m \in Closes /\ m \in o..m /\ m \in 1..(N + 12) BY <1>3, <3>4, Sizes DEF Closes
    <3>6. PICK a : a = At(p) OBVIOUS
    <3>7. a \in 1..(N + 12) /\ a \notin Opens /\ a \in Nat BY <3>2, <3>6, Apart
    <3>8. \A i \in o..m : i \in 1..(N + 12) BY <1>3, <3>4
    <3>9. \A i \in o..m : IsOpen(text[i]) <=> i \in Opens \/ i = a
      BY <1>4, <3>2, <3>3, <3>6, <3>8
    <3>10. \A i \in o..m : IsClose(text[i]) <=> i \in Closes BY <1>4, <3>8
    <3>11. Opening(text, o, m) = {i \in o..m : i \in Opens \/ i = a}
      BY <3>9 DEF Opening
    <3>12. Closing(text, o, m) = {i \in o..m : i \in Closes} BY <3>10 DEF Closing
    <3>13. Cardinality({i \in o..m : i \in Opens \/ i = a})
             = Cardinality({i \in o..m : i \in Closes})
      <4>0. PICK o2, o3, c1, c2, c3 :
              /\ o2 = LastAnalog + 6 /\ o3 = LastBool + 9
              /\ c1 = LastAnalog + 4 /\ c2 = LastBool + 7 /\ c3 = N + 10
        OBVIOUS
      <4>c. /\ c1 # c2 /\ c1 # c3 /\ c1 # m /\ c2 # c3 /\ c2 # m /\ c3 # m
        BY <3>4, <4>0, Sizes
      <4>1. CASE s = 1
        <5>1. {i \in o..m : i \in Opens \/ i = a} = {o, a, o2, o3}
          BY <1>2, <3>1, <3>2, <3>4, <3>6, <4>0, <4>1, Sizes DEF Opens, At, Sec, Positions
        <5>2. {i \in o..m : i \in Closes} = {c1, c2, c3, m}
          BY <1>2, <3>4, <4>0, <4>1, Sizes DEF Closes
        <5>3. o # a /\ o # o2 /\ o # o3 /\ a # o2 /\ a # o3 /\ o2 # o3
          BY <1>2, <3>1, <3>2, <3>6, <4>0, <4>1, Sizes DEF At, Sec, Positions
        <5>4. Cardinality({o, a, o2, o3}) = 4 BY <5>3, Four, Zenon
        <5>5. Cardinality({c1, c2, c3, m}) = 4 BY <4>c, Four, Zenon
        <5> QED BY <5>1, <5>2, <5>4, <5>5
      <4>2. CASE s = 2
        <5>1. {i \in o..m : i \in Opens \/ i = a} = {o, a, o3}
          BY <1>2, <3>1, <3>2, <3>4, <3>6, <4>0, <4>2, Sizes DEF Opens, At, Sec, Positions
        <5>2. {i \in o..m : i \in Closes} = {c2, c3, m}
          BY <1>2, <3>4, <4>0, <4>2, Sizes DEF Closes
        <5>3. o # a /\ o # o3 /\ a # o3
          BY <1>2, <3>1, <3>2, <3>6, <4>0, <4>2, Sizes DEF At, Sec, Positions
        <5>4. Cardinality({o, a, o3}) = 3 BY <5>3, Three, Zenon
        <5>5. Cardinality({c2, c3, m}) = 3 BY <4>c, Three, Zenon
        <5> QED BY <5>1, <5>2, <5>4, <5>5
      <4>3. CASE s = 3
        <5>1. {i \in o..m : i \in Opens \/ i = a} = {o, a}
          BY <1>2, <3>1, <3>2, <3>4, <3>6, <4>3, Sizes DEF Opens, At, Sec, Positions
        <5>2. {i \in o..m : i \in Closes} = {c3, m}
          BY <1>2, <3>4, <4>0, <4>3, Sizes DEF Closes
        <5>3. o # a
          BY <1>2, <3>1, <3>2, <3>6, <4>3, Sizes DEF At, Sec, Positions
        <5>4. Cardinality({o, a}) = 2 BY <5>3, Two, Zenon
        <5>5. Cardinality({c3, m}) = 2 BY <4>c, Two, Zenon
        <5> QED BY <5>1, <5>2, <5>4, <5>5
      <4> QED BY <4>1, <4>2, <4>3
    <3>14. m \in o..(N + 12) /\ IsClose(text[m]) BY <3>4, <3>5, <3>10
    <3>15. m \in S BY <3>11, <3>12, <3>13, <3>14
    <3> QED BY <3>15
  <2> QED BY <2>1, <2>2
<1>6. S \subseteq Nat BY <1>3
<1>7. First(S) # {} BY <1>5, <1>6, FirstThere
<1> QED BY <1>1, <1>7 DEF ClosedAt

\* Each section of it is found, and not inside a string.
LEMMA BoundThere ==
  ASSUME TypeOK, Ordinary, NEW s, s \in 1..3, buf.len = N + 12
  PROVE  \E b \in Bounds(text, buf.len, SectionNames[s]) : ~b.inString
<1>0. Layout(text, tags) BY TextIs
<1> DEFINE named == {i \in 1..buf.len : text[i].name = <<SectionNames[s]>>}
<1>1. text[KeyAt(s)].name = <<SectionNames[s]>> BY <1>0, TokenAt, KeyFields DEF KeyAt
<1>2. KeyAt(s) \in named BY <1>1, KeyPlace
<1>3. First(named) # {}
  <2>1. named \subseteq Nat OBVIOUS
  <2> QED BY <1>2, <2>1, FirstThere
<1>4. PICK n : n \in NamedAt(text, buf.len, SectionNames[s]) BY <1>3 DEF NamedAt
<1> DEFINE opened == {i \in n..buf.len : IsOpen(text[i])}
<1>5. IsNameAt(n, tags, buf.len, s) BY <1>0, <1>4, NameFound, Sizes
<1>6. n \in 1..buf.len /\ n <= KeyAt(s) BY <1>5 DEF IsNameAt
<1>7. KeyAt(s) + 1 \in opened
  <2>1. IsOpen(text[KeyAt(s) + 1]) BY <1>0, KeyPlace, OpensAre
  <2>2. KeyAt(s) + 1 \in n..buf.len BY <1>6, KeyPlace
  <2> QED BY <2>1, <2>2
<1>8. First(opened) # {}
  <2>1. opened \subseteq Nat BY <1>6
  <2> QED BY <1>7, <2>1, FirstThere
<1>9. PICK o : o \in First({i \in n..buf.len : IsOpen(text[i])}) BY <1>8
<1>10. o = KeyAt(s) + 1 BY <1>4, <1>9, OpenedThere
<1>11. PICK c : c \in ClosedAt(text, buf.len, o) BY <1>10, ClosedThere
<1>12. o \in OpenedAt(text, buf.len, SectionNames[s]) BY <1>4, <1>9 DEF OpenedAt
<1> DEFINE b == [begin |-> o + 1, end |-> c, inString |-> text[o].kind = "entry"]
<1>13. b \in Bounds(text, buf.len, SectionNames[s])
  <2>1. b \in {[begin |-> o + 1, end |-> x, inString |-> text[o].kind = "entry"]
                : x \in ClosedAt(text, buf.len, o)}
    BY <1>11
  <2> HIDE DEF b
  <2> QED BY <1>12, <2>1 DEF Bounds
<1>14. text[o].kind = "open" BY <1>0, <1>10, KeyPlace, Kinds
<1>15. ~b.inString BY <1>14
<1> QED BY <1>13, <1>15

-----------------------------------------------------------------------------
(* What a whole pass leaves.                                               *)

AllServed == \A i \in Positions : Known(i) => data[i] = buf.version

\* The stamp that is kept is of an older version, or all of this one is served.
LastInv == last <= buf.version \/ (last = StampOf(buf.version) /\ AllServed)

\* The words are read from where they are.
OwnWords == phase = "applying" /\ section = 3 /\ cursor # 0 => cursor >= LastBool + 10

WholeInv ==
  /\ buf.part => buf.len < Len(text)
  /\ phase \in {"off", "starting"} => buf.version = 0
  /\ Ordinary => OwnWords /\ LastInv
  /\ WholePassServes

LEMMA OrdinaryStamp ==
  ASSUME TypeOK, WholeInv, Ordinary, NEW x, x \in StampIn
  PROVE  \/ x = StampOf(buf.version) /\ buf.len >= N + 11
         \/ x = CutStamp /\ buf.len < N + 11
<1>0. Layout(text, tags) /\ Len(text) = N + 12 /\ buf.len \in 0..(N + 12)
  BY TextIs
<1>1. PICK at \in StampAt(text, IF buf.part THEN buf.len + 1 ELSE buf.len) :
        /\ text[at].section # "bools"
        /\ x = CASE text[at].kind = "entry" -> TagStamp
                 [] at > buf.len -> CutStamp
                 [] OTHER -> StampOf(buf.version)
  BY DEF StampIn
<1>2. text[at].name = StampName /\ at \in 1..(IF buf.part THEN buf.len + 1 ELSE buf.len)
  BY <1>1 DEF StampAt, First
<1>3. at \in 1..(N + 12)
  <2>1. CASE buf.part
    <3>1. buf.len < N + 12 BY <1>0, <2>1 DEF WholeInv
    <3> QED BY <1>0, <1>2, <2>1, <3>1, Sizes
  <2>2. CASE ~buf.part BY <1>0, <1>2, <2>2, Sizes
  <2> QED BY <2>1, <2>2
<1>4. at \notin Opens /\ at \notin Closes BY <1>0, <1>2, <1>3, Kinds, NamesDiffer
<1>5. ASSUME NEW p \in Positions, at = At(p) PROVE FALSE
  <2>1. tags[p] = StampName BY <1>0, <1>2, <1>5, TokenAt, EntryFields
  <2>2. p \in (LastAnalog + 1)..LastBool BY <2>1 DEF Ordinary
  <2>3. Sec(p) = 2 BY <2>2, Sizes DEF Sec
  <2>4. text[at].section = SectionNames[2] BY <1>0, <1>5, <2>3, TokenAt, EntryFields
  <2> QED BY <1>1, <2>4, Names
<1>6. at \in KeyPlaces BY <1>3, <1>4, <1>5, Places
<1>7. at = N + 11
  <2>1. text[2].name = <<SectionNames[1]>> /\ text[LastAnalog + 5].name = <<SectionNames[2]>>
        /\ text[LastBool + 8].name = <<SectionNames[3]>>
    BY <1>0, TokenAt, KeyFields
  <2>2. \A s \in 1..3 : text[at].name # <<SectionNames[s]>> BY <1>2, NamesDiffer
  <2>3. at # 2 BY <2>1, <2>2
  <2>4. at # LastAnalog + 5 BY <2>1, <2>2
  <2>5. at # LastBool + 8 BY <2>1, <2>2
  <2> QED BY <1>6, <2>3, <2>4, <2>5 DEF KeyPlaces
<1>8. text[at].kind = "key" BY <1>0, <1>7, TokenAt, KeyFields
<1>9. x = IF at > buf.len THEN CutStamp ELSE StampOf(buf.version) BY <1>1, <1>8
<1> QED BY <1>0, <1>7, <1>9, Sizes

\* A pass that comes to its end, whole or not, has served all there is.
LEMMA OrdinaryEnd ==
  ASSUME TypeOK, PassInv, WholeInv, Ordinary, EndPass
  PROVE  AllServed
<1>1. section = 3 /\ cursor # 0 /\ phase = "applying" BY DEF EndPass, AtEnd
<1>2. cursor >= LastBool + 10 BY <1>1 DEF WholeInv, OwnWords
<1>3. cursor = LastBool + 7 \/ cursor = N + 10 BY <1>1, EndIs DEF EndPass
<1>4. cursor = N + 10 BY <1>2, <1>3, Sizes
<1>5. \A p \in Positions : Done(p)
  BY <1>1, <1>4, Sizes DEF Done, Sec, At, Positions
<1> QED BY <1>1, <1>5 DEF PassInv, AllServed, Known

\* A whole text does not fail.
LEMMA OrdinaryPasses ==
  ASSUME TypeOK, PassInv, WholeInv, Ordinary, FailPass
  PROVE  buf.len # Len(text)
<1> SUFFICES ASSUME buf.len = Len(text) PROVE FALSE
  OBVIOUS
<1>0. buf.len = N + 12 BY TextIs
<1>1. phase = "applying" /\ section \in 1..3 BY DEF FailPass, AtEntry, PassInv
<1>2. CASE cursor = 0 /\ \A b \in Bound : b.inString
  <2>1. \E b \in Bounds(text, buf.len, SectionNames[section]) : ~b.inString
    BY <1>0, <1>1, BoundThere
  <2> QED BY <1>2, <2>1 DEF Bound
<1>3. CASE AtEntry /\ ~Accepts(SectionNames[section], Here.section)
  <2>1. PICK q \in Positions : IsHere(q) BY <1>3, HereIs
  <2>2. section = 3 /\ Sec(q) = 2 /\ cursor = At(q)
    BY <1>3, <2>1, AcceptedHere DEF IsHere
  <2>3. cursor # 0 BY <1>3 DEF AtEntry
  <2>4. cursor >= LastBool + 10 BY <1>1, <2>2, <2>3 DEF WholeInv, OwnWords
  <2> QED BY <2>2, <2>4, Sizes DEF At, Sec, Positions
<1> QED BY <1>2, <1>3 DEF FailPass

LEMMA WholeInit == Init => WholeInv
<1> SUFFICES ASSUME Init PROVE WholeInv
  OBVIOUS
<1>1. buf.version = 0 /\ buf.part = FALSE /\ last = 0 /\ phase = "off" BY DEF Init, Empty
<1> QED BY <1>1 DEF WholeInv, OwnWords, LastInv, WholePassServes

LEMMA WholeStep ==
  ASSUME TypeOK, BufferInv, PassInv, WholeInv, [Next]_vars
  PROVE  WholeInv'
<1>0. /\ data \in [Positions -> 0..MaxVersion] /\ known \subseteq Positions
      /\ cursor \in Nat /\ buf.version \in Nat /\ latest \in Nat /\ last \in Nat
      /\ buf.version <= latest
  <2>1. latest \in 0..MaxVersion /\ last \in {0, CutStamp, TagStamp} \cup {StampOf(v) : v \in 1..latest}
    BY DEF TypeOK
  <2>2. last \in Nat BY <2>1, Sizes DEF CutStamp, StampOf
  <2> QED BY <2>2, TextIs DEF TypeOK, BufferInv
<1>1. tags' = tags /\ text' = text /\ known' = known
  BY DEF Next, Loop, Kill, BindFails, Leave, Gone, BeginWrite, FinishWrite, Spawn, Signal, Listen,
         Read, PassOver, LockModel, EnterSection, UpdateAttribute, SkipUnknown, FailPass,
         NextSection, EndPass, vars, file
<1>2. Ordinary' <=> Ordinary BY <1>1 DEF Ordinary, Braces, Named
<1>3. ASSUME UNCHANGED <<parser, data, last>>
      PROVE  /\ buf' = buf /\ (buf'.part => buf'.len < Len(text'))
             /\ LastInv' <=> LastInv
  BY <1>1, <1>3 DEF WholeInv, LastInv, AllServed, Known, parser
<1>4. CASE BeginWrite \/ FinishWrite \/ Signal \/ UNCHANGED vars
  <2>1. UNCHANGED <<parser, model, phase, last, outcome>>
    BY <1>4 DEF BeginWrite, FinishWrite, Signal, vars, context
  <2>2. OwnWords' <=> OwnWords BY <2>1 DEF OwnWords, parser
  <2>3. WholePassServes' <=> WholePassServes
    BY <1>1, <1>2, <2>1 DEF WholePassServes, Known, parser, model
  <2> QED BY <1>1, <1>2, <1>3, <2>1, <2>2, <2>3 DEF WholeInv, model
<1>5. CASE Spawn \/ Listen
  <2>1. /\ UNCHANGED <<parser, model, last>> /\ buf.version = 0
        /\ phase' \in {"starting", "polling"}
    BY <1>5 DEF Spawn, Listen, WholeInv, context
  <2>2. OwnWords' BY <2>1 DEF OwnWords
  <2>3. WholePassServes' BY <1>3, <2>1 DEF WholePassServes, model
  <2> QED BY <1>1, <1>2, <1>3, <2>1, <2>2, <2>3 DEF WholeInv, model
<1>6. CASE Gone
  <2>1. phase' = "off" /\ buf' = Empty /\ last' = 0 BY <1>6 DEF Gone
  <2>2. buf'.version = 0 /\ buf'.part = FALSE BY <2>1 DEF Empty
  <2> QED BY <2>1, <2>2 DEF WholeInv, OwnWords, LastInv, WholePassServes
<1>7. CASE Read
  <2>1. PICK n \in 0..Len(text), part \in BOOLEAN :
          /\ part => n < Len(text)
          /\ buf' = [version |-> latest, len |-> n, part |-> part]
    BY <1>7 DEF Read
  <2>2. /\ phase' = "comparing" /\ data' = data /\ last' = last
    BY <1>7 DEF Read, model, context
  <2>3. buf'.version = latest /\ (buf'.part => buf'.len < Len(text')) BY <1>1, <2>1
  <2>4. ASSUME Ordinary PROVE LastInv'
    <3>1. LastInv BY <2>4 DEF WholeInv
    <3>2. CASE latest = buf.version
      BY <1>1, <2>2, <2>3, <3>1, <3>2 DEF LastInv, AllServed, Known
    <3>3. CASE latest # buf.version
      <4>1. last <= latest BY <1>0, <3>1, <3>3 DEF LastInv, StampOf
      <4> QED BY <2>2, <2>3, <4>1 DEF LastInv
    <3> QED BY <3>2, <3>3
  <2> QED BY <1>2, <2>2, <2>3, <2>4 DEF WholeInv, OwnWords, WholePassServes
<1>8. CASE PassOver
  <2>1. /\ phase = "comparing" /\ last \in StampIn /\ phase' = "polling" /\ outcome' = "skipped"
        /\ UNCHANGED <<parser, data, visible, last>>
    BY <1>8 DEF PassOver, model
  <2>2. buf.version >= 1 /\ data = visible BY <2>1 DEF BufferInv, PassInv
  <2>3. ASSUME Ordinary, buf.len = Len(text) PROVE AllServed
    <3>1. buf.len = N + 12 BY <2>3, TextIs
    <3>2. last = StampOf(buf.version) BY <2>1, <2>3, <3>1, OrdinaryStamp, Sizes
    <3>3. ~(last <= buf.version) BY <1>0, <3>2 DEF StampOf
    <3> QED BY <2>3, <3>3 DEF WholeInv, LastInv
  <2>4. WholePassServes'
    BY <1>1, <1>2, <1>3, <2>1, <2>2, <2>3 DEF WholePassServes, AllServed, Known
  <2> QED BY <1>1, <1>2, <1>3, <2>1, <2>4 DEF WholeInv, OwnWords
<1>9. CASE LockModel \/ NextSection
  <2>1. phase' = "applying" /\ UNCHANGED <<buf, data, last>> /\ cursor' = 0
    BY <1>9 DEF LockModel, NextSection, AtEnd, model, context, BufferInv
  <2>2. LastInv' <=> LastInv BY <1>1, <2>1 DEF LastInv, AllServed, Known
  <2> QED BY <1>1, <1>2, <2>1, <2>2 DEF WholeInv, OwnWords, WholePassServes
<1>10. CASE EnterSection
  <2>1. PICK b \in Bound : ~b.inString /\ cursor' = b.begin BY <1>10 DEF EnterSection
  <2>2. phase' = "applying" /\ UNCHANGED <<buf, data, last>> /\ section' = section
        /\ phase = "applying"
    BY <1>10 DEF EnterSection, model, context
  <2>3. LastInv' <=> LastInv BY <1>1, <2>2 DEF LastInv, AllServed, Known
  <2>4. ASSUME Ordinary, section = 3 PROVE cursor' = LastBool + 10
    <3>1. PICK n, o, c :
            /\ n \in NamedAt(text, buf.len, SectionNames[3])
            /\ o \in First({i \in n..buf.len : IsOpen(text[i])})
            /\ b = [begin |-> o + 1, end |-> c, inString |-> text[o].kind = "entry"]
      BY <2>4, BoundsForm DEF Bound
    <3>2. o = KeyAt(3) + 1 BY <2>4, <3>1, OpenedThere
    <3>3. o = LastBool + 9 BY <3>2, Sizes DEF KeyAt
    <3> QED BY <2>1, <3>1, <3>3, Sizes
  <2> QED BY <1>1, <1>2, <2>2, <2>3, <2>4, Sizes DEF WholeInv, OwnWords, WholePassServes
<1>11. CASE UpdateAttribute \/ SkipUnknown
  <2>1. /\ phase = "applying" /\ phase' = "applying" /\ section' = section
        /\ buf' = buf /\ last' = last /\ cursor # 0 /\ cursor' = cursor + 1
    BY <1>11 DEF UpdateAttribute, SkipUnknown, AtEntry, context
  <2>2. \A p \in Positions : data'[p] = data[p] \/ data'[p] = buf.version
    BY <1>0, <1>11 DEF UpdateAttribute, SkipUnknown, model
  <2>3. AllServed => AllServed' BY <1>1, <2>1, <2>2 DEF AllServed, Known
  <2>4. LastInv => LastInv' BY <2>1, <2>3 DEF LastInv
  <2>5. OwnWords => OwnWords' BY <1>0, <2>1, Sizes DEF OwnWords
  <2> QED BY <1>1, <1>2, <2>1, <2>4, <2>5 DEF WholeInv, WholePassServes
<1>12. CASE FailPass
  <2>1. phase' = "polling" /\ UNCHANGED <<parser, data, last>>
    BY <1>12 DEF FailPass
  <2>2. Ordinary => buf.len # Len(text) BY <1>12, OrdinaryPasses
  <2>3. WholePassServes' BY <1>1, <1>2, <1>3, <2>1, <2>2 DEF WholePassServes
  <2> QED BY <1>1, <1>2, <1>3, <2>1, <2>3 DEF WholeInv, OwnWords
<1>13. CASE EndPass
  <2>1. /\ phase = "applying" /\ phase' = "polling" /\ outcome' = "applied" /\ visible' = data
        /\ last' \in IF StampIn \ {0} = {} THEN {last} ELSE StampIn
        /\ UNCHANGED <<parser, data>>
    BY <1>13 DEF EndPass, AtEnd
  <2>2. buf' = buf BY <2>1 DEF parser
  <2>3. buf.version >= 1 BY <2>1 DEF BufferInv
  <2>4. Ordinary => AllServed BY <1>13, OrdinaryEnd
  <2>5. ASSUME Ordinary PROVE LastInv'
    <3>1. AllServed' BY <1>1, <2>1, <2>2, <2>4, <2>5 DEF AllServed, Known
    <3>2. CASE last' = last BY <2>2, <2>5, <3>1, <3>2 DEF WholeInv, LastInv
    <3>3. CASE last' \in StampIn
      <4>1. last' = StampOf(buf.version) \/ last' = CutStamp BY <2>5, <3>3, OrdinaryStamp
      <4>2. CutStamp <= buf.version BY <1>0, <2>3 DEF CutStamp
      <4> QED BY <2>2, <3>1, <4>1, <4>2 DEF LastInv
    <3> QED BY <2>1, <3>2, <3>3
  <2>6. WholePassServes'
    BY <1>1, <1>2, <2>1, <2>2, <2>4 DEF WholePassServes, AllServed, Known
  <2>7. buf'.part => buf'.len < Len(text') BY <1>1, <2>2 DEF WholeInv
  <2> QED BY <1>2, <2>1, <2>5, <2>6, <2>7 DEF WholeInv, OwnWords
<1> QED
  BY <1>4, <1>5, <1>6, <1>7, <1>8, <1>9, <1>10, <1>11, <1>12, <1>13
     DEF Next, Loop, Kill, BindFails, Leave

\* Whatever was read before, a signal, a cut file, a warning or a restart: a pass over
\* all of a text does not fail and leaves every attribute the row has tags for with the
\* version in it, and it is passed over only when they have that already; for any list
\* of tags with at most one brace, and none of the names the parser looks for where
\* they lead it astray.
THEOREM WholePassServesHolds == Spec => []WholePassServes
<1>1. Init => IInv /\ WholeInv BY TypeInit, PassInit, WarnInit, WholeInit DEF IInv
<1>2. IInv /\ WholeInv /\ [Next]_vars => IInv' /\ WholeInv'
  BY TypeStep, PassStep, WarnStep, WholeStep DEF IInv
<1>3. WholeInv => WholePassServes BY DEF WholeInv
<1> QED BY <1>1, <1>2, <1>3, PTL DEF Spec

=============================================================================
