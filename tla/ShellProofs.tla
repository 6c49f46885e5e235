----------------------------- MODULE ShellProofs -----------------------------
(* Theorems about LibraryIndex, for lists and names of any length, and about    *)
(* Shell, for any number of tracks, playlists, requests and pages.              *)
EXTENDS Shell, ListProofs

\* Words and dashes take turns, and a word comes first and last.
LEMMA DashedShape ==
  ASSUME NEW words \in Seq(Words) \ {<<>>}
  PROVE  /\ Dashed(words) \in Seq(Words \cup {"-"})
         /\ Len(Dashed(words)) = 2 * Len(words) - 1
         /\ \A j \in 1..Len(words) : Dashed(words)[2 * j - 1] = words[j]
         /\ \A j \in 1..(Len(words) - 1) : Dashed(words)[2 * j] = "-"
<1> DEFINE n == Len(words)
<1>1. n \in Nat \ {0} /\ \A i \in 1..n : words[i] \in Words
  OBVIOUS
<1>2. Dashed(words) = [i \in 1..(2 * n - 1) |->
                          IF i % 2 = 1 THEN words[(i + 1) \div 2] ELSE "-"]
  BY DEF Dashed
<1>3. \A i \in 1..(2 * n - 1) : i % 2 = 1 => (i + 1) \div 2 \in 1..n
  BY <1>1
<1>4. Dashed(words) \in [1..(2 * n - 1) -> Words \cup {"-"}]
  BY <1>1, <1>2, <1>3
<1>5. 2 * n - 1 \in Nat
  BY <1>1
<1>6. Dashed(words) \in Seq(Words \cup {"-"}) /\ Len(Dashed(words)) = 2 * n - 1
  BY <1>4, <1>5
<1>7. \A j \in 1..n : Dashed(words)[2 * j - 1] = words[j]
  <2>1. ASSUME NEW j \in 1..n
        PROVE  /\ 2 * j - 1 \in 1..(2 * n - 1) /\ (2 * j - 1) % 2 = 1
               /\ ((2 * j - 1) + 1) \div 2 = j
    BY <1>1
  <2> QED
    BY <1>2, <2>1
<1>8. \A j \in 1..(n - 1) : Dashed(words)[2 * j] = "-"
  <2>1. ASSUME NEW j \in 1..(n - 1)
        PROVE  2 * j \in 1..(2 * n - 1) /\ (2 * j) % 2 # 1
    BY <1>1
  <2> QED
    BY <1>2, <2>1
<1> QED
  BY <1>6, <1>7, <1>8

\* Nothing is lost but case and what is between the words.
LEMMA DashedInjective ==
  ASSUME NEW v \in Seq(Words) \ {<<>>}, NEW w \in Seq(Words) \ {<<>>},
         Dashed(v) = Dashed(w)
  PROVE  v = w
<1>1. 2 * Len(v) - 1 = 2 * Len(w) - 1
  <2>1. Len(Dashed(v)) = 2 * Len(v) - 1 /\ Len(Dashed(w)) = 2 * Len(w) - 1
    BY DashedShape
  <2> QED
    BY <2>1
<1>2. Len(v) = Len(w)
  BY <1>1
<1>3. \A j \in 1..Len(v) : v[j] = w[j]
  BY <1>2, DashedShape
<1> QED
  BY <1>2, <1>3

Letters == Words \cup {"-"}

\* What is where in an id.
IsJoined(s, a, c) ==
    /\ Len(s) = Len(a) + 2 + Len(c)
    /\ \A i \in 1..Len(a) : s[i] = a[i]
    /\ s[Len(a) + 1] = "-" /\ s[Len(a) + 2] = "-"
    /\ \A i \in 1..Len(c) : s[Len(a) + 2 + i] = c[i]

LEMMA Joined ==
  ASSUME NEW a \in Seq(Letters), NEW c \in Seq(Letters)
  PROVE  IsJoined(a \o <<"-", "-">> \o c, a, c)
<1> DEFINE s == a \o <<"-", "-">> \o c
<1>0. "-" \in Letters
  BY DEF Letters
<1>1. PICK z \in Seq(Letters) : z = <<"-", "-">>
  <2>1. <<"-", "-">> \in Seq(Letters)
    BY <1>0
  <2> QED
    BY <2>1
<1>2. Len(z) = 2 /\ z[1] = "-" /\ z[2] = "-"
  BY <1>1
<1>3. PICK p \in Seq(Letters) : p = a \o z
  BY ConcatProperties
<1>4. Len(p) = Len(a) + 2 /\ Len(a) \in Nat /\ Len(c) \in Nat
      /\ \A i \in 1..(Len(a) + 2) :
             p[i] = IF i <= Len(a) THEN a[i] ELSE z[i - Len(a)]
  <2>1. Len(p) = Len(a) + Len(z)
        /\ \A i \in 1..(Len(a) + Len(z)) :
               p[i] = IF i <= Len(a) THEN a[i] ELSE z[i - Len(a)]
    BY <1>3, ConcatProperties, Zenon
  <2>2. Len(a) \in Nat /\ Len(c) \in Nat
    BY LenProperties
  <2> QED
    BY <1>2, <2>1, <2>2
<1>5. s = p \o c
  BY <1>1, <1>3
<1> HIDE DEF s
<1>6. Len(s) = Len(p) + Len(c)
      /\ \A i \in 1..(Len(p) + Len(c)) :
             s[i] = IF i <= Len(p) THEN p[i] ELSE c[i - Len(p)]
  BY <1>5, ConcatProperties, Zenon
<1>7. \A i \in 1..(Len(a) + 2) : s[i] = IF i <= Len(a) THEN a[i] ELSE z[i - Len(a)]
  BY <1>4, <1>6
<1>8. ASSUME NEW i \in 1..Len(a) PROVE s[i] = a[i]
  <2>1. i \in 1..(Len(a) + 2) /\ i <= Len(a)
    BY <1>4
  <2> QED
    BY <1>7, <2>1
<1>9. s[Len(a) + 1] = "-" /\ s[Len(a) + 2] = "-"
  <2>1. /\ Len(a) + 1 \in 1..(Len(a) + 2) /\ ~(Len(a) + 1 <= Len(a)) /\ Len(a) + 1 - Len(a) = 1
        /\ Len(a) + 2 \in 1..(Len(a) + 2) /\ ~(Len(a) + 2 <= Len(a)) /\ Len(a) + 2 - Len(a) = 2
    BY <1>4
  <2>2. s[Len(a) + 1] = z[1]
    BY <1>7, <2>1
  <2>3. s[Len(a) + 2] = z[2]
    BY <1>7, <2>1
  <2> QED
    BY <1>2, <2>2, <2>3
<1>10. ASSUME NEW i \in 1..Len(c) PROVE s[Len(a) + 2 + i] = c[i]
  <2>1. /\ Len(a) + 2 + i \in 1..(Len(p) + Len(c)) /\ ~(Len(a) + 2 + i <= Len(p))
        /\ (Len(a) + 2 + i) - Len(p) = i
    BY <1>4
  <2> QED
    BY <1>6, <2>1
<1>11. Len(s) = Len(a) + 2 + Len(c)
  BY <1>4, <1>6
<1> QED
  BY <1>8, <1>9, <1>10, <1>11 DEF IsJoined

\* The two dashes of an id are the first two that adjoin.
LEMMA FirstDashes ==
  ASSUME NEW v \in Seq(Words) \ {<<>>}, NEW w \in Seq(Words) \ {<<>>},
         NEW x \in Seq(Letters), NEW y \in Seq(Letters),
         Dashed(v) \o <<"-", "-">> \o x = Dashed(w) \o <<"-", "-">> \o y
  PROVE  Len(w) <= Len(v)
<1>1. SUFFICES ASSUME Len(v) < Len(w) PROVE FALSE
  OBVIOUS
<1>2. Len(v) \in Nat \ {0} /\ Len(w) \in Nat \ {0}
  OBVIOUS
<1>3. PICK a \in Seq(Letters) : a = Dashed(v)
  BY DashedShape DEF Letters
<1>4. PICK b \in Seq(Letters) : b = Dashed(w)
  BY DashedShape DEF Letters
<1>5. Len(a) = 2 * Len(v) - 1 /\ Len(b) = 2 * Len(w) - 1
  BY <1>3, <1>4, DashedShape
<1>6. PICK s : IsJoined(s, a, x) /\ IsJoined(s, b, y)
  <2>1. a \o <<"-", "-">> \o x = b \o <<"-", "-">> \o y
    BY <1>3, <1>4
  <2>2. IsJoined(a \o <<"-", "-">> \o x, a, x) /\ IsJoined(b \o <<"-", "-">> \o y, b, y)
    BY Joined
  <2> QED
    BY <2>1, <2>2
<1>7. s[Len(a) + 2] = "-"
  BY <1>6 DEF IsJoined
<1>8. \A i \in 1..Len(b) : s[i] = b[i]
  BY <1>6 DEF IsJoined
<1>9. Len(v) + 1 \in 1..Len(w) /\ Len(a) + 2 = 2 * (Len(v) + 1) - 1
      /\ Len(a) + 2 \in 1..Len(b)
  BY <1>1, <1>2, <1>5
<1>10. b[2 * (Len(v) + 1) - 1] = w[Len(v) + 1]
  BY <1>4, <1>9, DashedShape
<1>11. w[Len(v) + 1] \in Words
  BY <1>9, ElementOfSeq
<1> QED
  BY <1>7, <1>8, <1>9, <1>10, <1>11, LowerAssumption

\* Two ids are the same just when artists and titles have the same slugs.
LEMMA IdsApart ==
  ASSUME NEW v \in Seq(Words) \ {<<>>}, NEW w \in Seq(Words) \ {<<>>},
         NEW x \in Seq(Words) \ {<<>>}, NEW y \in Seq(Words) \ {<<>>},
         Dashed(v) \o <<"-", "-">> \o Dashed(x) = Dashed(w) \o <<"-", "-">> \o Dashed(y)
  PROVE  v = w /\ x = y
<1>1. PICK a \in Seq(Letters), b \in Seq(Letters), c \in Seq(Letters), d \in Seq(Letters) :
          a = Dashed(v) /\ b = Dashed(w) /\ c = Dashed(x) /\ d = Dashed(y)
  BY DashedShape DEF Letters
<1>2. Len(w) <= Len(v) /\ Len(v) <= Len(w)
  BY <1>1, FirstDashes
<1>3. Len(a) = Len(b)
  <2>1. Len(v) = Len(w)
    BY <1>2
  <2> QED
    BY <1>1, <2>1, DashedShape
<1>4. PICK s : IsJoined(s, a, c) /\ IsJoined(s, b, d)
  <2>1. a \o <<"-", "-">> \o c = b \o <<"-", "-">> \o d
    BY <1>1
  <2>2. IsJoined(a \o <<"-", "-">> \o c, a, c) /\ IsJoined(b \o <<"-", "-">> \o d, b, d)
    BY Joined
  <2> QED
    BY <2>1, <2>2
<1>5. Len(c) = Len(d)
  <2>1. Len(a) + 2 + Len(c) = Len(b) + 2 + Len(d)
    BY <1>4 DEF IsJoined
  <2>2. Len(a) \in Nat /\ Len(c) \in Nat /\ Len(d) \in Nat
    BY LenProperties
  <2> QED
    BY <1>3, <2>1, <2>2
<1>6. a = b
  <2>1. \A i \in 1..Len(a) : a[i] = b[i]
    <3>1. /\ \A i \in 1..Len(a) : s[i] = a[i]
          /\ \A i \in 1..Len(b) : s[i] = b[i]
      BY <1>4 DEF IsJoined
    <3> QED
      BY <1>3, <3>1
  <2> QED
    BY <1>3, <2>1, SeqEqual
<1>7. c = d
  <2>1. \A i \in 1..Len(c) : s[Len(a) + 2 + i] = c[i]
    BY <1>4 DEF IsJoined
  <2>2. \A i \in 1..Len(d) : s[Len(b) + 2 + i] = d[i]
    BY <1>4 DEF IsJoined
  <2>3. \A i \in 1..Len(c) : c[i] = d[i]
    BY <1>3, <1>5, <2>1, <2>2
  <2> QED
    BY <1>5, <2>3, SeqEqual
<1> QED
  BY <1>1, <1>6, <1>7, DashedInjective

\* The words a slug is made of.
SlugWords(name) == IF WordsOf(name) = <<>> THEN <<"untitled">> ELSE WordsOf(name)

LEMMA SlugDashed ==
  ASSUME NEW name, WordsOf(name) \in Seq(Words)
  PROVE  SlugWords(name) \in Seq(Words) \ {<<>>} /\ slug(name) = Dashed(SlugWords(name))
<1>1. "untitled" \in Words
  BY LowerAssumption
<1>2. CASE WordsOf(name) = <<>>
  <2>1. <<"untitled">> \in Seq(Words) \ {<<>>}
    BY <1>1
  <2>2. Len(<<"untitled">>) = 1 /\ <<"untitled">>[1] = "untitled"
    OBVIOUS
  <2>3. PICK one \in Seq(Words) \ {<<>>} : one = <<"untitled">>
    BY <2>1
  <2>5. /\ Dashed(one) \in Seq(Words \cup {"-"}) /\ Len(Dashed(one)) = 2 * Len(one) - 1
        /\ \A j \in 1..Len(one) : Dashed(one)[2 * j - 1] = one[j]
    BY DashedShape
  <2>6. Len(one) = 1 /\ one[1] = "untitled" /\ 1 \in 1..Len(one) /\ 2 * 1 - 1 = 1
    BY <2>3
  <2>7. Len(Dashed(one)) = 1 /\ Dashed(one)[1] = "untitled"
    BY <2>5, <2>6
  <2>8. Dashed(one) = one
    BY <2>5, <2>6, <2>7
  <2>4. Dashed(<<"untitled">>) = <<"untitled">>
    BY <2>3, <2>8
  <2> QED
    BY <1>2, <2>1, <2>4 DEF SlugWords, slug
<1>3. CASE WordsOf(name) # <<>>
  BY <1>3 DEF SlugWords, slug
<1> QED
  BY <1>2, <1>3

LEMMA WordsOfNames ==
  ASSUME NEW S, NEW name \in Seq(S)
  PROVE  WordsOf(name) \in Seq(Words)
<1>1. PICK words \in Seq(Words) : words = Only(name, Words)
  <2>1. Only(name, Words) \in Seq(S \cap Words)
    BY OnlyElements
  <2>2. S \cap Words \subseteq Words
    OBVIOUS
  <2> QED
    BY <2>1, <2>2, SeqMonotonic
<1>2. DOMAIN words = 1..Len(words) /\ Len(words) \in Nat /\ \A i \in 1..Len(words) : words[i] \in Words
  OBVIOUS
<1>3. WordsOf(name) = [i \in 1..Len(words) |-> Lower[words[i]]]
  BY <1>1, <1>2 DEF WordsOf
<1>4. \A w \in Words : Lower[w] \in Words
  BY LowerAssumption
<1> QED
  BY <1>2, <1>3, <1>4

\* The page of an album shows the tracks of one artist and one title, but for
\* case and what is between the words, for any names that consist of words and
\* other characters: dashes in names, the dashes of the slugs and the two in the
\* middle do not make two albums one.
THEOREM AlbumIdsTellApart ==
  ASSUME NEW S, NEW a \in Seq(S), NEW b \in Seq(S), NEW t \in Seq(S), NEW u \in Seq(S)
  PROVE  albumId(a, t) = albumId(b, u) <=> SameName(a, b) /\ SameName(t, u)
<1>0. {WordsOf(a), WordsOf(b), WordsOf(t), WordsOf(u)} \subseteq Seq(Words)
  BY WordsOfNames
<1>1. ASSUME NEW x, NEW y, WordsOf(x) \in Seq(Words), WordsOf(y) \in Seq(Words)
      PROVE  SlugWords(x) = SlugWords(y) <=> SameName(x, y)
  BY DEF SlugWords, SameName
<1>2. albumId(a, t) = albumId(b, u) =>
          SlugWords(a) = SlugWords(b) /\ SlugWords(t) = SlugWords(u)
  <2>1. \A name \in {a, b, t, u} :
            SlugWords(name) \in Seq(Words) \ {<<>>} /\ slug(name) = Dashed(SlugWords(name))
    BY <1>0, SlugDashed
  <2>2. PICK v \in Seq(Words) \ {<<>>}, w \in Seq(Words) \ {<<>>},
             x \in Seq(Words) \ {<<>>}, y \in Seq(Words) \ {<<>>} :
            /\ v = SlugWords(a) /\ w = SlugWords(b) /\ slug(a) = Dashed(v) /\ slug(b) = Dashed(w)
            /\ x = SlugWords(t) /\ y = SlugWords(u) /\ slug(t) = Dashed(x) /\ slug(u) = Dashed(y)
    BY <2>1
  <2>3. albumId(a, t) = Dashed(v) \o <<"-", "-">> \o Dashed(x)
        /\ albumId(b, u) = Dashed(w) \o <<"-", "-">> \o Dashed(y)
    BY <2>2 DEF albumId
  <2>4. albumId(a, t) = albumId(b, u) => v = w /\ x = y
    BY <2>3, IdsApart
  <2> QED
    BY <2>2, <2>4
<1>3. SlugWords(a) = SlugWords(b) /\ SlugWords(t) = SlugWords(u) =>
          albumId(a, t) = albumId(b, u)
  BY <1>0, SlugDashed DEF albumId
<1> QED
  BY <1>0, <1>1, <1>2, <1>3

\* The tracks on the page of an album are those of its id.
LEMMA AlbumElements ==
  ASSUME NEW tracks \in Seq(Tracks), NEW id
  PROVE  Range(AlbumTracks(tracks, id)) = {x \in Range(tracks) : Key[x] = id}
<1>1. ToSet(Only(tracks, {x \in Tracks : Key[x] = id})) = ToSet(tracks) \cap {x \in Tracks : Key[x] = id}
  BY OnlyElements
<1>2. ToSet(tracks) \subseteq Tracks
  BY ElementsIn
<1> QED
  BY <1>1, <1>2 DEF AlbumTracks, Range, ToSet

\* However the list, two of its tracks are in one album just when artist and title
\* agree but for case and what is between the words.
THEOREM AlbumsHoldTogether ==
  ASSUME NEW tracks \in Seq(Tracks), NEW s \in Range(tracks), NEW t \in Range(tracks)
  PROVE  SameAlbum(s, t) <=> \E al \in buildAlbums(tracks) : {s, t} \subseteq Range(al.tracks)
<1>1. s \in Tracks /\ t \in Tracks
  BY DEF Range
<1> DEFINE S == STRING \cup {"Unknown", " ", "Artist", "Singles"}
<1>2. \A x \in {s, t} : ArtistOf(x) \in Seq(S) /\ TitleOf(x) \in Seq(S)
  <2>1. \A x \in Tracks : Tags[x].artist \in Seq(STRING) /\ Tags[x].album \in Seq(STRING)
    BY TagsAssumption
  <2>2. STRING \subseteq S
    OBVIOUS
  <2>3. \A x \in Tracks : Tags[x].artist \in Seq(S) /\ Tags[x].album \in Seq(S)
    BY <2>1, <2>2, SeqMonotonic
  <2>4. <<"Unknown", " ", "Artist">> \in Seq(S) /\ <<"Singles">> \in Seq(S)
    OBVIOUS
  <2> QED
    BY <1>1, <2>3, <2>4 DEF ArtistOf, TitleOf
<1> HIDE DEF S
<1>3. SameAlbum(s, t) <=> Key[s] = Key[t]
  <2>1. albumId(ArtistOf(s), TitleOf(s)) = albumId(ArtistOf(t), TitleOf(t))
            <=> SameName(ArtistOf(s), ArtistOf(t)) /\ SameName(TitleOf(s), TitleOf(t))
    BY <1>2, AlbumIdsTellApart
  <2> QED
    BY <1>1, <2>1 DEF SameAlbum, Key
<1>4. ASSUME NEW al \in buildAlbums(tracks)
      PROVE  Range(al.tracks) = {x \in Range(tracks) : Key[x] = al.id}
  BY AlbumElements DEF buildAlbums
<1>5. \E al \in buildAlbums(tracks) : al.id = Key[s]
  <2> DEFINE its == AlbumTracks(tracks, Key[s])
             al  == [id |-> Key[s], artist |-> ArtistOf(its[1]), title |-> TitleOf(its[1]), tracks |-> its]
  <2>1. al \in buildAlbums(tracks)
    BY DEF buildAlbums
  <2> QED
    BY <2>1
<1> QED
  BY <1>3, <1>4, <1>5

-----------------------------------------------------------------------------
(* The sizes of albums, and of artists, added up. *)

\* f is what adding up the weights w of the elements of S, in some order, comes to.
IsTotal(f, w, S) ==
    f = [s \in SUBSET S |-> IF s = {} THEN 0
                            ELSE LET x == CHOOSE y \in s : TRUE IN w[x] + f[s \ {x}]]

\* g is a sum in any order.
Adds(g, w, S) ==
    /\ w \in [S -> Nat \ {0}] /\ g \in [SUBSET S -> Nat] /\ g[{}] = 0
    /\ \A s \in SUBSET S : \A x \in s : g[s] = w[x] + g[s \ {x}]

LEMMA TotalExists ==
  ASSUME NEW S, NEW w, NEW g, Adds(g, w, S)
  PROVE  IsTotal(g, w, S)
<1>1. ASSUME NEW s \in SUBSET S, s # {}
      PROVE  g[s] = LET x == CHOOSE y \in s : TRUE IN w[x] + g[s \ {x}]
  <2>1. (CHOOSE y \in s : TRUE) \in s
    BY <1>1
  <2> QED
    BY <2>1 DEF Adds
<1>2. g = [s \in SUBSET S |-> g[s]]
  BY DEF Adds
<1>3. \A s \in SUBSET S : g[s] = IF s = {} THEN 0
                             ELSE LET x == CHOOSE y \in s : TRUE IN w[x] + g[s \ {x}]
  BY <1>1 DEF Adds
<1> QED
  BY <1>2, <1>3 DEF IsTotal

LEMMA TotalAgrees ==
  ASSUME NEW S, NEW w, NEW g, Adds(g, w, S), NEW f, IsTotal(f, w, S)
  PROVE  f[S] = g[S]
<1> DEFINE A == {n \in Nat : \A s \in SUBSET S : g[s] <= n => f[s] = g[s]}
<1>1. /\ w \in [S -> Nat \ {0}] /\ g \in [SUBSET S -> Nat] /\ g[{}] = 0
      /\ \A s \in SUBSET S : \A x \in s : g[s] = w[x] + g[s \ {x}]
  BY DEF Adds
<1>2. \A s \in SUBSET S : f[s] = IF s = {} THEN 0
                            ELSE LET x == CHOOSE y \in s : TRUE IN w[x] + f[s \ {x}]
  BY DEF IsTotal
<1>3. \A s \in SUBSET S : s # {} =>
          \E x \in s : f[s] = w[x] + f[s \ {x}] /\ g[s] = w[x] + g[s \ {x}]
                       /\ s \ {x} \in SUBSET S /\ w[x] \in Nat \ {0} /\ g[s \ {x}] \in Nat /\ g[s] \in Nat
  <2>1. ASSUME NEW s \in SUBSET S, s # {}
        PROVE  \E x \in s : f[s] = w[x] + f[s \ {x}] /\ g[s] = w[x] + g[s \ {x}]
                       /\ s \ {x} \in SUBSET S /\ w[x] \in Nat \ {0} /\ g[s \ {x}] \in Nat /\ g[s] \in Nat
    <3>1. PICK x \in s : x = CHOOSE y \in s : TRUE
      BY <2>1
    <3>2. f[s] = w[x] + f[s \ {x}]
      BY <1>2, <2>1, <3>1
    <3> QED
      BY <1>1, <3>2
  <2> QED
    BY <2>1
<1>4. 0 \in A
  <2>1. ASSUME NEW s \in SUBSET S, g[s] <= 0 PROVE f[s] = g[s]
    <3>1. CASE s = {}
      BY <1>1, <1>2, <3>1
    <3>2. CASE s # {}
      <4>1. PICK x \in s : g[s] = w[x] + g[s \ {x}] /\ w[x] \in Nat \ {0} /\ g[s \ {x}] \in Nat
        BY <1>3, <3>2
      <4> QED
        BY <2>1, <4>1
    <3> QED
      BY <3>1, <3>2
  <2> QED
    BY <2>1
<1>5. ASSUME NEW n \in A PROVE n + 1 \in A
  <2>1. n \in Nat /\ \A s \in SUBSET S : g[s] <= n => f[s] = g[s]
    OBVIOUS
  <2>2. ASSUME NEW s \in SUBSET S, g[s] <= n + 1 PROVE f[s] = g[s]
    <3>1. CASE s = {}
      BY <1>1, <1>2, <3>1
    <3>2. CASE s # {}
      <4>1. PICK x \in s : f[s] = w[x] + f[s \ {x}] /\ g[s] = w[x] + g[s \ {x}]
                       /\ s \ {x} \in SUBSET S /\ w[x] \in Nat \ {0} /\ g[s \ {x}] \in Nat /\ g[s] \in Nat
        BY <1>3, <3>2
      <4>2. g[s \ {x}] <= n
        BY <2>1, <2>2, <4>1
      <4> QED
        BY <2>1, <4>1, <4>2
    <3> QED
      BY <3>1, <3>2
  <2> QED
    BY <2>1, <2>2
<1>6. A \in SUBSET Nat
  OBVIOUS
<1> HIDE DEF A
<1>7. A = Nat
  BY <1>4, <1>5, <1>6, SetInduction
<1>8. g[S] \in A /\ g[S] \in Nat
  BY <1>1, <1>7
<1> QED
  BY <1>8 DEF A

LEMMA SizeIs ==
  ASSUME NEW S, NEW g, Adds(g, [al \in S |-> Len(al.tracks)], S)
  PROVE  Size(S) = g[S]
<1> DEFINE w == [al \in S |-> Len(al.tracks)]
           F(f) == [s \in SUBSET S |-> IF s = {} THEN 0
                       ELSE LET x == CHOOSE y \in s : TRUE IN Len(x.tracks) + f[s \ {x}]]
<1>1. ASSUME NEW f PROVE f = F(f) <=> IsTotal(f, w, S)
  <2>1. \A s \in SUBSET S : s # {} => (CHOOSE y \in s : TRUE) \in S
    OBVIOUS
  <2>2. F(f) = [s \in SUBSET S |-> IF s = {} THEN 0
                       ELSE LET x == CHOOSE y \in s : TRUE IN w[x] + f[s \ {x}]]
    BY <2>1
  <2> QED
    BY <2>2 DEF IsTotal
<1>2. IsTotal(g, w, S)
  BY TotalExists
<1>3. g = F(g)
  BY <1>1, <1>2
<1>4. \E f : f = F(f) /\ Size(S) = f[S]
  BY <1>3, Zenon DEF Size, MapThenSumSet, MapThenFoldSet
<1>5. PICK f : f = F(f) /\ Size(S) = f[S]
  BY <1>4
<1>6. IsTotal(f, w, S)
  BY <1>1, <1>5
<1> QED
  BY <1>5, <1>6, TotalAgrees

\* The tracks of disjoint sets.
LEMMA OnlyDisjoint ==
  ASSUME NEW S, NEW list \in Seq(S), NEW a, NEW b, a \cap b = {}
  PROVE  /\ Len(Only(list, a \cup b)) = Len(Only(list, a)) + Len(Only(list, b))
         /\ Len(Only(list, a)) \in Nat
<1> DEFINE n(s, set) == Len(Only(s, set))
           B == {s \in Seq(S) : n(s, a \cup b) = n(s, a) + n(s, b)}
<1>1. <<>> \in B
  <2>1. Only(<<>>, a) = <<>> /\ Only(<<>>, b) = <<>> /\ Only(<<>>, a \cup b) = <<>> /\ <<>> \in Seq(S)
    BY OnlyEmpty
  <2> QED
    BY <2>1
<1>2. ASSUME NEW s \in Seq(S), NEW x \in S, NEW set
      PROVE  n(Append(s, x), set) = IF x \in set THEN n(s, set) + 1 ELSE n(s, set)
  <2>1. PICK l \in Seq(S) : l = Only(s, set)
    BY OnlyElements
  <2>2. Only(Append(s, x), set) = IF x \in set THEN Append(l, x) ELSE l
    BY <2>1, OnlyAppend
  <2>3. Len(Append(l, x)) = Len(l) + 1
    OBVIOUS
  <2> QED
    BY <2>1, <2>2, <2>3
<1>3. ASSUME NEW s \in Seq(S), NEW set PROVE n(s, set) \in Nat
  <2>1. Only(s, set) \in Seq(S)
    BY OnlyElements
  <2> QED
    BY <2>1
<1>4. ASSUME NEW s \in B, NEW x \in S PROVE Append(s, x) \in B
  <2>1. s \in Seq(S) /\ Append(s, x) \in Seq(S) /\ n(s, a \cup b) = n(s, a) + n(s, b)
    OBVIOUS
  <2>2. n(s, a) \in Nat /\ n(s, b) \in Nat /\ n(s, a \cup b) \in Nat
    BY <1>3, <2>1
  <2>3. /\ n(Append(s, x), a) = IF x \in a THEN n(s, a) + 1 ELSE n(s, a)
        /\ n(Append(s, x), b) = IF x \in b THEN n(s, b) + 1 ELSE n(s, b)
        /\ n(Append(s, x), a \cup b) = IF x \in a \cup b THEN n(s, a \cup b) + 1 ELSE n(s, a \cup b)
    BY <1>2, <2>1
  <2> HIDE DEF n
  <2>4. n(Append(s, x), a \cup b) = n(Append(s, x), a) + n(Append(s, x), b)
    BY <2>1, <2>2, <2>3
  <2> QED
    BY <2>1, <2>4
<1>5. B \in SUBSET Seq(S)
  OBVIOUS
<1> HIDE DEF B
<1>6. B = Seq(S)
  BY <1>1, <1>4, <1>5, ListInduction
<1> QED
  BY <1>3, <1>6 DEF B

\* How many tracks of a list have one of these ids.
Count(tracks, ids) == Len(Only(tracks, {t \in Tracks : Key[t] \in ids}))

LEMMA CountAdds ==
  ASSUME NEW tracks \in Seq(Tracks), NEW a, NEW b, a \cap b = {}
  PROVE  /\ Count(tracks, a \cup b) = Count(tracks, a) + Count(tracks, b)
         /\ Count(tracks, a) \in Nat
<1> DEFINE T(ids) == {t \in Tracks : Key[t] \in ids}
<1>1. T(a) \cap T(b) = {} /\ T(a \cup b) = T(a) \cup T(b)
  OBVIOUS
<1>2. /\ Len(Only(tracks, T(a) \cup T(b))) = Len(Only(tracks, T(a))) + Len(Only(tracks, T(b)))
      /\ Len(Only(tracks, T(a))) \in Nat
  <2> HIDE DEF T
  <2> QED
    BY <1>1, OnlyDisjoint
<1> QED
  BY <1>1, <1>2 DEF Count

LEMMA CountNone ==
  ASSUME NEW tracks \in Seq(Tracks)
  PROVE  Count(tracks, {}) = 0
<1>1. Count(tracks, {} \cup {}) = Count(tracks, {}) + Count(tracks, {}) /\ Count(tracks, {}) \in Nat
  <2>1. {} \cap {} = {}
    OBVIOUS
  <2> QED
    BY <2>1, CountAdds
<1> QED
  BY <1>1

LEMMA CountAll ==
  ASSUME NEW tracks \in Seq(Tracks), NEW ids, \A t \in Range(tracks) : Key[t] \in ids
  PROVE  Count(tracks, ids) = Len(tracks)
<1>1. ToSet(tracks) \subseteq {t \in Tracks : Key[t] \in ids}
  BY ElementsIn DEF Range, ToSet
<1> QED
  BY <1>1, OnlyAll DEF Count

\* An album is known by its id, and has a track.
LEMMA AlbumRecords ==
  ASSUME NEW tracks \in Seq(Tracks)
  PROVE  /\ \A al \in buildAlbums(tracks) :
                /\ al.tracks = AlbumTracks(tracks, al.id)
                /\ Len(al.tracks) = Count(tracks, {al.id}) /\ Len(al.tracks) \in Nat \ {0}
         /\ \A al, other \in buildAlbums(tracks) : al.id = other.id => al = other
         /\ {al.id : al \in buildAlbums(tracks)} = {Key[t] : t \in Range(tracks)}
<1> DEFINE R(id) == LET its == AlbumTracks(tracks, id)
                    IN  [id |-> id, artist |-> ArtistOf(its[1]), title |-> TitleOf(its[1]), tracks |-> its]
<1>1. buildAlbums(tracks) = {R(id) : id \in {Key[t] : t \in Range(tracks)}}
  BY DEF buildAlbums
<1>2. \A id : R(id).id = id /\ R(id).tracks = AlbumTracks(tracks, id)
  OBVIOUS
<1> HIDE DEF R
<1>3. \A al \in buildAlbums(tracks) : al = R(al.id) /\ al.id \in {Key[t] : t \in Range(tracks)}
  BY <1>1, <1>2
<1>4. ASSUME NEW al \in buildAlbums(tracks)
      PROVE  Len(al.tracks) = Count(tracks, {al.id}) /\ Len(al.tracks) \in Nat \ {0}
  <2>1. {t \in Tracks : Key[t] \in {al.id}} = {t \in Tracks : Key[t] = al.id}
    OBVIOUS
  <2>2. al.tracks = AlbumTracks(tracks, al.id)
    BY <1>2, <1>3
  <2>3. Len(al.tracks) = Count(tracks, {al.id})
    BY <2>1, <2>2 DEF Count, AlbumTracks
  <2>4. PICK its \in Seq(Tracks) : its = al.tracks
    BY <2>2, OnlyElements DEF AlbumTracks
  <2>5. Range(its) # {}
    <3>1. PICK t \in Range(tracks) : al.id = Key[t]
      BY <1>3
    <3>2. Range(AlbumTracks(tracks, al.id)) = {x \in Range(tracks) : Key[x] = al.id}
      BY AlbumElements
    <3>3. t \in Range(its)
      BY <2>2, <2>4, <3>1, <3>2
    <3> QED
      BY <3>3
  <2>6. Len(its) \in Nat \ {0}
    BY <2>5 DEF Range
  <2> QED
    BY <2>3, <2>4, <2>6
<1> QED
  BY <1>1, <1>2, <1>3, <1>4

Ids(albums) == {al.id : al \in albums}

\* The tracks of some albums of a list, added up, are those tracks of the list that
\* have the ids of these albums.
LEMMA AlbumsSize ==
  ASSUME NEW tracks \in Seq(Tracks), NEW albums \in SUBSET buildAlbums(tracks)
  PROVE  Size(albums) = Count(tracks, Ids(albums))
<1> DEFINE g == [s \in SUBSET albums |-> Count(tracks, Ids(s))]
           w == [al \in albums |-> Len(al.tracks)]
<1>1. w \in [albums -> Nat \ {0}]
  BY AlbumRecords
<1>2. g \in [SUBSET albums -> Nat]
  <2>1. \A ids : Count(tracks, ids) \in Nat
    <3>1. TAKE ids
    <3>2. ids \cap {} = {}
      OBVIOUS
    <3> QED
      BY <3>2, CountAdds
  <2> QED
    BY <2>1
<1>3. g[{}] = 0
  <2>1. Ids({}) = {}
    BY DEF Ids
  <2> QED
    BY <2>1, CountNone
<1>4. ASSUME NEW s \in SUBSET albums, NEW x \in s
      PROVE  g[s] = w[x] + g[s \ {x}]
  <2>1. Ids(s) = {x.id} \cup Ids(s \ {x})
    BY DEF Ids
  <2>2. {x.id} \cap Ids(s \ {x}) = {}
    BY AlbumRecords DEF Ids
  <2>3. Count(tracks, Ids(s)) = Count(tracks, {x.id}) + Count(tracks, Ids(s \ {x}))
    <3>1. PICK a, b : a = {x.id} /\ b = Ids(s \ {x})
      OBVIOUS
    <3>2. a \cap b = {} /\ Ids(s) = a \cup b
      BY <2>1, <2>2, <3>1
    <3>3. Count(tracks, a \cup b) = Count(tracks, a) + Count(tracks, b)
      BY <3>2, CountAdds
    <3> QED
      BY <3>1, <3>2, <3>3
  <2>4. w[x] = Count(tracks, {x.id})
    BY AlbumRecords
  <2> QED
    BY <2>3, <2>4
<1>5. Adds(g, w, albums)
  <2> HIDE DEF g, w
  <2> QED
    BY <1>1, <1>2, <1>3, <1>4 DEF Adds
<1>6. Size(albums) = g[albums]
  <2> HIDE DEF g
  <2> QED
    BY <1>5, SizeIs
<1> QED
  BY <1>6

LEMMA SizeAll ==
  ASSUME NEW tracks \in Seq(Tracks)
  PROVE  Size(buildAlbums(tracks)) = Len(tracks)
<1>1. Size(buildAlbums(tracks)) = Count(tracks, Ids(buildAlbums(tracks)))
  BY AlbumsSize
<1>2. \A t \in Range(tracks) : Key[t] \in Ids(buildAlbums(tracks))
  BY AlbumRecords DEF Ids
<1> QED
  BY <1>1, <1>2, CountAll

\* An artist is known by the name, and has the albums under that name, at least one.
Counts(artists) == MapThenSumSet(LAMBDA ar : ar.trackCount, artists)

Named(albums, name) == {al \in albums : al.artist = name}

LEMMA ArtistCards ==
  ASSUME NEW albums
  PROVE  /\ \A ar \in buildArtists(albums) : \E al \in albums :
                ar = [id |-> slug(al.artist), name |-> al.artist, albums |-> Named(albums, al.artist),
                      trackCount |-> Size(Named(albums, al.artist))]
         /\ \A al \in albums : \E x \in buildArtists(albums) : x.name = al.artist
<1> DEFINE R(name) == [id |-> slug(name), name |-> name, albums |-> Named(albums, name),
                       trackCount |-> Size(Named(albums, name))]
<1>1. buildArtists(albums) = {R(name) : name \in {al.artist : al \in albums}}
  BY Zenon DEF buildArtists, Size, Named
<1>2. \A name : R(name).name = name
  OBVIOUS
<1>3. \A al \in albums : R(al.artist) \in buildArtists(albums)
  <2> HIDE DEF R
  <2> QED
    BY <1>1
<1>4. \A ar \in buildArtists(albums) : \E al \in albums : ar = R(al.artist)
  <2> HIDE DEF R
  <2> QED
    BY <1>1
<1>5. \A al \in albums : \E x \in buildArtists(albums) : x.name = al.artist
  BY <1>2, <1>3
<1> QED
  BY <1>4, <1>5, Zenon

LEMMA ArtistsApart ==
  ASSUME NEW albums
  PROVE  /\ \A ar \in buildArtists(albums) :
                /\ ar.albums = Named(albums, ar.name) /\ ar.trackCount = Size(ar.albums)
                /\ ar.albums # {}
         /\ \A a, b \in buildArtists(albums) : a.name = b.name => a = b
         /\ UNION {ar.albums : ar \in buildArtists(albums)} = albums
<1>1. \A ar \in buildArtists(albums) : \E al \in albums :
                ar = [id |-> slug(al.artist), name |-> al.artist, albums |-> Named(albums, al.artist),
                      trackCount |-> Size(Named(albums, al.artist))]
  BY ArtistCards
<1>2. ASSUME NEW ar \in buildArtists(albums)
      PROVE  /\ ar.albums = Named(albums, ar.name) /\ ar.trackCount = Size(ar.albums)
             /\ ar.albums # {}
  <2>1. PICK al \in albums :
                ar = [id |-> slug(al.artist), name |-> al.artist, albums |-> Named(albums, al.artist),
                      trackCount |-> Size(Named(albums, al.artist))]
    BY <1>1
  <2>2. al \in Named(albums, al.artist)
    BY DEF Named
  <2> QED
    BY <2>1, <2>2
<1>3. \A a, b \in buildArtists(albums) : a.name = b.name => a = b
  <2>1. SUFFICES ASSUME NEW a \in buildArtists(albums), NEW b \in buildArtists(albums), a.name = b.name
                 PROVE  a = b
    OBVIOUS
  <2>2. PICK n : a = [id |-> slug(n), name |-> n, albums |-> Named(albums, n), trackCount |-> Size(Named(albums, n))]
    BY <1>1
  <2>3. PICK m : b = [id |-> slug(m), name |-> m, albums |-> Named(albums, m), trackCount |-> Size(Named(albums, m))]
    BY <1>1
  <2>4. n = m
    BY <2>1, <2>2, <2>3
  <2> QED
    BY <2>2, <2>3, <2>4
<1>4. UNION {ar.albums : ar \in buildArtists(albums)} = albums
  BY <1>2, ArtistCards DEF Named
<1> QED
  BY <1>2, <1>3, <1>4

LEMMA CountsIs ==
  ASSUME NEW S, NEW g, Adds(g, [who \in S |-> who.trackCount], S)
  PROVE  Counts(S) = g[S]
<1> DEFINE w == [who \in S |-> who.trackCount]
           F(f) == [s \in SUBSET S |-> IF s = {} THEN 0
                       ELSE LET x == CHOOSE y \in s : TRUE IN x.trackCount + f[s \ {x}]]
<1>1. ASSUME NEW f PROVE f = F(f) <=> IsTotal(f, w, S)
  <2>1. \A s \in SUBSET S : s # {} => (CHOOSE y \in s : TRUE) \in S
    OBVIOUS
  <2>2. F(f) = [s \in SUBSET S |-> IF s = {} THEN 0
                       ELSE LET x == CHOOSE y \in s : TRUE IN w[x] + f[s \ {x}]]
    BY <2>1
  <2> QED
    BY <2>2 DEF IsTotal
<1>2. IsTotal(g, w, S)
  BY TotalExists
<1>3. g = F(g)
  BY <1>1, <1>2
<1>4. \E f : f = F(f) /\ Counts(S) = f[S]
  BY <1>3, Zenon DEF Counts, MapThenSumSet, MapThenFoldSet
<1>5. PICK f : f = F(f) /\ Counts(S) = f[S]
  BY <1>4
<1>6. IsTotal(f, w, S)
  BY <1>1, <1>5
<1> QED
  BY <1>5, <1>6, TotalAgrees

Theirs(artists) == UNION {ar.albums : ar \in artists}

LEMMA ArtistsSize ==
  ASSUME NEW tracks \in Seq(Tracks)
  PROVE  Counts(buildArtists(buildAlbums(tracks))) = Len(tracks)
<1> DEFINE albums  == buildAlbums(tracks)
           artists == buildArtists(albums)
           g == [s \in SUBSET artists |-> Count(tracks, Ids(Theirs(s)))]
           w == [who \in artists |-> who.trackCount]
<1>0. \A ids : Count(tracks, ids) \in Nat
  <2>1. TAKE ids
  <2>2. ids \cap {} = {}
    OBVIOUS
  <2> QED
    BY <2>2, CountAdds
<1> HIDE DEF albums, artists
<1>1. /\ \A ar \in artists :
                /\ ar.albums = Named(albums, ar.name) /\ ar.trackCount = Size(ar.albums)
                /\ ar.albums # {}
      /\ \A a, b \in artists : a.name = b.name => a = b
      /\ Theirs(artists) = albums
  BY ArtistsApart DEF artists, Theirs
<1>2. ASSUME NEW ar \in artists
      PROVE  ar.trackCount = Count(tracks, Ids(ar.albums)) /\ ar.trackCount \in Nat \ {0}
  <2>1. PICK its \in SUBSET albums : its = ar.albums
    BY <1>1 DEF Named
  <2>2. Size(its) = Count(tracks, Ids(its))
    BY AlbumsSize DEF albums
  <2>3. PICK al \in its : TRUE
    BY <1>1, <2>1
  <2>4. Len(al.tracks) = Count(tracks, {al.id}) /\ Len(al.tracks) \in Nat \ {0}
    BY AlbumRecords DEF albums
  <2>5. PICK a, b : a = {al.id} /\ b = Ids(its) \ {al.id}
    OBVIOUS
  <2>6. a \cap b = {} /\ Ids(its) = a \cup b
    BY <2>5 DEF Ids
  <2>7. Count(tracks, a \cup b) = Count(tracks, a) + Count(tracks, b)
    BY <2>6, CountAdds
  <2>8. Count(tracks, a) \in Nat \ {0} /\ Count(tracks, b) \in Nat
    BY <1>0, <2>4, <2>5
  <2> QED
    BY <1>1, <2>1, <2>2, <2>6, <2>7, <2>8
<1>3. w \in [artists -> Nat \ {0}]
  BY <1>2
<1>4. g \in [SUBSET artists -> Nat]
  BY <1>0
<1>5. g[{}] = 0
  <2>1. Ids(Theirs({})) = {}
    BY DEF Ids, Theirs
  <2> QED
    BY <2>1, CountNone
<1>6. ASSUME NEW s \in SUBSET artists, NEW x \in s
      PROVE  g[s] = w[x] + g[s \ {x}]
  <2>1. PICK a, b : a = Ids(x.albums) /\ b = Ids(Theirs(s \ {x}))
    OBVIOUS
  <2>2. Ids(Theirs(s)) = a \cup b
    <3>1. Theirs(s) = x.albums \cup Theirs(s \ {x})
      BY DEF Theirs
    <3> QED
      BY <2>1, <3>1 DEF Ids
  <2>3. a \cap b = {}
    <3>1. SUFFICES ASSUME NEW id \in a \cap b PROVE FALSE
      OBVIOUS
    <3>2. PICK al \in x.albums : id = al.id
      BY <2>1 DEF Ids
    <3>3. PICK ar \in s \ {x} : \E other \in ar.albums : id = other.id
      BY <2>1 DEF Ids, Theirs
    <3>4. PICK other \in ar.albums : id = other.id
      BY <3>3
    <3>5. al \in albums /\ other \in albums /\ al.artist = x.name /\ other.artist = ar.name
      BY <1>1 DEF Named
    <3>6. al = other
      BY <3>2, <3>4, <3>5, AlbumRecords DEF albums
    <3>7. ar = x
      BY <1>1, <3>5, <3>6
    <3> QED
      BY <3>7
  <2>4. Count(tracks, a \cup b) = Count(tracks, a) + Count(tracks, b)
    BY <2>3, CountAdds
  <2>5. w[x] = Count(tracks, a)
    BY <1>2, <2>1
  <2> QED
    BY <2>1, <2>2, <2>4, <2>5
<1>7. Adds(g, w, artists)
  <2> HIDE DEF g, w
  <2> QED
    BY <1>3, <1>4, <1>5, <1>6 DEF Adds
<1>8. Counts(artists) = g[artists]
  <2> HIDE DEF g
  <2> QED
    BY <1>7, CountsIs
<1>9. g[artists] = Count(tracks, Ids(albums))
  BY <1>1
<1>10. \A t \in Range(tracks) : Key[t] \in Ids(albums)
  BY AlbumRecords DEF Ids, albums
<1>11. Count(tracks, Ids(albums)) = Len(tracks)
  BY <1>10, CountAll
<1> QED
  BY <1>8, <1>9, <1>11 DEF artists, albums

\* However the list, each of its tracks is in one album, and two are in the same one
\* just when artist and title agree but for case and what is between the words: what
\* useLibrary makes of the list loses no track and shows none twice.
THEOREM EveryListPartitioned ==
  ASSUME NEW tracks \in Seq(Tracks)
  PROVE  Partitioned(useLibrary(tracks))
<1> DEFINE lib == useLibrary(tracks)
<1>1. lib.tracks = tracks /\ lib.albums = buildAlbums(tracks)
  BY DEF useLibrary
<1> HIDE DEF lib
<1>2. Size(lib.albums) = Len(lib.tracks)
  BY <1>1, SizeAll
<1>3. \A s, t \in Range(lib.tracks) :
           SameAlbum(s, t) <=> \E al \in lib.albums : {s, t} \subseteq Range(al.tracks)
  BY <1>1, AlbumsHoldTogether
<1> QED
  BY <1>2, <1>3 DEF Partitioned, lib

\* The counts of the artists' cards add up to the tracks of the list, whatever it is;
\* each name has one card, with the albums under that very name.
THEOREM EveryListCounted ==
  ASSUME NEW tracks \in Seq(Tracks)
  PROVE  Counted(useLibrary(tracks))
<1> DEFINE lib == useLibrary(tracks)
<1>1. lib.tracks = tracks /\ lib.artists = buildArtists(buildAlbums(tracks))
  BY DEF useLibrary
<1> HIDE DEF lib
<1>2. Counts(lib.artists) = Len(lib.tracks)
  BY <1>1, ArtistsSize
<1>3. MapThenSumSet(LAMBDA ar : ar.trackCount, lib.artists) = Len(lib.tracks)
  BY <1>2, Zenon DEF Counts
<1>4. \A a, b \in lib.artists : a.name = b.name => a = b
  BY <1>1, ArtistsApart
<1>5. \A a \in lib.artists : \A al \in a.albums : al.artist = a.name
  BY <1>1, ArtistsApart DEF Named
<1>6. Counted(lib)
  BY <1>3, <1>4, <1>5, Zenon DEF Counted
<1> QED
  BY <1>6 DEF lib

LEMMA TrackListsAre == TrackLists \subseteq Seq(Tracks)
  BY DEF TrackLists, BoundedSeq, SeqOf

\* So there is no list that the library could grow to and that is not partitioned or
\* not counted.
LEMMA AllPartitioned == NotPartitioned = {}
  BY TrackListsAre, EveryListPartitioned DEF NotPartitioned, Libraries

LEMMA AllCounted == NotCounted = {}
  BY TrackListsAre, EveryListCounted DEF NotCounted, Libraries

\* Whatever the library becomes, its albums hold each track once.
THEOREM AlbumsAlwaysPartition == Spec => []AlbumsPartition
<1>1. AlbumsPartition
  BY AllPartitioned DEF AlbumsPartition
<1> QED
  BY <1>1, PTL

\* Whatever the library becomes, the artists' cards count each of its tracks once.
THEOREM ArtistsAlwaysCount == Spec => []ArtistsCountAll
<1>1. ArtistsCountAll
  BY AllCounted DEF ArtistsCountAll
<1> QED
  BY <1>1, PTL

-----------------------------------------------------------------------------

\* A list that is still to come has no tracks.
Of(d) == IF d = Nil THEN {} ELSE Range(d)

-----------------------------------------------------------------------------
(* Requests without their forms, and how a step changes them. *)

Same(r, s) == r.op = s.op /\ r.song = s.song /\ r.list = s.list /\ r.stage = s.stage

Stay == DOMAIN req' = DOMAIN req /\ \A j \in DOMAIN req : Same(req'[j], req[j])

Turns(i, r) ==
    /\ DOMAIN req' = DOMAIN req /\ i \in DOMAIN req /\ Same(req'[i], r)
    /\ \A j \in DOMAIN req \ {i} : Same(req'[j], req[j])

Grows(r) ==
    \E n : /\ DOMAIN req' = DOMAIN req \cup {n} /\ n \notin DOMAIN req /\ Same(req'[n], r)
           /\ \A j \in DOMAIN req : Same(req'[j], req[j])

Requests == Seq(Request \cup Over)

\* Rendering drops forms, and closes a menu whose row has gone.
LEMMA RenderedKeeps ==
  ASSUME NEW o \in Overlay, NEW rs \in Requests, Rendered(o, rs)
  PROVE  /\ req' \in Requests /\ DOMAIN req' = DOMAIN rs /\ Len(req') = Len(rs)
         /\ \A i \in DOMAIN rs : req'[i] \in {rs[i], Formless(rs[i])} /\ Same(req'[i], rs[i])
         /\ overlay' \in {o, NoOverlay} /\ overlay' \in Overlay
         /\ IsRow(o.form) => overlay' = IF o.form \in Rows' THEN o ELSE NoOverlay
         /\ ~IsRow(o.form) => overlay' = o
<1>1. DOMAIN req' = DOMAIN rs /\ \A i \in DOMAIN rs : req'[i] \in {rs[i], Formless(rs[i])}
  BY DEF Rendered
<1>2. \A r \in Request \cup Over : Formless(r) \in Request \cup Over /\ Same(Formless(r), r)
  <2>1. NoForm \in Form
    BY DEF Form
  <2>2. ASSUME NEW r \in Request PROVE Formless(r) \in Request /\ Same(Formless(r), r)
    BY <2>1 DEF Formless, Request, Same
  <2>3. ASSUME NEW r \in Over PROVE Formless(r) \in Over /\ Same(Formless(r), r)
    BY DEF Formless, Over, Same
  <2> QED
    BY <2>2, <2>3
<1>3. DOMAIN rs = 1..Len(rs) /\ Len(rs) \in Nat /\ \A i \in DOMAIN rs : rs[i] \in Request \cup Over
  BY DEF Requests
<1>4. \A i \in DOMAIN rs : req'[i] \in Request \cup Over /\ Same(req'[i], rs[i])
  BY <1>1, <1>2, <1>3 DEF Same
<1>5. req' \in Requests
  <2>1. req' = [i \in 1..Len(rs) |-> req'[i]]
    BY <1>3 DEF Rendered
  <2> QED
    BY <1>3, <1>4, <2>1 DEF Requests
<1>10. Len(req') = Len(rs)
  BY <1>1, <1>3, <1>5 DEF Requests
<1>6. NoOverlay \in Overlay
  BY DEF NoOverlay, Opened, Overlay, Form
<1>7. overlay' \in {o, NoOverlay}
  BY DEF Rendered
<1>8. IsRow(o.form) => overlay' = IF o.form \in Rows' THEN o ELSE NoOverlay
  BY DEF Rendered
<1>9. ~IsRow(o.form) => overlay' = o
  BY DEF Rendered
<1> QED
  BY <1>1, <1>4, <1>5, <1>6, <1>7, <1>8, <1>9, <1>10

\* A new request, or the next of one.
Alike(rs) ==
    /\ rs \in Requests /\ DOMAIN rs = DOMAIN req /\ Len(rs) = Len(req)
    /\ \A j \in DOMAIN req : Same(rs[j], req[j])

LEMMA AlikeSelf ==
  ASSUME req \in Requests
  PROVE  Alike(req)
  BY DEF Alike, Same

LEMMA AddsAgainAlike ==
  ASSUME req \in Requests, NEW form
  PROVE  Alike(AddsAgain(form))
<1>1. DOMAIN req = 1..Len(req) /\ Len(req) \in Nat /\ \A i \in DOMAIN req : req[i] \in Request \cup Over
  BY DEF Requests
<1>2. \A r \in Request \cup Over : r.op \in {"add", "addTo"} =>
          [r EXCEPT !.seen = FALSE] \in Request /\ Same([r EXCEPT !.seen = FALSE], r)
  <2>1. \A r \in Over : r.op \notin {"add", "addTo"}
    BY DEF Over
  <2>2. \A r \in Request : [r EXCEPT !.seen = FALSE] \in Request /\ Same([r EXCEPT !.seen = FALSE], r)
    BY DEF Request, Same
  <2> QED
    BY <2>1, <2>2
<1>3. \A i \in DOMAIN req : AddsAgain(form)[i] \in Request \cup Over /\ Same(AddsAgain(form)[i], req[i])
  <2>1. ASSUME NEW i \in DOMAIN req
        PROVE  AddsAgain(form)[i] = IF req[i].form = form /\ req[i].op \in {"add", "addTo"}
                   THEN [req[i] EXCEPT !.seen = FALSE] ELSE req[i]
    BY DEF AddsAgain
  <2>2. \A i \in DOMAIN req : Same(req[i], req[i])
    BY DEF Same
  <2> QED
    BY <1>1, <1>2, <2>1, <2>2
<1>4. AddsAgain(form) = [i \in 1..Len(req) |-> AddsAgain(form)[i]]
  BY <1>1 DEF AddsAgain
<1>5. AddsAgain(form) \in Requests /\ Len(AddsAgain(form)) = Len(req)
  BY <1>1, <1>3, <1>4 DEF Requests
<1> QED
  BY <1>1, <1>3, <1>4, <1>5 DEF Alike

LEMMA SendGrows ==
  ASSUME req \in Requests, NEW rs, Alike(rs), NEW r \in Request, NEW o \in Overlay,
         Rendered(o, Append(rs, r))
  PROVE  Grows(r) /\ req' \in Requests /\ Len(req') = Len(req) + 1
<1>1. PICK n \in Nat : n = Len(req) /\ n = Len(rs) /\ DOMAIN req = 1..n
  <2>1. Len(req) \in Nat /\ DOMAIN req = 1..Len(req)
    BY DEF Requests
  <2> QED
    BY <2>1 DEF Alike
<1>2. PICK more \in Requests : more = Append(rs, r)
  <2>1. Append(rs, r) \in Requests
    BY DEF Alike, Requests
  <2> QED
    BY <2>1
<1>3. Len(more) = n + 1 /\ more[n + 1] = r /\ \A i \in 1..n : more[i] = rs[i]
  BY <1>1, <1>2 DEF Requests, Alike
<1>4. DOMAIN more = 1..(n + 1)
  BY <1>1, <1>3 DEF Requests
<1>5. /\ req' \in Requests /\ DOMAIN req' = DOMAIN more /\ Len(req') = Len(more)
      /\ \A i \in DOMAIN more : Same(req'[i], more[i])
  BY <1>2, RenderedKeeps
<1>6. \A j \in DOMAIN req : Same(req'[j], req[j])
  BY <1>1, <1>3, <1>4, <1>5 DEF Same, Alike
<1>7. n + 1 \in DOMAIN more /\ Same(req'[n + 1], r)
  BY <1>1, <1>3, <1>4, <1>5
<1>8. DOMAIN req' = DOMAIN req \cup {n + 1} /\ n + 1 \notin DOMAIN req
  BY <1>1, <1>4, <1>5
<1> QED
  BY <1>1, <1>3, <1>5, <1>6, <1>7, <1>8 DEF Grows

LEMMA AnswerTurns ==
  ASSUME req \in Requests, NEW rs, Alike(rs), NEW i \in DOMAIN req, NEW r \in Request \cup Over,
         NEW o \in Overlay, Rendered(o, [rs EXCEPT ![i] = r])
  PROVE  Turns(i, r) /\ req' \in Requests /\ Len(req') = Len(req)
<1>1. PICK n \in Nat : n = Len(req) /\ n = Len(rs) /\ DOMAIN req = 1..n /\ DOMAIN rs = 1..n
  <2>1. Len(req) \in Nat /\ DOMAIN req = 1..Len(req)
    BY DEF Requests
  <2> QED
    BY <2>1 DEF Alike
<1>2. PICK next \in Requests : next = [rs EXCEPT ![i] = r]
  <2>1. [rs EXCEPT ![i] = r] \in Requests
    BY <1>1 DEF Alike, Requests
  <2> QED
    BY <2>1
<1>3. DOMAIN next = DOMAIN req /\ Len(next) = n /\ next[i] = r
      /\ \A j \in DOMAIN req \ {i} : next[j] = rs[j]
  BY <1>1, <1>2 DEF Requests
<1>4. /\ req' \in Requests /\ DOMAIN req' = DOMAIN next /\ Len(req') = Len(next)
      /\ \A j \in DOMAIN next : Same(req'[j], next[j])
  BY <1>2, RenderedKeeps
<1>5. \A j \in DOMAIN req \ {i} : Same(req'[j], req[j])
  BY <1>3, <1>4 DEF Same, Alike
<1> QED
  BY <1>1, <1>3, <1>4, <1>5 DEF Turns

-----------------------------------------------------------------------------
(* The cache keeps its type, and rows are rows of what it holds. *)

Data == Lists \cup {Nil}

LEMMA EmptyList == <<>> \in Lists /\ <<>> # Nil
<1>1. <<>> \in Seq(Songs)
  OBVIOUS
<1>2. IsInjective(<<>>)
  BY DEF IsInjective
<1> QED
  BY <1>1, <1>2, NilAssumption DEF Lists

LEMMA ListNotNil ==
  ASSUME NEW s \in Lists
  PROVE  s # Nil /\ s \in Seq(Songs)
  BY NilAssumption DEF Lists

LEMMA ListOnly ==
  ASSUME NEW s \in Lists, NEW set
  PROVE  Only(s, set) \in Lists /\ Range(Only(s, set)) = Range(s) \cap set
<1>1. Only(s, set) \in Seq(Songs) /\ ToSet(Only(s, set)) = ToSet(s) \cap set
  BY OnlyElements DEF Lists
<1>2. IsInjective(Only(s, set))
  BY OnlyOnce DEF Lists
<1> QED
  BY <1>1, <1>2 DEF Lists, Range, ToSet

LEMMA CacheOperations ==
  ASSUME query \in [Keys -> Query], NEW k, NEW ks
  PROVE  /\ Mounted(query, k) \in [Keys -> Query]
         /\ Invalidate(query, ks) \in [Keys -> Query]
         /\ Unheard(query, ks) \in [Keys -> Query]
<1>1. ASSUME NEW q \in Query
      PROVE  /\ Ask(q) \in Query /\ Join(q) \in Query
             /\ [q EXCEPT !.behind = TRUE] \in Query
  <2>1. Ask(q) \in Query
    BY DEF Ask, Query
  <2>2. [q EXCEPT !.behind = TRUE] \in Query
    BY DEF Query
  <2>3. Join(q) \in Query
    <3>1. (q.behind \/ q.stage = "served") \in BOOLEAN
      OBVIOUS
    <3> QED
      BY <3>1 DEF Join, Query
  <2> QED
    BY <2>1, <2>2, <2>3
<1>2. \A x \in Keys : query[x] \in Query
  OBVIOUS
<1>3. Mounted(query, k) \in [Keys -> Query]
  BY <1>1, <1>2 DEF Mounted
<1>4. Invalidate(query, ks) \in [Keys -> Query]
  BY <1>1, <1>2 DEF Invalidate
<1>5. Unheard(query, ks) \in [Keys -> Query]
  BY <1>1, <1>2 DEF Unheard
<1> QED
  BY <1>3, <1>4, <1>5

LEMMA PageKeys ==
  ASSUME NEW p \in Paths
  PROVE  PageKey(p) \in Keys /\ (Kind(p) = "playlist" => p[2] \in Playlists)
<1>1. Kind(p) = "playlist" => p[2] \in Playlists
  BY PathsAssumption DEF PlaylistPath
<1> QED
  BY <1>1 DEF PageKey, Keys

LEMMA RowsShown ==
  ASSUME query \in [Keys -> Query], path \in Paths
  PROVE  \A r \in Rows :
             r \in Row /\ IsRow(r) /\ \E k \in Keys : r.song \in Of(query[k].data)
<1>1. ASSUME NEW k \in Keys
      PROVE  Shown(k) \in Seq(Songs) /\ Range(Shown(k)) = Of(query[k].data)
  <2>1. query[k].data \in Data
    BY DEF Query, Data
  <2>2. Range(<<>>) = {}
    BY DEF Range
  <2> QED
    BY <2>1, <2>2, EmptyList, ListNotNil DEF Shown, Of, Data, Lists
<1>2. {"tracks", "found"} \subseteq Keys
  BY DEF Keys
<1>3. ASSUME NEW view \in {"album", "playlist", "results"}, NEW tracks \in Seq(Songs)
      PROVE  \A r \in CollectionView(view, tracks) :
                 r \in Row /\ IsRow(r) /\ r.song \in Range(tracks)
  <2>1. \A i \in DOMAIN tracks : i \in Nat /\ tracks[i] \in Songs /\ tracks[i] \in Range(tracks)
    BY DEF Range
  <2> QED
    BY <2>1 DEF CollectionView, Row, IsRow
<1>4. CASE Kind(path) = "album"
  <2>1. /\ AlbumTracks(Shown("tracks"), path[2]) \in Seq(Songs)
        /\ Range(AlbumTracks(Shown("tracks"), path[2])) \subseteq Range(Shown("tracks"))
    <3>1. PICK s \in Seq(Songs) : s = Shown("tracks")
      BY <1>1, <1>2
    <3>2. AlbumTracks(s, path[2]) \in Seq(Songs) /\ ToSet(AlbumTracks(s, path[2])) \subseteq ToSet(s)
      <4> DEFINE set == {t \in Tracks : Key[t] = path[2]}
      <4>1. Only(s, set) \in Seq(Songs) /\ ToSet(Only(s, set)) = ToSet(s) \cap set
        BY OnlyElements
      <4> QED
        BY <4>1 DEF AlbumTracks
    <3> QED
      BY <3>1, <3>2 DEF Range, ToSet
  <2>2. Rows = CollectionView("album", AlbumTracks(Shown("tracks"), path[2]))
    BY <1>4 DEF Rows
  <2> QED
    BY <1>1, <1>2, <1>3, <2>1, <2>2
<1>5. CASE Kind(path) = "playlist"
  <2>1. path[2] \in Keys
    BY <1>5, PageKeys DEF Keys
  <2>2. Rows = CollectionView("playlist", Shown(path[2]))
    BY <1>5 DEF Rows
  <2> QED
    BY <1>1, <1>3, <2>1, <2>2
<1>6. CASE Kind(path) = "results"
  <2>1. Rows = SongRows(Shown("found"))
    BY <1>6 DEF Rows
  <2>2. Range(Shown("found")) \subseteq Songs
    BY <1>1, <1>2 DEF Range
  <2>3. \A r \in Rows : r \in Row /\ IsRow(r) /\ r.song \in Range(Shown("found"))
    BY <2>1, <2>2 DEF SongRows, Row, IsRow
  <2> QED
    BY <1>1, <1>2, <2>3
<1>7. CASE Kind(path) \notin {"album", "playlist", "results"}
  BY <1>7 DEF Rows
<1> QED
  BY <1>4, <1>5, <1>6, <1>7

-----------------------------------------------------------------------------
(* The kinds of steps, without forms and menus. *)

\* Requests are about tracks and playlists that are there.
RequestsMade ==
    \A i \in DOMAIN req :
        /\ req[i].op \in {"upload", "createFor", "addTo", "add", "delete"} => req[i].song \in Songs
        /\ req[i].op = "create" => req[i].song = Nil
        /\ req[i].op \in {"add", "addTo"}
              \/ (req[i].op \in {"create", "createFor"} /\ req[i].stage = "ok")
                => req[i].list \in Playlists /\ Exists(req[i].list)

Deeds ==
    /\ overlay \in Overlay /\ req \in Requests /\ Len(req) <= MaxRequests
    /\ visits \in Nat /\ visits + Len(req) <= MaxDeeds

Looks == Stay /\ UNCHANGED <<server, path, query>>

\* To a page that is there.
Goes ==
    /\ UNCHANGED server
    /\ path' \in Paths /\ (Kind(path') = "playlist" => Exists(path'[2]))
    /\ \/ query' = query /\ PageKey(path') \in Active
       \/ query' = Mounted(query, PageKey(path'))

Asks(r) ==
    /\ Grows(r) /\ UNCHANGED <<server, path, query>>
    /\ r \in Request /\ r.stage = "sent"
    /\ \/ /\ r.op = "upload" /\ r.song \in Songs \ Range(FirstSongs)
          /\ \A i \in DOMAIN req : req[i].song # r.song
       \/ r.op = "create" /\ r.song = Nil
       \/ /\ r.op \in {"createFor", "add", "delete"}
          /\ IsRow(overlay.form) /\ r.song = overlay.form.song /\ r.song \in Songs
          /\ r.op = "add" => r.list \in Playlists /\ Exists(r.list)

Left(r) == Ended(IF r.op = "upload" THEN r.song ELSE Nil)

\* What becomes of a request that is carried out, and of the cache.
Outcome(i, list) ==
    /\ i \in DOMAIN req /\ req[i].stage \in {"sent", "lost"}
    /\ req[i].stage = "sent" =>
           Turns(i, [req[i] EXCEPT !.list = list, !.stage = "ok"]) /\ UNCHANGED query
    /\ req[i].stage = "lost" =>
           Turns(i, Left(req[i])) /\ query' = Unheard(query, Invalidated(req[i]))
    /\ UNCHANGED path

Uploads(i) ==
    /\ req[i].op = "upload" /\ Outcome(i, req[i].list)
    /\ library' = <<req[i].song>> \o library /\ UNCHANGED <<lists, wanted>>

CreatesOne(i) ==
    /\ req[i].op \in {"create", "createFor"}
    /\ \E p \in Playlists :
           /\ ~Exists(p) /\ Outcome(i, p)
           /\ lists' = [lists EXCEPT ![p] = <<>>]
           /\ wanted' = [wanted EXCEPT ![p] =
                  IF req[i].stage = "sent" THEN req[i].song ELSE Nil]
    /\ UNCHANGED library

AddsOne(i) ==
    /\ req[i].op \in {"add", "addTo"} /\ Outcome(i, req[i].list)
    /\ req[i].song \in Range(library)
    /\ lists' = [lists EXCEPT ![req[i].list] = Append(Without(@, req[i].song), req[i].song)]
    /\ UNCHANGED <<library, wanted>>

DeletesOne(i) ==
    /\ req[i].op = "delete" /\ Outcome(i, req[i].list)
    /\ req[i].song \in Range(library)
    /\ library' = Without(library, req[i].song)
    /\ lists' = [p \in Playlists |-> IF Exists(p) THEN Without(lists[p], req[i].song) ELSE Nil]
    /\ UNCHANGED wanted

Fails(i) ==
    /\ i \in DOMAIN req /\ req[i].stage \in {"sent", "lost"}
    /\ Turns(i, IF req[i].stage = "lost" THEN Ended(Nil) ELSE [req[i] EXCEPT !.stage = "failed"])
    /\ UNCHANGED <<server, path, query>>

Renews(i) ==
    /\ i \in DOMAIN req /\ req[i].stage = "ok" /\ req[i].op \in {"upload", "add", "addTo", "delete"}
    /\ Turns(i, Left(req[i]))
    /\ query' = Invalidate(query, Invalidated(req[i]))
    /\ UNCHANGED <<server, path>>

Arrives(i) ==
    /\ i \in DOMAIN req /\ req[i].stage = "ok" /\ req[i].op = "create"
    /\ Turns(i, Ended(Nil)) /\ Goes

GoesOn(i) ==
    /\ i \in DOMAIN req /\ req[i].stage = "ok" /\ req[i].op = "createFor"
    /\ Turns(i, Sent("addTo", req[i].song, req[i].list, req[i].form))
    /\ UNCHANGED <<server, path, query>>

Ends(i) ==
    /\ i \in DOMAIN req
    /\ \/ req[i].stage = "failed" /\ Turns(i, Ended(Nil)) /\ UNCHANGED query
       \/ req[i].stage = "sent" /\ Turns(i, [req[i] EXCEPT !.stage = "lost"]) /\ UNCHANGED query
       \/ /\ req[i].stage = "ok" /\ Turns(i, Left(req[i]))
          /\ query' = Unheard(query, Invalidated(req[i]))
    /\ wanted' = Dropped(i)
    /\ UNCHANGED <<library, lists, path>>

Fetches(k) ==
    /\ k \in Keys
    /\ \/ /\ query[k].stage = "sent"
          /\ query' = [query EXCEPT ![k].stage = "served", ![k].got = Listing(k)]
       \/ /\ query[k].stage = "served"
          /\ query' = [query EXCEPT ![k].stage = "idle", ![k].data = query[k].got, ![k].got = Nil]
       \/ /\ query[k].stage = "sent"
          /\ query' = [query EXCEPT ![k].stage = "idle", ![k].behind = TRUE]
    /\ Stay /\ UNCHANGED <<server, path>>

\* What the user does.
Acts == Looks \/ (Stay /\ Goes) \/ (\E r : Asks(r))

Changes ==
    \/ Looks \/ (Stay /\ Goes) \/ (\E r : Asks(r))
    \/ \E i \in DOMAIN req :
           \/ Uploads(i) \/ CreatesOne(i) \/ AddsOne(i) \/ DeletesOne(i)
           \/ Fails(i) \/ Renews(i) \/ Arrives(i) \/ GoesOn(i) \/ Ends(i)
    \/ \E k \in Keys : Fetches(k)

LEMMA LinksThere ==
  ASSUME NEW p \in Links
  PROVE  Kind(p) = "playlist" => Exists(p[2])
<1>1. \A id : Kind(AlbumPath(id)) = "album"
  BY DEF Kind, AlbumPath
<1>2. \A q \in PlaylistCards : Exists(q[2])
  BY DEF PlaylistCards, PlaylistPath
<1>3. \A q \in Sidebar : Kind(q) = "playlist" => Exists(q[2])
  BY <1>2 DEF Sidebar, Page, Kind
<1>4. \A q \in Home : Kind(q) = "playlist" => Exists(q[2])
  BY <1>1, <1>2 DEF Home, AlbumCards, Page, Kind
<1>5. \A q \in Search : Kind(q) # "playlist"
  BY <1>1 DEF Search, AlbumCards
<1>6. \A q \in Library : Kind(q) # "playlist"
  BY <1>1 DEF Library
<1> QED
  BY <1>3, <1>4, <1>5, <1>6 DEF Links

LEMMA RequestKept ==
  ASSUME req \in Requests
  PROVE  DOMAIN req = 1..Len(req) /\ Len(req) \in Nat /\ \A i \in DOMAIN req : req[i] \in Request \cup Over
  BY DEF Requests

LEMMA EndedOver ==
  ASSUME NEW song \in Songs \cup {Nil}
  PROVE  Ended(song) \in Over
  BY DEF Ended, Over

\* A step that renders the same requests.
LEMMA SameRequests ==
  ASSUME TypeOK, NEW o \in Overlay, Rendered(o, req)
  PROVE  Stay /\ overlay' \in Overlay /\ req' \in Requests /\ Len(req') = Len(req)
<1>1. req \in Requests
  BY DEF TypeOK, Requests
<1> QED
  BY <1>1, RenderedKeeps DEF Stay

LEMMA UserSteps ==
  ASSUME TypeOK, RequestsMade, User
  PROVE  Deeds' /\ Acts
<1>1. /\ overlay \in Overlay /\ req \in Requests /\ Len(req) \in Nat
      /\ visits \in Nat /\ Len(req) <= MaxRequests /\ visits + Len(req) <= MaxDeeds
      /\ path \in Paths /\ overlay.form \in Form /\ query \in [Keys -> Query]
  BY RequestKept DEF TypeOK, Requests, Overlay
<1>2. MaxRequests \in Nat /\ MaxDeeds \in Nat
  BY BoundsAssumption
<1>3. NoOverlay \in Overlay /\ Dialog("upload") \in Form /\ Dialog("create") \in Form
      /\ \A f \in Form : Opened(f) \in Overlay
  BY DEF NoOverlay, Opened, Overlay, Form
<1>4. ASSUME NEW p \in Paths, Kind(p) = "playlist" => Exists(p[2]), NEW o \in Overlay, Goto(p, o)
      PROVE  Deeds' /\ Acts
  <2>1. Rendered(o, req) /\ path' = p /\ visits + Len(req) < MaxDeeds /\ visits' = visits + 1
        /\ UNCHANGED server
    BY <1>4 DEF Goto, MoreDeeds
  <2>2. Stay /\ overlay' \in Overlay /\ req' \in Requests /\ Len(req') = Len(req)
    BY <2>1, SameRequests
  <2>3. \/ query' = query /\ PageKey(path') \in Active
        \/ query' = Mounted(query, PageKey(path'))
    BY <1>4 DEF Goto, PageKey, Active
  <2>4. Deeds'
    BY <1>1, <1>2, <2>1, <2>2 DEF Deeds
  <2> QED
    BY <1>4, <2>1, <2>2, <2>3, <2>4 DEF Acts, Goes
<1>5. ASSUME NEW o \in Overlay, Show(o)
      PROVE  Deeds' /\ Acts
  <2>1. Rendered(o, req) /\ UNCHANGED <<server, visits, path, query>>
    BY <1>5 DEF Show
  <2>2. Stay /\ overlay' \in Overlay /\ req' \in Requests /\ Len(req') = Len(req)
    BY <2>1, SameRequests
  <2>3. Deeds'
    BY <1>1, <2>1, <2>2 DEF Deeds
  <2> QED
    BY <2>1, <2>2, <2>3 DEF Acts, Looks
<1>6. ASSUME NEW r \in Request, NEW rs, Alike(rs), NEW o \in Overlay, Rendered(o, Append(rs, r)),
             MoreRequests, visits' = visits
      PROVE  Deeds' /\ Grows(r)
  <2>1. Grows(r) /\ req' \in Requests /\ Len(req') = Len(req) + 1
    BY <1>1, <1>6, SendGrows
  <2>2. overlay' \in Overlay
    <3>1. Append(rs, r) \in Requests
      BY <1>6 DEF Alike, Requests
    <3> QED
      BY <1>6, <3>1, RenderedKeeps
  <2>3. Len(req) < MaxRequests /\ visits + Len(req) < MaxDeeds
    BY <1>6 DEF MoreRequests, MoreDeeds
  <2> QED
    BY <1>1, <1>2, <1>6, <2>1, <2>2, <2>3 DEF Deeds
<1>7. Alike(req)
  BY <1>1, AlikeSelf
<1>8. ASSUME IsRow(overlay.form)
      PROVE  overlay.form.song \in Songs /\ overlay.form \in Row
  BY <1>1, <1>8 DEF Form, IsRow, Row, Dialog, NoForm
<1>9. CASE \E p \in Links \cap Paths : Follow(p)
  <2>1. PICK p \in Links \cap Paths : Follow(p)
    BY <1>9
  <2> QED
    BY <1>3, <1>4, <2>1, LinksThere DEF Follow
<1>10. CASE \E p \in Paths : Back(p)
  BY <1>1, <1>4, <1>10 DEF Back
<1>11. CASE \E d \in {"upload", "create"} : OpenDialog(d)
  BY <1>3, <1>5, <1>11 DEF OpenDialog
<1>12. CASE Close
  BY <1>3, <1>5, <1>12 DEF Close
<1>13. CASE \E row \in Rows : OpenMenu(row)
  <2>1. Rows \subseteq Form
    BY <1>1, RowsShown DEF Form
  <2> QED
    BY <1>3, <1>5, <1>13, <2>1 DEF OpenMenu
<1>14. CASE \E m \in {"root", "newPlaylist", "confirmDelete"} : SetMode(m)
  <2>1. PICK m \in {"root", "newPlaylist", "confirmDelete"} : SetMode(m)
    BY <1>14
  <2>2. [overlay EXCEPT !.mode = m] \in Overlay
    BY <1>1 DEF Overlay
  <2> QED
    BY <1>5, <2>1, <2>2 DEF SetMode
<1>15. CASE \E s \in Songs : SubmitUpload(s)
  <2>1. PICK s \in Songs : SubmitUpload(s)
    BY <1>15
  <2> DEFINE r == Sent("upload", s, Nil, overlay.form)
  <2>2. r \in Request /\ r.op = "upload" /\ r.song = s /\ r.stage = "sent"
    BY <1>1 DEF Sent, Request
  <2> HIDE DEF r
  <2>3. Rendered(overlay, Append(req, r)) /\ MoreRequests /\ UNCHANGED <<server, visits, path, query>>
        /\ s \notin Range(FirstSongs) /\ \A i \in DOMAIN req : req[i].song # s
    BY <2>1 DEF SubmitUpload, Send, r
  <2>4. Deeds' /\ Grows(r)
    BY <1>1, <1>6, <1>7, <2>2, <2>3
  <2>5. Asks(r)
    BY <2>2, <2>3, <2>4 DEF Asks
  <2> QED
    BY <2>4, <2>5 DEF Acts
<1>16. CASE SubmitCreate
  <2> DEFINE r == Sent("create", Nil, Nil, overlay.form)
  <2>2. r \in Request /\ r.op = "create" /\ r.song = Nil /\ r.stage = "sent"
    BY <1>1 DEF Sent, Request
  <2> HIDE DEF r
  <2>3. Rendered(overlay, Append(req, r)) /\ MoreRequests /\ UNCHANGED <<server, visits, path, query>>
    BY <1>16 DEF SubmitCreate, Send, r
  <2>4. Deeds' /\ Grows(r)
    BY <1>1, <1>6, <1>7, <2>2, <2>3
  <2>5. Asks(r)
    BY <2>2, <2>3, <2>4 DEF Asks
  <2> QED
    BY <2>4, <2>5 DEF Acts
<1>17. CASE createAndAdd
  <2> DEFINE r == Sent("createFor", overlay.form.song, Nil, overlay.form)
  <2>1. IsRow(overlay.form) /\ overlay.form.song \in Songs
    BY <1>8, <1>17 DEF createAndAdd
  <2>2. r \in Request /\ r.op = "createFor" /\ r.song = overlay.form.song /\ r.stage = "sent"
    BY <1>1, <2>1 DEF Sent, Request
  <2> HIDE DEF r
  <2>3. Rendered(overlay, Append(req, r)) /\ MoreRequests /\ UNCHANGED <<server, visits, path, query>>
    BY <1>17 DEF createAndAdd, Send, r
  <2>4. Deeds' /\ Grows(r)
    BY <1>1, <1>6, <1>7, <2>2, <2>3
  <2>5. Asks(r)
    BY <2>1, <2>2, <2>3, <2>4 DEF Asks
  <2> QED
    BY <2>4, <2>5 DEF Acts
<1>18. CASE confirmDelete
  <2> DEFINE r == Sent("delete", overlay.form.song, Nil, overlay.form)
  <2>1. IsRow(overlay.form) /\ overlay.form.song \in Songs
    BY <1>8, <1>18 DEF confirmDelete
  <2>2. r \in Request /\ r.op = "delete" /\ r.song = overlay.form.song /\ r.stage = "sent"
    BY <1>1, <2>1 DEF Sent, Request
  <2> HIDE DEF r
  <2>3. Rendered(NoOverlay, Append(req, r)) /\ MoreRequests /\ UNCHANGED <<server, visits, path, query>>
    BY <1>18 DEF confirmDelete, r
  <2>4. Deeds' /\ Grows(r)
    BY <1>3, <1>6, <1>7, <2>2, <2>3
  <2>5. Asks(r)
    BY <2>1, <2>2, <2>3, <2>4 DEF Asks
  <2> QED
    BY <2>4, <2>5 DEF Acts
<1>19. CASE \E p \in Playlists : addToPlaylist(p)
  <2>0. PICK p \in Playlists : addToPlaylist(p)
    BY <1>19
  <2> DEFINE r == Sent("add", overlay.form.song, p, overlay.form)
             rs == AddsAgain(overlay.form)
  <2>1. IsRow(overlay.form) /\ overlay.form.song \in Songs /\ Exists(p)
    BY <1>8, <2>0 DEF addToPlaylist
  <2>2. r \in Request /\ r.op = "add" /\ r.song = overlay.form.song /\ r.list = p /\ r.stage = "sent"
    BY <1>1, <2>1 DEF Sent, Request
  <2> HIDE DEF r, rs
  <2>3. Rendered(NoOverlay, Append(rs, r)) /\ MoreRequests /\ UNCHANGED <<server, visits, path, query>>
    BY <2>0 DEF addToPlaylist, r, rs
  <2>4. Alike(rs)
    BY <1>1, AddsAgainAlike DEF rs
  <2>5. Deeds' /\ Grows(r)
    BY <1>3, <1>6, <2>2, <2>3, <2>4
  <2>6. Asks(r)
    BY <2>1, <2>2, <2>3, <2>5 DEF Asks
  <2> QED
    BY <2>5, <2>6 DEF Acts
<1> QED
  BY <1>9, <1>10, <1>11, <1>12, <1>13, <1>14, <1>15, <1>16, <1>17, <1>18, <1>19 DEF User

LEMMA ServerSteps ==
  ASSUME TypeOK, RequestsMade, Server
  PROVE  Deeds' /\ Changes
<1>1. /\ overlay \in Overlay /\ req \in Requests /\ Len(req) <= MaxRequests
      /\ visits \in Nat /\ visits + Len(req) <= MaxDeeds
      /\ DOMAIN req = 1..Len(req) /\ Len(req) \in Nat
      /\ \A i \in DOMAIN req : req[i] \in Request \cup Over
  BY RequestKept DEF TypeOK, Requests
<1>2. ASSUME NEW i \in DOMAIN req, req[i].stage \in {"sent", "lost"}
      PROVE  req[i] \in Request /\ Left(req[i]) \in Over
  <2>1. req[i] \in Request
    BY <1>1, <1>2 DEF Over
  <2> QED
    BY <2>1, EndedOver DEF Left, Request
<1>3. ASSUME NEW i \in DOMAIN req, NEW r \in Request \cup Over, req' = [req EXCEPT ![i] = r],
             UNCHANGED <<overlay, visits>>
      PROVE  Deeds' /\ Turns(i, r)
  <2>1. req' \in Requests /\ Len(req') = Len(req)
    BY <1>1, <1>3 DEF Requests
  <2>2. Turns(i, r)
    BY <1>1, <1>3 DEF Turns, Same
  <2> QED
    BY <1>1, <1>3, <2>1, <2>2 DEF Deeds
<1>4. ASSUME NEW i \in DOMAIN req, Serve(i)
      PROVE  Deeds' /\ Changes
  <2>1. req[i].stage \in {"sent", "lost"} /\ UNCHANGED <<path, overlay, visits>>
    BY <1>4 DEF Serve
  <2>2. req[i] \in Request /\ Left(req[i]) \in Over
    BY <1>2, <2>1
  <2>3. ASSUME NEW list \in Playlists \cup {Nil}, Done(i, [req[i] EXCEPT !.list = list]),
               Invalidated([req[i] EXCEPT !.list = list]) = Invalidated(req[i])
        PROVE  Deeds' /\ Outcome(i, list)
    <3>1. CASE req[i].stage = "sent"
      <4> DEFINE r == [req[i] EXCEPT !.list = list, !.stage = "ok"]
      <4>1. r \in Request
        BY <2>2 DEF Request
      <4>2. req' = [req EXCEPT ![i] = r] /\ UNCHANGED query
        BY <2>2, <2>3, <3>1 DEF Done, Request
      <4>3. Deeds' /\ Turns(i, r)
        BY <1>3, <2>1, <4>1, <4>2
      <4> QED
        BY <2>1, <3>1, <4>2, <4>3 DEF Outcome
    <3>2. CASE req[i].stage = "lost"
      <4>1. req' = [req EXCEPT ![i] = Left(req[i])] /\ query' = Unheard(query, Invalidated(req[i]))
        BY <2>3, <3>2 DEF Done, Finished, Left
      <4>2. Deeds' /\ Turns(i, Left(req[i]))
        BY <1>3, <2>1, <2>2, <4>1
      <4> QED
        BY <2>1, <3>2, <4>1, <4>2 DEF Outcome
    <3> QED
      BY <2>1, <3>1, <3>2
  <2>4. req[i].list \in Playlists \cup {Nil} /\ [req[i] EXCEPT !.list = req[i].list] = req[i]
    BY <2>2 DEF Request
  <2>5. ASSUME Done(i, req[i]) PROVE Deeds' /\ Outcome(i, req[i].list)
    BY <2>3, <2>4, <2>5
  <2>6. CASE /\ req[i].op = "upload"
             /\ library' = <<req[i].song>> \o library
             /\ Done(i, req[i]) /\ UNCHANGED <<lists, wanted>>
    <3>1. Deeds' /\ Uploads(i)
      BY <2>5, <2>6 DEF Uploads
    <3> QED
      BY <3>1 DEF Changes
  <2>7. CASE /\ req[i].op \in {"create", "createFor"}
             /\ \E p \in {x \in Playlists : ~Exists(x)} :
                 /\ lists' = [lists EXCEPT ![p] = <<>>]
                 /\ wanted' = [wanted EXCEPT ![p] =
                        IF req[i].stage = "sent" THEN req[i].song ELSE Nil]
                 /\ Done(i, [req[i] EXCEPT !.list = p])
             /\ UNCHANGED library
    <3>1. PICK p \in Playlists :
              /\ ~Exists(p)
              /\ lists' = [lists EXCEPT ![p] = <<>>]
              /\ wanted' = [wanted EXCEPT ![p] =
                     IF req[i].stage = "sent" THEN req[i].song ELSE Nil]
              /\ Done(i, [req[i] EXCEPT !.list = p])
      BY <2>7
    <3>2. Invalidated([req[i] EXCEPT !.list = p]) = Invalidated(req[i])
      BY <2>2, <2>7 DEF Invalidated, Request
    <3>3. Deeds' /\ Outcome(i, p)
      BY <2>3, <3>1, <3>2
    <3>4. CreatesOne(i)
      BY <2>7, <3>1, <3>3 DEF CreatesOne
    <3> QED
      BY <3>3, <3>4 DEF Changes
  <2>8. CASE /\ req[i].op \in {"add", "addTo"}
             /\ req[i].song \in Range(library)
             /\ lists' = [lists EXCEPT ![req[i].list] = Append(Without(@, req[i].song), req[i].song)]
             /\ Done(i, req[i]) /\ UNCHANGED <<library, wanted>>
    <3>1. Deeds' /\ AddsOne(i)
      BY <2>5, <2>8 DEF AddsOne
    <3> QED
      BY <3>1 DEF Changes
  <2>9. CASE /\ req[i].op = "delete"
             /\ req[i].song \in Range(library)
             /\ library' = Without(library, req[i].song)
             /\ lists' = [p \in Playlists |->
                    IF Exists(p) THEN Without(lists[p], req[i].song) ELSE Nil]
             /\ Done(i, req[i]) /\ UNCHANGED wanted
    <3>1. Deeds' /\ DeletesOne(i)
      BY <2>5, <2>9 DEF DeletesOne
    <3> QED
      BY <3>1 DEF Changes
  <2> QED
    BY <1>4, <2>6, <2>7, <2>8, <2>9 DEF Serve
<1>5. ASSUME NEW i \in DOMAIN req, Refuse(i)
      PROVE  Deeds' /\ Changes
  <2> DEFINE r == IF req[i].stage = "lost" THEN Ended(Nil) ELSE [req[i] EXCEPT !.stage = "failed"]
  <2>1. /\ req[i].stage \in {"sent", "lost"} /\ req' = [req EXCEPT ![i] = r]
        /\ UNCHANGED <<server, path, query, overlay, visits>>
    BY <1>5 DEF Refuse, client
  <2>2. r \in Request \cup Over
    <3>1. Ended(Nil) \in Over
      BY EndedOver
    <3>2. [req[i] EXCEPT !.stage = "failed"] \in Request
      BY <1>2, <2>1 DEF Request
    <3> QED
      BY <3>1, <3>2
  <2>3. Deeds' /\ Turns(i, r)
    BY <1>3, <2>1, <2>2
  <2>4. Fails(i)
    BY <2>1, <2>3 DEF Fails
  <2> QED
    BY <2>3, <2>4 DEF Changes
<1>6. ASSUME NEW k \in Keys, ServeFetch(k)
      PROVE  Deeds' /\ Changes
  <2>1. UNCHANGED <<server, visits, path, overlay, req>> /\ Fetches(k)
    <3>1. Stay
      BY <1>6 DEF ServeFetch, Stay, Same
    <3> QED
      BY <1>6, <3>1 DEF ServeFetch, Fetches
  <2>2. Deeds'
    BY <1>1, <2>1 DEF Deeds
  <2> QED
    BY <2>1, <2>2 DEF Changes
<1> QED
  BY <1>4, <1>5, <1>6 DEF Server

LEMMA NetworkSteps ==
  ASSUME TypeOK, RequestsMade, Network
  PROVE  Deeds' /\ Changes
<1>1. /\ overlay \in Overlay /\ req \in Requests /\ Len(req) <= MaxRequests
      /\ visits \in Nat /\ visits + Len(req) <= MaxDeeds
      /\ DOMAIN req = 1..Len(req) /\ Len(req) \in Nat
      /\ \A i \in DOMAIN req : req[i] \in Request \cup Over
  BY RequestKept DEF TypeOK, Requests
<1>2. ASSUME NEW i \in DOMAIN req, req[i].stage \in {"sent", "ok", "failed"}
      PROVE  req[i] \in Request /\ Left(req[i]) \in Over
  <2>1. req[i] \in Request
    BY <1>1, <1>2 DEF Over
  <2> QED
    BY <2>1, EndedOver DEF Left, Request
<1>3. Alike(req) /\ NoOverlay \in Overlay
  BY <1>1, AlikeSelf DEF NoOverlay, Opened, Overlay, Form
<1>4. ASSUME NEW i \in DOMAIN req, NEW rs, Alike(rs), NEW r \in Request \cup Over,
             NEW o \in Overlay, Rendered(o, [rs EXCEPT ![i] = r]), UNCHANGED visits
      PROVE  Deeds' /\ Turns(i, r)
  <2>1. Turns(i, r) /\ req' \in Requests /\ Len(req') = Len(req)
    BY <1>1, <1>4, AnswerTurns
  <2>2. overlay' \in Overlay
    <3>1. [rs EXCEPT ![i] = r] \in Requests
      BY <1>1, <1>4 DEF Alike, Requests
    <3> QED
      BY <1>4, <3>1, RenderedKeeps
  <2> QED
    BY <1>1, <1>4, <2>1, <2>2 DEF Deeds
<1>5. ASSUME NEW i \in DOMAIN req, NEW r \in Request \cup Over, req' = [req EXCEPT ![i] = r],
             UNCHANGED <<overlay, visits>>
      PROVE  Deeds' /\ Turns(i, r)
  <2>1. req' \in Requests /\ Len(req') = Len(req)
    BY <1>1, <1>5 DEF Requests
  <2>2. Turns(i, r)
    BY <1>1, <1>5 DEF Turns, Same
  <2> QED
    BY <1>1, <1>5, <2>1, <2>2 DEF Deeds
<1>6. \A form : OnClose(form) \in Overlay
  BY <1>1, <1>3 DEF OnClose
<1>7. ASSUME NEW i \in DOMAIN req, Receive(i)
      PROVE  Deeds' /\ Changes
  <2>1. req[i].stage = "ok"
    BY <1>7 DEF Receive
  <2>2. req[i] \in Request /\ Left(req[i]) \in Over
    BY <1>2, <2>1
  <2>3. Finished(i) = [req EXCEPT ![i] = Left(req[i])]
    BY DEF Finished, Left
  <2>4. CASE ReceiveUpload(i) \/ ReceiveAdd(i) \/ ReceiveDelete(i)
    <3>1. /\ req[i].op \in {"upload", "add", "addTo", "delete"} /\ path' = path
          /\ query' = Invalidate(query, Invalidated(req[i])) /\ UNCHANGED <<server, visits>>
          /\ \E o \in Overlay : Rendered(o, Finished(i))
      BY <1>1, <1>6, <2>4 DEF ReceiveUpload, ReceiveAdd, ReceiveDelete
    <3>2. Deeds' /\ Turns(i, Left(req[i]))
      BY <1>3, <1>4, <2>2, <2>3, <3>1
    <3>3. Renews(i)
      BY <2>1, <3>1, <3>2 DEF Renews
    <3> QED
      BY <3>2, <3>3 DEF Changes
  <2>5. CASE ReceiveCreate(i)
    <3>1. /\ req[i].op = "create" /\ path' = PlaylistPath(req[i].list)
          /\ query' = IF path' = path THEN query ELSE Mounted(query, req[i].list)
          /\ UNCHANGED <<server, visits>> /\ Rendered(OnClose(Dialog("create")), Finished(i))
      BY <2>5 DEF ReceiveCreate
    <3>2. Left(req[i]) = Ended(Nil)
      BY <3>1 DEF Left
    <3>3. Deeds' /\ Turns(i, Ended(Nil))
      BY <1>3, <1>4, <1>6, <2>2, <2>3, <3>1, <3>2
    <3>4. req[i].list \in Playlists /\ Exists(req[i].list)
      BY <2>1, <3>1 DEF RequestsMade
    <3>5. path' \in Paths /\ path'[2] = req[i].list /\ Kind(path') = "playlist"
      BY <3>1, <3>4, PathsAssumption DEF PlaylistPath, Kind
    <3>6. PageKey(path') = req[i].list
      BY <3>5 DEF PageKey
    <3>7. path' = path => PageKey(path') \in Active
      BY DEF Active
    <3>8. Arrives(i)
      BY <2>1, <3>1, <3>3, <3>4, <3>5, <3>6, <3>7 DEF Arrives, Goes
    <3> QED
      BY <3>3, <3>8 DEF Changes
  <2>6. CASE ReceiveCreateFor(i)
    <3> DEFINE r  == Sent("addTo", req[i].song, req[i].list, req[i].form)
               rs == AddsAgain(req[i].form)
    <3>1. req[i].op = "createFor" /\ UNCHANGED <<server, visits, path, query>>
          /\ Rendered(overlay, [rs EXCEPT ![i] = r])
      BY <2>6 DEF ReceiveCreateFor
    <3>2. r \in Request
      BY <2>2 DEF Sent, Request
    <3>3. Alike(rs)
      BY <1>1, AddsAgainAlike
    <3>4. Deeds' /\ Turns(i, r)
      <4> HIDE DEF r, rs
      <4> QED
        BY <1>1, <1>4, <3>1, <3>2, <3>3
    <3>5. GoesOn(i)
      BY <2>1, <3>1, <3>4 DEF GoesOn
    <3> QED
      BY <3>4, <3>5 DEF Changes
  <2> QED
    BY <1>7, <2>4, <2>5, <2>6 DEF Receive
<1>8. ASSUME NEW i \in DOMAIN req, ReceiveFailure(i)
      PROVE  Deeds' /\ Changes
  <2>1. /\ req[i].stage = "failed" /\ req' = [req EXCEPT ![i] = Ended(Nil)] /\ wanted' = Dropped(i)
        /\ UNCHANGED <<library, lists, path, query, overlay, visits>>
    BY <1>8 DEF ReceiveFailure, client
  <2>2. Deeds' /\ Turns(i, Ended(Nil))
    BY <1>5, <2>1, EndedOver
  <2>3. Ends(i)
    BY <2>1, <2>2 DEF Ends
  <2> QED
    BY <2>2, <2>3 DEF Changes
<1>9. ASSUME NEW i \in DOMAIN req, GiveUp(i)
      PROVE  Deeds' /\ Changes
  <2>1. /\ req[i].stage \in {"sent", "ok"} /\ wanted' = Dropped(i)
        /\ UNCHANGED <<library, lists, path, overlay, visits>>
    BY <1>9 DEF GiveUp
  <2>2. req[i] \in Request /\ Left(req[i]) \in Over
    BY <1>2, <2>1
  <2>3. CASE req[i].stage = "sent"
    <3> DEFINE r == [Formless(req[i]) EXCEPT !.stage = "lost"]
    <3>1. req' = [req EXCEPT ![i] = r] /\ UNCHANGED query
      BY <1>9, <2>3 DEF GiveUp
    <3>2. r \in Request /\ Same(r, [req[i] EXCEPT !.stage = "lost"])
      <4>1. NoForm \in Form
        BY DEF Form
      <4> QED
        BY <2>2, <4>1 DEF Formless, Request, Same
    <3>3. Deeds' /\ Turns(i, r)
      <4> HIDE DEF r
      <4> QED
        BY <1>5, <2>1, <3>1, <3>2
    <3>4. Turns(i, [req[i] EXCEPT !.stage = "lost"])
      <4> HIDE DEF r
      <4> QED
        BY <3>2, <3>3 DEF Turns, Same
    <3>5. Ends(i)
      BY <2>1, <2>3, <3>1, <3>4 DEF Ends
    <3> QED
      BY <3>3, <3>5 DEF Changes
  <2>4. CASE req[i].stage = "ok"
    <3>1. req' = [req EXCEPT ![i] = Left(req[i])] /\ query' = Unheard(query, Invalidated(req[i]))
      BY <1>9, <2>4 DEF GiveUp, Finished, Left
    <3>2. Deeds' /\ Turns(i, Left(req[i]))
      BY <1>5, <2>1, <2>2, <3>1
    <3>3. Ends(i)
      BY <2>1, <2>4, <3>1, <3>2 DEF Ends
    <3> QED
      BY <3>2, <3>3 DEF Changes
  <2> QED
    BY <2>1, <2>3, <2>4
<1>10. ASSUME NEW k \in Keys, ReceiveFetch(k)
       PROVE  Deeds' /\ Changes
  <2>1. /\ query[k].stage = "served" /\ path' = path /\ UNCHANGED <<server, visits>>
        /\ query' = [query EXCEPT ![k].stage = "idle", ![k].data = query[k].got, ![k].got = Nil]
        /\ Rendered(overlay, req)
    BY <1>10 DEF ReceiveFetch
  <2>2. Stay /\ overlay' \in Overlay /\ req' \in Requests /\ Len(req') = Len(req)
    BY <1>1, <2>1, SameRequests
  <2>3. Deeds'
    BY <1>1, <2>1, <2>2 DEF Deeds
  <2>4. Fetches(k)
    BY <2>1, <2>2 DEF Fetches
  <2> QED
    BY <2>3, <2>4 DEF Changes
<1>11. ASSUME NEW k \in Keys, FetchFails(k)
       PROVE  Deeds' /\ Changes
  <2>1. UNCHANGED <<server, visits, path, overlay, req>>
    BY <1>11 DEF FetchFails
  <2>2. Deeds' /\ Stay
    BY <1>1, <2>1 DEF Deeds, Stay, Same
  <2>3. Fetches(k)
    BY <1>11, <2>1, <2>2 DEF FetchFails, Fetches
  <2> QED
    BY <2>2, <2>3 DEF Changes
<1> QED
  BY <1>7, <1>8, <1>9, <1>10, <1>11 DEF Network

\* Every step is of one of the kinds.
LEMMA StepKinds ==
  ASSUME TypeOK, RequestsMade, [Next]_vars
  PROVE  Deeds' /\ Changes
<1>1. CASE UNCHANGED vars
  <2>1. UNCHANGED <<server, path, query, overlay, req, visits>>
    BY <1>1 DEF vars, client
  <2>2. Deeds'
    BY <2>1 DEF TypeOK, Deeds, Requests
  <2>3. Looks
    BY <2>1 DEF Looks, Stay, Same
  <2> QED
    BY <2>2, <2>3 DEF Changes
<1>2. CASE User
  BY <1>2, UserSteps DEF Acts, Changes
<1> QED
  BY <1>1, <1>2, ServerSteps, NetworkSteps DEF Next

-----------------------------------------------------------------------------
(* The tracks the library has had, and those that are to come. *)

Uploaded(r) == r.op = "over" \/ (r.op = "upload" /\ r.stage = "ok")

Waiting(r) == r.op = "upload" /\ r.stage \in {"sent", "lost"}

Known == Range(FirstSongs) \cup {req[i].song : i \in {j \in DOMAIN req : Uploaded(req[j])}}

RequestsKnown ==
    /\ \A i \in DOMAIN req :
           /\ req[i].op # "upload" => req[i].song \in Known \cup {Nil}
           /\ Waiting(req[i]) => req[i].song \notin Known
    /\ \A i, j \in DOMAIN req :
           Waiting(req[i]) /\ Waiting(req[j]) /\ req[i].song = req[j].song => i = j

ListsKnown ==
    /\ Range(library) \subseteq Known
    /\ \A p \in Playlists : Of(lists[p]) \subseteq Range(library)
    /\ \A k \in Keys : Of(query[k].data) \cup Of(query[k].got) \subseteq Known
    /\ \A p \in Playlists : wanted[p] \in Known \cup {Nil}

\* How one request may go on.
Follows(s, r) ==
    \/ /\ r.song = s.song
       /\ Waiting(r) => Waiting(s)
       /\ Uploaded(s) => Uploaded(r)
       /\ s.op = "upload" /\ r.op # "upload" => Uploaded(r)
       /\ Uploaded(r) => Waiting(s) \/ Uploaded(s)
    \/ r.song = Nil /\ ~Uploaded(s) /\ r.op # "upload"

LEMMA SameKind ==
  ASSUME NEW r, NEW s, Same(r, s)
  PROVE  (Uploaded(r) <=> Uploaded(s)) /\ (Waiting(r) <=> Waiting(s))
  BY DEF Same, Uploaded, Waiting

LEMMA StayKnown ==
  ASSUME RequestsKnown, Stay
  PROVE  RequestsKnown' /\ Known' = Known
<1>1. Known' = Known
  BY DEF Stay, Same, Known, Uploaded
<1> QED
  BY <1>1 DEF RequestsKnown, Stay, Same, Waiting

LEMMA GrowsKnown ==
  ASSUME RequestsKnown, NEW r, Grows(r), ~Uploaded(r),
         r.op # "upload" => r.song \in Known \cup {Nil},
         Waiting(r) => r.song \notin Known /\ \A i \in DOMAIN req : req[i].song # r.song
  PROVE  RequestsKnown' /\ Known' = Known
<1>1. PICK n : /\ DOMAIN req' = DOMAIN req \cup {n} /\ n \notin DOMAIN req /\ Same(req'[n], r)
               /\ \A j \in DOMAIN req : Same(req'[j], req[j])
  BY DEF Grows
<1>2. Known' = Known
  <2>1. ~Uploaded(req'[n])
    BY <1>1, SameKind
  <2>2. \A j \in DOMAIN req : req'[j].song = req[j].song /\ (Uploaded(req'[j]) <=> Uploaded(req[j]))
    BY <1>1, SameKind DEF Same
  <2> QED
    BY <1>1, <2>1, <2>2 DEF Known
<1>3. \A j \in DOMAIN req : /\ req'[j].song = req[j].song /\ req'[j].op = req[j].op
                            /\ (Waiting(req'[j]) <=> Waiting(req[j]))
  BY <1>1, SameKind DEF Same
<1>4. req'[n].song = r.song /\ req'[n].op = r.op /\ (Waiting(req'[n]) <=> Waiting(r))
  BY <1>1, SameKind DEF Same
<1>5. \A i \in DOMAIN req' :
          /\ req'[i].op # "upload" => req'[i].song \in Known' \cup {Nil}
          /\ Waiting(req'[i]) => req'[i].song \notin Known'
  BY <1>1, <1>2, <1>3, <1>4 DEF RequestsKnown
<1>6. \A i, j \in DOMAIN req' :
          Waiting(req'[i]) /\ Waiting(req'[j]) /\ req'[i].song = req'[j].song => i = j
  BY <1>1, <1>3, <1>4 DEF RequestsKnown
<1> QED
  BY <1>2, <1>5, <1>6 DEF RequestsKnown

LEMMA TurnsKnown ==
  ASSUME RequestsKnown, RequestsMade, NEW i, NEW r, Turns(i, r), Follows(req[i], r)
  PROVE  /\ RequestsKnown'
         /\ Known' = Known \cup (IF Uploaded(r) THEN {r.song} ELSE {})
<1>1. /\ DOMAIN req' = DOMAIN req /\ i \in DOMAIN req
      /\ \A j \in DOMAIN req \ {i} :
             /\ req'[j].song = req[j].song /\ req'[j].op = req[j].op
             /\ (Waiting(req'[j]) <=> Waiting(req[j])) /\ (Uploaded(req'[j]) <=> Uploaded(req[j]))
      /\ req'[i].song = r.song /\ req'[i].op = r.op
      /\ (Waiting(req'[i]) <=> Waiting(r)) /\ (Uploaded(req'[i]) <=> Uploaded(r))
  BY SameKind DEF Turns, Same
<1>2. Known' = Known \cup (IF Uploaded(r) THEN {r.song} ELSE {})
  <2>1. Uploaded(req[i]) => Uploaded(r) /\ r.song = req[i].song
    BY DEF Follows
  <2> QED
    BY <1>1, <2>1 DEF Known
<1>3. \A j \in DOMAIN req \ {i} : Waiting(req[j]) => req[j].song # Nil
  BY NilAssumption DEF RequestsMade, Waiting
<1>4. ASSUME NEW j \in DOMAIN req \ {i}, Waiting(req[j])
      PROVE  req[j].song \notin Known'
  <2>1. req[j].song \notin Known /\ req[j].song # Nil
    BY <1>3, <1>4 DEF RequestsKnown
  <2>2. CASE Uploaded(r) /\ r.song = req[j].song
    <3>1. r.song = req[i].song /\ (Waiting(req[i]) \/ Uploaded(req[i]))
      BY <2>1, <2>2 DEF Follows
    <3>2. ~Waiting(req[i])
      BY <1>1, <1>4, <2>2, <3>1 DEF RequestsKnown
    <3>3. req[i].song \in Known
      BY <1>1, <3>1, <3>2 DEF Known
    <3> QED
      BY <2>1, <2>2, <3>1, <3>3
  <2> QED
    BY <1>2, <2>1, <2>2
<1>5. Waiting(r) => r.song \notin Known' /\ r.song = req[i].song /\ Waiting(req[i])
  <2>1. Waiting(r) => r.song = req[i].song /\ Waiting(req[i]) /\ ~Uploaded(r)
    BY DEF Follows, Waiting, Uploaded
  <2> QED
    BY <1>1, <1>2, <2>1 DEF RequestsKnown
<1>6. r.op # "upload" => r.song \in Known' \cup {Nil}
  <2>1. CASE r.song = Nil
    BY <2>1
  <2>2. CASE r.song = req[i].song /\ req[i].op # "upload"
    BY <1>1, <1>2, <2>2 DEF RequestsKnown
  <2>3. CASE r.song = req[i].song /\ req[i].op = "upload"
    BY <1>2, <2>3 DEF Follows
  <2> QED
    BY <2>1, <2>2, <2>3 DEF Follows
<1>7. \A j \in DOMAIN req' :
          /\ req'[j].op # "upload" => req'[j].song \in Known' \cup {Nil}
          /\ Waiting(req'[j]) => req'[j].song \notin Known'
  <2>1. \A j \in DOMAIN req \ {i} : req[j].op # "upload" => req[j].song \in Known' \cup {Nil}
    BY <1>2 DEF RequestsKnown
  <2> QED
    BY <1>1, <1>4, <1>5, <1>6, <2>1
<1>8. \A j, k \in DOMAIN req' :
          Waiting(req'[j]) /\ Waiting(req'[k]) /\ req'[j].song = req'[k].song => j = k
  <2>1. \A j \in DOMAIN req' : Waiting(req'[j]) => Waiting(req[j]) /\ req'[j].song = req[j].song
    BY <1>1, <1>5
  <2> QED
    BY <1>1, <2>1 DEF RequestsKnown
<1> QED
  BY <1>2, <1>7, <1>8 DEF RequestsKnown

-----------------------------------------------------------------------------
(* What the requests do to the server's lists. *)

LEMMA OutcomeRequest ==
  ASSUME TypeOK, NEW i, NEW list, Outcome(i, list)
  PROVE  i \in DOMAIN req /\ req[i] \in Request /\ req[i].stage \in {"sent", "lost"}
<1>1. i \in DOMAIN req /\ req[i].stage \in {"sent", "lost"} /\ req[i] \in Request \cup Over
  BY RequestKept DEF Outcome, TypeOK, Requests
<1> QED
  BY <1>1 DEF Over

LEMMA UploadLists ==
  ASSUME TypeOK, RequestsMade, RequestsKnown, ListsKnown, NEW i, Uploads(i)
  PROVE  /\ req[i].song \in Songs /\ req[i].song \notin Known
         /\ library' \in Lists /\ Range(library') = Range(library) \cup {req[i].song}
<1>1. i \in DOMAIN req /\ req[i].op = "upload" /\ req[i].stage \in {"sent", "lost"}
      /\ library' = <<req[i].song>> \o library
  BY OutcomeRequest DEF Uploads
<1>2. req[i].song \in Songs /\ req[i].song \notin Known
  BY <1>1 DEF RequestsMade, RequestsKnown, Waiting
<1>3. library \in Seq(Songs) /\ IsInjective(library) /\ req[i].song \notin ToSet(library)
  BY <1>2 DEF TypeOK, Lists, ListsKnown, Range, ToSet
<1>4. library' \in Seq(Songs) /\ ToSet(library') = ToSet(library) \cup {req[i].song}
  BY <1>1, <1>2, <1>3, ToSetCons
<1>5. IsInjective(library')
  BY <1>1, <1>2, <1>3, ConsNew
<1> QED
  BY <1>2, <1>4, <1>5 DEF Lists, Range, ToSet

LEMMA AddLists ==
  ASSUME TypeOK, RequestsMade, NEW i, AddsOne(i)
  PROVE  /\ req[i].list \in Playlists /\ Exists(req[i].list) /\ req[i].song \in Range(library)
         /\ lists' \in [Playlists -> Lists \cup {Nil}]
         /\ lists'[req[i].list] \in Lists
         /\ Range(lists'[req[i].list]) = Range(lists[req[i].list]) \cup {req[i].song}
         /\ \A p \in Playlists \ {req[i].list} : lists'[p] = lists[p]
<1> DEFINE p == req[i].list
           s == req[i].song
<1>1. /\ i \in DOMAIN req /\ p \in Playlists /\ Exists(p) /\ s \in Songs /\ s \in Range(library)
      /\ lists' = [lists EXCEPT ![p] = Append(Without(lists[p], s), s)]
  <2>1. i \in DOMAIN req /\ req[i].op \in {"add", "addTo"}
    BY OutcomeRequest DEF AddsOne
  <2> QED
    BY <2>1 DEF AddsOne, RequestsMade
<1> HIDE DEF p, s
<1>2. PICK old \in Lists : old = lists[p]
  BY <1>1 DEF TypeOK, Exists
<1>3. PICK rest \in Lists : rest = Without(old, s) /\ Range(rest) = Range(old) \cap (Songs \ {s})
  BY ListOnly DEF Without
<1>4. rest \in Seq(Songs) /\ IsInjective(rest) /\ s \notin ToSet(rest)
  BY <1>3 DEF Lists, Range, ToSet
<1>5. PICK new \in Seq(Songs) : new = Append(rest, s)
  <2>1. Append(rest, s) \in Seq(Songs)
    BY <1>1, <1>4
  <2> QED
    BY <2>1
<1>6. ToSet(new) = ToSet(rest) \cup {s} /\ IsInjective(new)
  BY <1>1, <1>4, <1>5, ToSetAppend, AppendNew
<1>7. Range(old) \subseteq Songs
  BY DEF Lists, Range
<1>8. new \in Lists /\ Range(new) = Range(old) \cup {s}
  BY <1>1, <1>3, <1>6, <1>7 DEF Lists, Range, ToSet
<1>9. lists \in [Playlists -> Lists \cup {Nil}] /\ lists' = [lists EXCEPT ![p] = new]
  BY <1>1, <1>2, <1>3, <1>5 DEF TypeOK
<1> QED
  BY <1>1, <1>2, <1>8, <1>9 DEF p, s

LEMMA DeleteLists ==
  ASSUME TypeOK, NEW i, DeletesOne(i)
  PROVE  /\ req[i].song \in Range(library)
         /\ library' \in Lists /\ Range(library') = Range(library) \ {req[i].song}
         /\ lists' \in [Playlists -> Lists \cup {Nil}]
         /\ \A p \in Playlists :
                IF Exists(p)
                THEN /\ lists[p] \in Lists /\ lists'[p] = Without(lists[p], req[i].song)
                     /\ lists'[p] \in Lists /\ Range(lists'[p]) = Range(lists[p]) \ {req[i].song}
                ELSE lists'[p] = Nil
<1> DEFINE s == req[i].song
<1>1. /\ s \in Range(library) /\ library' = Without(library, s)
      /\ lists' = [p \in Playlists |-> IF Exists(p) THEN Without(lists[p], s) ELSE Nil]
  BY DEF DeletesOne
<1> HIDE DEF s
<1>2. ASSUME NEW old \in Lists
      PROVE  Without(old, s) \in Lists /\ Range(Without(old, s)) = Range(old) \ {s}
  <2>1. Range(old) \subseteq Songs
    BY DEF Lists, Range
  <2> QED
    BY <2>1, ListOnly DEF Without
<1>3. library' \in Lists /\ Range(library') = Range(library) \ {s}
  BY <1>1, <1>2 DEF TypeOK
<1>4. ASSUME NEW p \in Playlists, Exists(p)
      PROVE  /\ lists[p] \in Lists /\ lists'[p] = Without(lists[p], s)
             /\ lists'[p] \in Lists /\ Range(lists'[p]) = Range(lists[p]) \ {s}
  <2>1. lists[p] \in Lists
    BY <1>4 DEF TypeOK, Exists
  <2> QED
    BY <1>1, <1>2, <1>4, <2>1
<1>5. \A p \in Playlists : ~Exists(p) => lists'[p] = Nil
  BY <1>1
<1>6. lists' \in [Playlists -> Lists \cup {Nil}]
  BY <1>1, <1>4, <1>5
<1> QED
  BY <1>1, <1>3, <1>4, <1>5, <1>6 DEF s

LEMMA CreateLists ==
  ASSUME TypeOK, NEW i, CreatesOne(i)
  PROVE  \E p \in Playlists :
             /\ ~Exists(p) /\ Outcome(i, p)
             /\ lists' \in [Playlists -> Lists \cup {Nil}] /\ lists'[p] = <<>>
             /\ \A q \in Playlists \ {p} : lists'[q] = lists[q]
             /\ wanted' = [wanted EXCEPT ![p] = IF req[i].stage = "sent" THEN req[i].song ELSE Nil]
<1>1. PICK p \in Playlists :
          /\ ~Exists(p) /\ Outcome(i, p)
          /\ lists' = [lists EXCEPT ![p] = <<>>]
          /\ wanted' = [wanted EXCEPT ![p] = IF req[i].stage = "sent" THEN req[i].song ELSE Nil]
  BY DEF CreatesOne
<1>2. lists \in [Playlists -> Lists \cup {Nil}]
  BY DEF TypeOK
<1> QED
  BY <1>1, <1>2, EmptyList

\* In short.
LEMMA ServerKeeps ==
  ASSUME TypeOK, RequestsMade, RequestsKnown, ListsKnown, Changes
  PROVE  /\ library' \in Lists /\ lists' \in [Playlists -> Lists \cup {Nil}]
         /\ \A p \in Playlists : Exists(p) => lists'[p] # Nil
         /\ \A p \in Playlists : Of(lists'[p]) \subseteq Range(library')
<1>1. /\ library \in Lists /\ lists \in [Playlists -> Lists \cup {Nil}]
      /\ \A p \in Playlists : lists[p] # Nil => Range(lists[p]) \subseteq Range(library)
  BY DEF TypeOK, ListsKnown, Of
<1>2. CASE UNCHANGED <<library, lists>>
  BY <1>1, <1>2 DEF Exists, Of
<1>3. ASSUME NEW i, Uploads(i)
      PROVE  /\ library' \in Lists /\ UNCHANGED lists /\ Range(library) \subseteq Range(library')
  BY <1>3, UploadLists DEF Uploads
<1>4. CASE \E i \in DOMAIN req : Uploads(i)
  BY <1>1, <1>3, <1>4 DEF Exists, Of
<1>5. CASE \E i \in DOMAIN req : CreatesOne(i)
  <2>1. PICK i \in DOMAIN req : CreatesOne(i)
    BY <1>5
  <2>2. PICK p \in Playlists :
            /\ lists' \in [Playlists -> Lists \cup {Nil}] /\ lists'[p] = <<>>
            /\ \A q \in Playlists \ {p} : lists'[q] = lists[q]
    BY <2>1, CreateLists
  <2>3. library' = library /\ Range(<<>>) = {}
    BY <2>1 DEF CreatesOne, Range
  <2> QED
    BY <1>1, <2>2, <2>3, EmptyList DEF Exists, Of
<1>6. CASE \E i \in DOMAIN req : AddsOne(i)
  <2>1. PICK i \in DOMAIN req : AddsOne(i)
    BY <1>6
  <2>2. library' = library
    BY <2>1 DEF AddsOne
  <2> QED
    BY <1>1, <2>1, <2>2, AddLists, ListNotNil DEF Exists, Of
<1>7. CASE \E i \in DOMAIN req : DeletesOne(i)
  BY <1>1, <1>7, DeleteLists, ListNotNil DEF Exists, Of
<1>8. UNCHANGED <<library, lists>>
      \/ \E i \in DOMAIN req : Uploads(i) \/ CreatesOne(i) \/ AddsOne(i) \/ DeletesOne(i)
  BY DEF Changes, Looks, Goes, Asks, Fails, Renews, Arrives, GoesOn, Ends, Fetches, server
<1> QED
  BY <1>2, <1>4, <1>5, <1>6, <1>7, <1>8

\* The request is one of those that RequestsMade allows, after the step.
Makes(r) ==
    /\ r.op \in {"upload", "createFor", "addTo", "add", "delete"} => r.song \in Songs
    /\ r.op = "create" => r.song = Nil
    /\ r.op \in {"add", "addTo"} \/ (r.op \in {"create", "createFor"} /\ r.stage = "ok")
           => r.list \in Playlists /\ lists'[r.list] # Nil

LEMMA LeftFollows ==
  ASSUME NEW r \in Request, r.op = "upload" => r.stage # "failed"
  PROVE  Follows(r, Left(r)) /\ Makes(Left(r))
<1>1. Left(r).op = "over" /\ Left(r).song = IF r.op = "upload" THEN r.song ELSE Nil
  BY DEF Left, Ended
<1>2. r.op # "over"
  BY DEF Request
<1>3. Makes(Left(r))
  BY <1>1 DEF Makes
<1>4. CASE r.op = "upload"
  <2>1. Waiting(r) \/ Uploaded(r)
    BY <1>4 DEF Waiting, Uploaded, Request
  <2>2. Uploaded(Left(r)) /\ ~Waiting(Left(r))
    BY <1>1 DEF Uploaded, Waiting
  <2> QED
    BY <1>1, <1>3, <1>4, <2>1, <2>2 DEF Follows
<1>5. CASE r.op # "upload"
  <2>1. ~Uploaded(r)
    BY <1>2, <1>5 DEF Uploaded
  <2> QED
    BY <1>1, <1>3, <1>5, <2>1 DEF Follows
<1> QED
  BY <1>4, <1>5

LEMMA NothingLeft ==
  ASSUME NEW r \in Request, r.op = "upload" => r.stage # "ok"
  PROVE  Follows(r, Ended(Nil)) /\ Makes(Ended(Nil))
<1>1. Ended(Nil).op = "over" /\ Ended(Nil).song = Nil
  BY DEF Ended
<1>2. ~Uploaded(r)
  BY DEF Uploaded, Request
<1> QED
  BY <1>1, <1>2 DEF Follows, Makes

LEMMA StageFollows ==
  ASSUME NEW r \in Request, NEW list, NEW stage \in {"ok", "failed", "lost"},
         r.stage = "sent", r.op \in {"upload", "createFor", "addTo", "add", "delete"} => r.song \in Songs,
         r.op = "create" => r.song = Nil,
         r.op \in {"add", "addTo"} \/ (r.op \in {"create", "createFor"} /\ stage = "ok")
             => list \in Playlists /\ lists'[list] # Nil
  PROVE  /\ Follows(r, [r EXCEPT !.list = list, !.stage = stage])
         /\ Makes([r EXCEPT !.list = list, !.stage = stage])
<1> DEFINE t == [r EXCEPT !.list = list, !.stage = stage]
<1>1. t.op = r.op /\ t.song = r.song /\ t.list = list /\ t.stage = stage /\ r.op # "over"
  BY DEF Request
<1> HIDE DEF t
<1>2. Follows(r, t)
  BY <1>1 DEF Follows, Waiting, Uploaded
<1>3. Makes(t)
  BY <1>1 DEF Makes
<1> QED
  BY <1>2, <1>3 DEF t

LEMMA OutcomeFollows ==
  ASSUME TypeOK, RequestsMade, NEW i, NEW list, Outcome(i, list),
         req[i].op \in {"create", "createFor", "add", "addTo"} => list \in Playlists /\ lists'[list] # Nil
  PROVE  \E r : Turns(i, r) /\ Follows(req[i], r) /\ Makes(r)
<1>1. i \in DOMAIN req /\ req[i] \in Request /\ req[i].stage \in {"sent", "lost"}
  BY OutcomeRequest
<1>2. CASE req[i].stage = "sent"
  <2>1. Turns(i, [req[i] EXCEPT !.list = list, !.stage = "ok"])
    BY <1>2 DEF Outcome
  <2>2. /\ req[i].op \in {"upload", "createFor", "addTo", "add", "delete"} => req[i].song \in Songs
        /\ req[i].op = "create" => req[i].song = Nil
    BY <1>1 DEF RequestsMade
  <2> QED
    BY <1>1, <1>2, <2>1, <2>2, StageFollows
<1>3. CASE req[i].stage = "lost"
  <2>1. Turns(i, Left(req[i]))
    BY <1>3 DEF Outcome
  <2> QED
    BY <1>1, <1>3, <2>1, LeftFollows
<1> QED
  BY <1>1, <1>2, <1>3

LEMMA Turnings ==
  ASSUME TypeOK, RequestsMade, RequestsKnown, ListsKnown, Changes
  PROVE  Stay \/ (\E r : Asks(r)) \/ \E i, r : Turns(i, r) /\ Follows(req[i], r) /\ Makes(r)
<1> DEFINE Turned == \E i, r : Turns(i, r) /\ Follows(req[i], r) /\ Makes(r)
<1>1. \A p \in Playlists : Exists(p) => lists'[p] # Nil
  BY ServerKeeps
<1>2. ASSUME NEW i \in DOMAIN req, req[i].stage \in {"sent", "lost", "ok", "failed"}
      PROVE  /\ req[i] \in Request
             /\ req[i].op \in {"upload", "createFor", "addTo", "add", "delete"} => req[i].song \in Songs
             /\ req[i].op = "create" => req[i].song = Nil
             /\ req[i].op \in {"add", "addTo"}
                   \/ (req[i].op \in {"create", "createFor"} /\ req[i].stage = "ok")
                     => req[i].list \in Playlists /\ lists'[req[i].list] # Nil
             /\ \A stage : [req[i] EXCEPT !.stage = stage] =
                           [req[i] EXCEPT !.list = req[i].list, !.stage = stage]
  <2>1. req[i] \in Request
    BY <1>2, RequestKept DEF TypeOK, Requests, Over
  <2>2. \A stage : [req[i] EXCEPT !.stage = stage] = [req[i] EXCEPT !.list = req[i].list, !.stage = stage]
    BY <2>1 DEF Request
  <2> QED
    BY <1>1, <2>1, <2>2 DEF RequestsMade
<1>3. ASSUME NEW i \in DOMAIN req, NEW list, Outcome(i, list),
             req[i].op \in {"create", "createFor", "add", "addTo"} => list \in Playlists /\ lists'[list] # Nil
      PROVE  Turned
  BY <1>3, OutcomeFollows
<1>4. ASSUME NEW i \in DOMAIN req, Uploads(i) \/ DeletesOne(i) PROVE Turned
  BY <1>3, <1>4 DEF Uploads, DeletesOne
<1>5. ASSUME NEW i \in DOMAIN req, AddsOne(i) PROVE Turned
  BY <1>1, <1>3, <1>5, AddLists DEF AddsOne
<1>6. ASSUME NEW i \in DOMAIN req, CreatesOne(i) PROVE Turned
  BY <1>3, <1>6, CreateLists, EmptyList
<1>7. ASSUME NEW i \in DOMAIN req, Fails(i) PROVE Turned
  <2>1. CASE req[i].stage = "lost"
    BY <1>2, <1>7, <2>1, NothingLeft DEF Fails
  <2>2. CASE req[i].stage = "sent"
    <3>1. Turns(i, [req[i] EXCEPT !.list = req[i].list, !.stage = "failed"])
      BY <1>2, <1>7, <2>2 DEF Fails
    <3> QED
      BY <1>2, <2>2, <3>1, StageFollows
  <2> QED
    BY <1>7, <2>1, <2>2 DEF Fails
<1>8. ASSUME NEW i \in DOMAIN req, Renews(i) PROVE Turned
  BY <1>2, <1>8, LeftFollows DEF Renews
<1>9. ASSUME NEW i \in DOMAIN req, Arrives(i) PROVE Turned
  BY <1>2, <1>9, NothingLeft DEF Arrives
<1>10. ASSUME NEW i \in DOMAIN req, GoesOn(i) PROVE Turned
  <2> DEFINE r == Sent("addTo", req[i].song, req[i].list, req[i].form)
  <2>1. Turns(i, r) /\ req[i].op = "createFor" /\ req[i].stage = "ok"
    BY <1>10 DEF GoesOn
  <2>2. r.op = "addTo" /\ r.song = req[i].song /\ r.list = req[i].list
    BY DEF Sent
  <2> HIDE DEF r
  <2>3. Follows(req[i], r)
    BY <2>1, <2>2 DEF Follows, Waiting, Uploaded
  <2>4. Makes(r)
    BY <1>2, <2>1, <2>2 DEF Makes
  <2> QED
    BY <2>1, <2>3, <2>4
<1>11. ASSUME NEW i \in DOMAIN req, Ends(i) PROVE Turned
  <2>1. CASE req[i].stage = "failed" /\ Turns(i, Ended(Nil))
    BY <1>2, <2>1, NothingLeft
  <2>2. CASE req[i].stage = "sent" /\ Turns(i, [req[i] EXCEPT !.stage = "lost"])
    <3>1. Turns(i, [req[i] EXCEPT !.list = req[i].list, !.stage = "lost"])
      BY <1>2, <2>2
    <3> QED
      BY <1>2, <2>2, <3>1, StageFollows
  <2>3. CASE req[i].stage = "ok" /\ Turns(i, Left(req[i]))
    BY <1>2, <2>3, LeftFollows
  <2> QED
    BY <1>11, <2>1, <2>2, <2>3 DEF Ends
<1> HIDE DEF Turned
<1>12. Stay \/ (\E r : Asks(r)) \/ Turned
  BY <1>4, <1>5, <1>6, <1>7, <1>8, <1>9, <1>10, <1>11 DEF Changes, Looks, Fetches
<1> QED
  BY <1>12 DEF Turned

\* The menu that is open is the menu of a row.
MenuKept == IsRow(overlay.form) => overlay.form \in Rows

LEMMA MadeStep ==
  ASSUME TypeOK, RequestsMade, RequestsKnown, ListsKnown, Changes
  PROVE  RequestsMade'
<1>1. \A p \in Playlists : Exists(p) => lists'[p] # Nil
  BY ServerKeeps
<1>2. CASE Stay
  BY <1>1, <1>2 DEF Stay, Same, RequestsMade, Exists
<1>3. CASE \E r : Asks(r)
  <2>1. PICK r : Asks(r)
    BY <1>3
  <2>2. Makes(r)
    BY <1>1, <2>1 DEF Asks, Makes
  <2>3. PICK n : /\ DOMAIN req' = DOMAIN req \cup {n} /\ Same(req'[n], r)
                 /\ \A j \in DOMAIN req : Same(req'[j], req[j])
    BY <2>1 DEF Asks, Grows
  <2> QED
    BY <1>1, <2>2, <2>3 DEF Same, Makes, RequestsMade, Exists
<1>4. CASE \E i, r : Turns(i, r) /\ Follows(req[i], r) /\ Makes(r)
  <2>1. PICK i, r : Turns(i, r) /\ Makes(r)
    BY <1>4
  <2> QED
    BY <1>1, <2>1 DEF Turns, Same, Makes, RequestsMade, Exists
<1> QED
  BY <1>2, <1>3, <1>4, Turnings

LEMMA KnownStep ==
  ASSUME TypeOK, RequestsMade, RequestsKnown, ListsKnown, MenuKept, Changes
  PROVE  RequestsKnown' /\ Known \subseteq Known'
<1>1. CASE Stay
  BY <1>1, StayKnown
<1>2. CASE \E r : Asks(r)
  <2>1. PICK r : Asks(r)
    BY <1>2
  <2>2. Grows(r) /\ ~Uploaded(r)
    BY <2>1 DEF Asks, Uploaded, Request
  <2>3. IsRow(overlay.form) => overlay.form.song \in Known
    <3>1. IsRow(overlay.form) => \E k \in Keys : overlay.form.song \in Of(query[k].data)
      BY RowsShown DEF MenuKept, TypeOK
    <3> QED
      BY <3>1 DEF ListsKnown
  <2>4. r.op # "upload" => r.song \in Known \cup {Nil}
    BY <2>1, <2>3 DEF Asks
  <2>5. Waiting(r) => r.song \notin Known /\ \A i \in DOMAIN req : req[i].song # r.song
    BY <2>1 DEF Asks, Waiting, Known
  <2> QED
    BY <2>2, <2>4, <2>5, GrowsKnown
<1>3. CASE \E i, r : Turns(i, r) /\ Follows(req[i], r) /\ Makes(r)
  BY <1>3, TurnsKnown
<1> QED
  BY <1>1, <1>2, <1>3, Turnings

\* What the operations on the cache leave there.
LEMMA CacheContents ==
  ASSUME query \in [Keys -> Query], NEW k \in Keys, NEW m, NEW ks,
         NEW q \in {Mounted(query, m), Invalidate(query, ks), Unheard(query, ks)}
  PROVE  q[k].data = query[k].data /\ q[k].got \in {query[k].got, Nil}
<1>1. query[k] \in Query
  OBVIOUS
<1>2. Ask(query[k]).data = query[k].data /\ Ask(query[k]).got = Nil
  BY <1>1 DEF Ask, Query
<1>3. Join(query[k]).data = query[k].data /\ Join(query[k]).got = query[k].got
  BY <1>1 DEF Join, Query
<1>4. [query[k] EXCEPT !.behind = TRUE].data = query[k].data
      /\ [query[k] EXCEPT !.behind = TRUE].got = query[k].got
  BY <1>1 DEF Query
<1>5. CASE q = Mounted(query, m)
  <2>1. q[k] \in {query[k], Ask(query[k])}
    BY <1>5 DEF Mounted
  <2> QED
    BY <1>2, <2>1
<1>6. CASE q = Invalidate(query, ks)
  <2>1. q[k] \in {query[k], Ask(query[k]), Join(query[k])}
    BY <1>6 DEF Invalidate
  <2> QED
    BY <1>2, <1>3, <2>1
<1>7. CASE q = Unheard(query, ks)
  <2>1. q[k] \in {query[k], [query[k] EXCEPT !.behind = TRUE]}
    BY <1>7 DEF Unheard
  <2> QED
    BY <1>4, <2>1
<1> QED
  BY <1>5, <1>6, <1>7

LEMMA ListingTyped ==
  ASSUME TypeOK, ListsKnown, NEW k \in Keys
  PROVE  Listing(k) \in Lists \cup {Nil} /\ Of(Listing(k)) \subseteq Range(library)
<1>1. library \in Lists /\ lists \in [Playlists -> Lists \cup {Nil}]
      /\ \A p \in Playlists : Of(lists[p]) \subseteq Range(library)
  BY DEF TypeOK, ListsKnown
<1>2. CASE k = "tracks"
  BY <1>1, <1>2 DEF Listing, Of
<1>3. CASE k = "found"
  BY <1>1, <1>3, ListOnly DEF Listing, Found, Of
<1>4. CASE k \in Playlists /\ k \notin {"tracks", "found"}
  BY <1>1, <1>4 DEF Listing
<1> QED
  BY <1>2, <1>3, <1>4 DEF Keys

\* A fetch that is answered, received or fails.
LEMMA FetchSteps ==
  ASSUME TypeOK, ListsKnown, NEW k, Fetches(k)
  PROVE  \E q \in Query :
             /\ k \in Keys /\ query' = [query EXCEPT ![k] = q] /\ Of(q.data) \cup Of(q.got) \subseteq Known
             /\ \/ /\ query[k].stage = "sent" /\ q.stage = "served" /\ q.behind = query[k].behind
                   /\ q.data = query[k].data /\ q.got = Listing(k)
                \/ /\ query[k].stage = "served" /\ q.stage = "idle" /\ q.behind = query[k].behind
                   /\ q.data = query[k].got
                \/ /\ query[k].stage = "sent" /\ q.stage = "idle" /\ q.behind /\ q.data = query[k].data
<1>1. k \in Keys /\ query \in [Keys -> Query] /\ query[k] \in Query
      /\ Of(query[k].data) \subseteq Known /\ Of(query[k].got) \subseteq Known
  BY DEF Fetches, TypeOK, ListsKnown
<1>2. Listing(k) \in Lists \cup {Nil} /\ Of(Listing(k)) \subseteq Known /\ Of(Nil) = {}
  BY <1>1, ListingTyped DEF ListsKnown, Of
<1>3. CASE query[k].stage = "sent"
           /\ query' = [query EXCEPT ![k].stage = "served", ![k].got = Listing(k)]
  <2> DEFINE q == [query[k] EXCEPT !.stage = "served", !.got = Listing(k)]
  <2>1. q \in Query /\ q.stage = "served" /\ q.behind = query[k].behind
        /\ q.data = query[k].data /\ q.got = Listing(k)
    BY <1>1, <1>2 DEF Query
  <2>2. query' = [query EXCEPT ![k] = q]
    BY <1>1, <1>3, Zenon
  <2> QED
    BY <1>1, <1>2, <1>3, <2>1, <2>2
<1>4. CASE query[k].stage = "served"
           /\ query' = [query EXCEPT ![k].stage = "idle", ![k].data = query[k].got, ![k].got = Nil]
  <2> DEFINE q == [query[k] EXCEPT !.stage = "idle", !.data = query[k].got, !.got = Nil]
  <2>1. q \in Query /\ q.stage = "idle" /\ q.behind = query[k].behind
        /\ q.data = query[k].got /\ q.got = Nil
    BY <1>1 DEF Query
  <2>2. query' = [query EXCEPT ![k] = q]
    BY <1>1, <1>4, Zenon
  <2> QED
    BY <1>1, <1>2, <1>4, <2>1, <2>2
<1>5. CASE query[k].stage = "sent"
           /\ query' = [query EXCEPT ![k].stage = "idle", ![k].behind = TRUE]
  <2> DEFINE q == [query[k] EXCEPT !.stage = "idle", !.behind = TRUE]
  <2>1. q \in Query /\ q.stage = "idle" /\ q.behind
        /\ q.data = query[k].data /\ q.got = query[k].got
    BY <1>1 DEF Query
  <2>2. query' = [query EXCEPT ![k] = q]
    BY <1>1, <1>5, Zenon
  <2> QED
    BY <1>1, <1>5, <2>1, <2>2
<1> QED
  BY <1>3, <1>4, <1>5 DEF Fetches

\* The ways the cache may go.
LEMMA CacheSteps ==
  ASSUME TypeOK, Changes
  PROVE  \/ UNCHANGED query
         \/ \E m, ks : query' \in {Mounted(query, m), Invalidate(query, ks), Unheard(query, ks)}
         \/ \E k \in Keys : Fetches(k)
<1> DEFINE Renewed == \E m, ks : query' \in {Mounted(query, m), Invalidate(query, ks), Unheard(query, ks)}
<1>1. Looks \/ (\E r : Asks(r)) => UNCHANGED query
  BY DEF Looks, Asks
<1>2. Goes => UNCHANGED query \/ Renewed
  BY DEF Goes
<1>3. \A i, list : Outcome(i, list) => UNCHANGED query \/ Renewed
  BY DEF Outcome
<1>4. \A i : Fails(i) \/ GoesOn(i) => UNCHANGED query
  BY DEF Fails, GoesOn
<1>5. \A i : Renews(i) \/ Ends(i) => UNCHANGED query \/ Renewed
  BY DEF Renews, Ends
<1>6. \A i : Uploads(i) \/ CreatesOne(i) \/ AddsOne(i) \/ DeletesOne(i) => UNCHANGED query \/ Renewed
  <2> HIDE DEF Renewed
  <2> QED
    BY <1>3 DEF Uploads, CreatesOne, AddsOne, DeletesOne
<1> HIDE DEF Renewed
<1>7. \A i : Arrives(i) => UNCHANGED query \/ Renewed
  BY <1>2 DEF Arrives
<1>8. UNCHANGED query \/ Renewed \/ \E k \in Keys : Fetches(k)
  BY <1>1, <1>2, <1>4, <1>5, <1>6, <1>7 DEF Changes
<1> QED
  BY <1>8 DEF Renewed

LEMMA CacheStep ==
  ASSUME TypeOK, ListsKnown, Changes
  PROVE  /\ query' \in [Keys -> Query]
         /\ \A k \in Keys : Of(query'[k].data) \cup Of(query'[k].got) \subseteq Known
<1>1. query \in [Keys -> Query]
      /\ \A k \in Keys : Of(query[k].data) \subseteq Known /\ Of(query[k].got) \subseteq Known
  BY DEF TypeOK, ListsKnown
<1>2. CASE UNCHANGED query
  BY <1>1, <1>2
<1>3. CASE \E m, ks : query' \in {Mounted(query, m), Invalidate(query, ks), Unheard(query, ks)}
  <2>1. PICK m, ks : query' \in {Mounted(query, m), Invalidate(query, ks), Unheard(query, ks)}
    BY <1>3
  <2>2. query' \in [Keys -> Query]
    BY <1>1, <2>1, CacheOperations
  <2>3. ASSUME NEW k \in Keys
        PROVE  query'[k].data = query[k].data /\ query'[k].got \in {query[k].got, Nil}
    BY <1>1, <2>1, CacheContents
  <2>4. Of(Nil) = {}
    BY DEF Of
  <2> QED
    BY <1>1, <2>2, <2>3, <2>4
<1>4. CASE \E k \in Keys : Fetches(k)
  <2>1. PICK k \in Keys, q \in Query :
            query' = [query EXCEPT ![k] = q] /\ Of(q.data) \cup Of(q.got) \subseteq Known
    BY <1>4, FetchSteps
  <2> QED
    BY <1>1, <2>1
<1> QED
  BY <1>2, <1>3, <1>4, CacheSteps

LEMMA ListsStep ==
  ASSUME TypeOK, RequestsMade, RequestsKnown, ListsKnown, MenuKept, Changes
  PROVE  ListsKnown' /\ wanted' \in [Playlists -> Songs \cup {Nil}]
<1>1. Known \subseteq Known'
  BY KnownStep
<1>2. /\ Range(library) \subseteq Known /\ wanted \in [Playlists -> Songs \cup {Nil}]
      /\ \A p \in Playlists : wanted[p] \in Known \cup {Nil}
  BY DEF ListsKnown, TypeOK
<1>3. Range(library') \subseteq Known'
  <2>1. CASE \E i \in DOMAIN req : Uploads(i)
    <3>1. PICK i \in DOMAIN req : Uploads(i)
      BY <2>1
    <3>2. req[i].song \in Known'
      <4>1. \E r : Turns(i, r) /\ Uploaded(r) /\ r.song = req[i].song
        <5>1. req[i] \in Request /\ req[i].stage \in {"sent", "lost"} /\ req[i].op = "upload"
              /\ Outcome(i, req[i].list)
          BY <3>1, OutcomeRequest DEF Uploads
        <5>2. CASE req[i].stage = "sent"
          <6> DEFINE r == [req[i] EXCEPT !.list = req[i].list, !.stage = "ok"]
          <6>1. Turns(i, r)
            BY <5>1, <5>2 DEF Outcome
          <6>2. r.op = "upload" /\ r.stage = "ok" /\ r.song = req[i].song
            BY <5>1 DEF Request
          <6> QED
            BY <6>1, <6>2 DEF Uploaded
        <5>3. CASE req[i].stage = "lost"
          <6>1. Turns(i, Left(req[i]))
            BY <5>1, <5>3 DEF Outcome
          <6>2. Left(req[i]).op = "over" /\ Left(req[i]).song = req[i].song
            BY <5>1 DEF Left, Ended
          <6> QED
            BY <6>1, <6>2 DEF Uploaded
        <5> QED
          BY <5>1, <5>2, <5>3
      <4> QED
        BY <4>1, SameKind DEF Turns, Known, Same
    <3> QED
      BY <1>1, <1>2, <3>1, <3>2, UploadLists
  <2>2. CASE \E i \in DOMAIN req : DeletesOne(i)
    BY <1>1, <1>2, <2>2, DeleteLists
  <2>3. CASE UNCHANGED library
    BY <1>1, <1>2, <2>3
  <2> QED
    BY <2>1, <2>2, <2>3 DEF Changes, Looks, Goes, Asks, CreatesOne, AddsOne, Fails, Renews, Arrives, GoesOn,
        Ends, Fetches, server
<1>4. \A p \in Playlists : Of(lists'[p]) \subseteq Range(library')
  BY ServerKeeps
<1>5. \A k \in Keys : Of(query'[k].data) \cup Of(query'[k].got) \subseteq Known'
  BY <1>1, CacheStep
<1>6. wanted' \in [Playlists -> Songs \cup {Nil}] /\ \A p \in Playlists : wanted'[p] \in Known' \cup {Nil}
  <2>1. CASE UNCHANGED wanted
    BY <1>1, <1>2, <2>1
  <2>2. CASE \E i \in DOMAIN req : CreatesOne(i)
    <3>1. PICK i \in DOMAIN req : CreatesOne(i)
      BY <2>2
    <3>2. PICK p \in Playlists :
              Outcome(i, p) /\ wanted' = [wanted EXCEPT ![p] = IF req[i].stage = "sent" THEN req[i].song ELSE Nil]
      BY <3>1, CreateLists
    <3>3. req[i].song \in Songs \cup {Nil} /\ req[i].song \in Known \cup {Nil}
      <4>1. req[i].song \in Songs \cup {Nil}
        BY <3>2, OutcomeRequest DEF Request
      <4>2. req[i].op # "upload"
        BY <3>1 DEF CreatesOne
      <4> QED
        BY <3>1, <4>1, <4>2 DEF RequestsKnown
    <3> QED
      BY <1>1, <1>2, <3>2, <3>3
  <2>3. CASE \E i \in DOMAIN req : Ends(i)
    BY <1>1, <1>2, <2>3 DEF Ends, Dropped
  <2> QED
    BY <2>1, <2>2, <2>3 DEF Changes, Looks, Goes, Asks, Uploads, AddsOne, DeletesOne, Fails, Renews, Arrives,
        GoesOn, Fetches, server
<1> QED
  BY <1>3, <1>4, <1>5, <1>6 DEF ListsKnown

LEMMA TypeStep ==
  ASSUME TypeOK, RequestsMade, RequestsKnown, ListsKnown, MenuKept, [Next]_vars
  PROVE  TypeOK'
<1>1. Deeds' /\ Changes
  BY StepKinds
<1>2. /\ library' \in Lists /\ lists' \in [Playlists -> Lists \cup {Nil}]
      /\ query' \in [Keys -> Query] /\ wanted' \in [Playlists -> Songs \cup {Nil}]
  BY <1>1, ServerKeeps, CacheStep, ListsStep
<1>3. path' \in Paths
  <2>1. path \in Paths
    BY DEF TypeOK
  <2>2. \A i, list : Outcome(i, list) => path' = path
    BY DEF Outcome
  <2>3. Goes => path' \in Paths
    BY DEF Goes
  <2>4. \A i : Uploads(i) \/ CreatesOne(i) \/ AddsOne(i) \/ DeletesOne(i) => path' = path
    BY <2>2 DEF Uploads, CreatesOne, AddsOne, DeletesOne
  <2> QED
    BY <1>1, <2>1, <2>3, <2>4 DEF Changes, Looks, Asks, Fails, Renews, Arrives, GoesOn, Ends, Fetches
<1> QED
  BY <1>1, <1>2, <1>3 DEF TypeOK, Deeds, Requests

-----------------------------------------------------------------------------
(* Menus, dialogs and the forms of requests. *)

RowForm(form) == IsRow(form) \/ form = NoForm

FormsKept ==
    /\ MenuKept
    /\ overlay.form = NoForm => overlay = NoOverlay
    /\ \A i \in DOMAIN req : req[i].op \in {"createFor", "addTo"} => RowForm(req[i].form)

Proper(o) == o \in Overlay /\ (o.form = NoForm => o = NoOverlay)

RowForms(rs) ==
    rs \in Requests /\ \A i \in DOMAIN rs : rs[i].op \in {"createFor", "addTo"} => RowForm(rs[i].form)

LEMMA RowsSame ==
  ASSUME TypeOK, path' = path, \A k \in Keys : query'[k].data = query[k].data
  PROVE  Rows' = Rows
<1>1. \A k \in Keys : Shown(k)' = Shown(k)
  BY DEF Shown
<1>2. Shown("tracks")' = Shown("tracks") /\ Shown("found")' = Shown("found")
  BY <1>1 DEF Keys
<1>3. Kind(path) = "playlist" => Shown(path[2])' = Shown(path[2])
  BY <1>1, PageKeys DEF TypeOK, Keys, Shown
<1>4. CASE Kind(path) = "album"
  BY <1>2, <1>4 DEF Rows
<1>5. CASE Kind(path) = "playlist"
  BY <1>3, <1>5 DEF Rows
<1>6. CASE Kind(path) = "results"
  BY <1>2, <1>6 DEF Rows
<1>7. CASE Kind(path) \notin {"album", "playlist", "results"}
  BY <1>7 DEF Rows
<1> QED
  BY <1>4, <1>5, <1>6, <1>7

LEMMA NoRow == ~IsRow(NoForm) /\ Proper(NoOverlay) /\ NoOverlay.form = NoForm
  BY DEF IsRow, NoForm, Dialog, Proper, NoOverlay, Opened, Overlay, Form

LEMMA RenderedForms ==
  ASSUME NEW o, Proper(o), NEW rs, RowForms(rs), Rendered(o, rs)
  PROVE  FormsKept'
<1>1. o \in Overlay /\ rs \in Requests /\ (o.form = NoForm => o = NoOverlay)
  BY DEF Proper, RowForms
<1>2. /\ DOMAIN req' = DOMAIN rs
      /\ \A i \in DOMAIN rs : req'[i] \in {rs[i], Formless(rs[i])} /\ Same(req'[i], rs[i])
      /\ IsRow(o.form) => overlay' = IF o.form \in Rows' THEN o ELSE NoOverlay
      /\ ~IsRow(o.form) => overlay' = o
  BY <1>1, RenderedKeeps
<1>3. MenuKept'
  BY <1>2, NoRow DEF MenuKept
<1>4. overlay'.form = NoForm => overlay' = NoOverlay
  BY <1>1, <1>2
<1>5. ASSUME NEW i \in DOMAIN rs, req'[i].op \in {"createFor", "addTo"}
      PROVE  RowForm(req'[i].form)
  <2>1. rs[i].op \in {"createFor", "addTo"} /\ RowForm(rs[i].form)
    BY <1>2, <1>5 DEF Same, RowForms
  <2>2. rs[i] \in Request
    <3>1. rs[i] \in Request \cup Over
      BY <1>1 DEF Requests
    <3> QED
      BY <2>1, <3>1 DEF Over
  <2>3. Formless(rs[i]).form = NoForm
    BY <2>2 DEF Formless, Request
  <2> QED
    BY <1>2, <2>1, <2>3 DEF RowForm
<1> QED
  BY <1>2, <1>3, <1>4, <1>5 DEF FormsKept

\* A step without a rendering.
LEMMA StillForms ==
  ASSUME TypeOK, FormsKept, UNCHANGED overlay, Rows' = Rows, DOMAIN req' = DOMAIN req,
         \A i \in DOMAIN req : req'[i].op \in {"createFor", "addTo"} =>
             req'[i].op = req[i].op /\ req'[i].form \in {req[i].form, NoForm}
  PROVE  FormsKept'
  BY DEF FormsKept, MenuKept, RowForm

LEMMA FormsStep ==
  ASSUME TypeOK, RequestsMade, FormsKept, [Next]_vars
  PROVE  FormsKept'
<1>1. Proper(overlay) /\ overlay \in Overlay /\ overlay.form \in Form /\ req \in Requests /\ RowForms(req)
      /\ query \in [Keys -> Query] /\ path \in Paths
      /\ \A i \in DOMAIN req : req[i] \in Request \cup Over
  BY RequestKept DEF TypeOK, FormsKept, Proper, RowForms, Overlay, Requests
<1>2. \A form : RowForms(AddsAgain(form))
  <2>1. TAKE form
  <2>2. Alike(AddsAgain(form))
    BY <1>1, AddsAgainAlike
  <2>3. \A i \in DOMAIN req : AddsAgain(form)[i].form = req[i].form /\ AddsAgain(form)[i].op = req[i].op
    <3>1. ASSUME NEW i \in DOMAIN req
          PROVE  AddsAgain(form)[i] \in {req[i], [req[i] EXCEPT !.seen = FALSE]}
      BY DEF AddsAgain
    <3>2. \A i \in DOMAIN req : [req[i] EXCEPT !.seen = FALSE].form = req[i].form
                                /\ [req[i] EXCEPT !.seen = FALSE].op = req[i].op
      BY <1>1 DEF Request, Over
    <3> QED
      BY <3>1, <3>2
  <2> QED
    BY <1>1, <2>2, <2>3 DEF RowForms, Alike
<1>3. ASSUME NEW rs, RowForms(rs), NEW r \in Request, r.op = "createFor" => RowForm(r.form),
             r.op # "addTo", NEW o, Proper(o), Rendered(o, Append(rs, r))
      PROVE  FormsKept'
  <2>1. PICK more \in Requests : more = Append(rs, r)
    <3>1. Append(rs, r) \in Requests
      BY <1>3 DEF RowForms, Requests
    <3> QED
      BY <3>1
  <2>2. PICK n \in Nat : n = Len(rs) /\ DOMAIN rs = 1..n /\ DOMAIN more = 1..(n + 1)
          /\ more[n + 1] = r /\ \A i \in 1..n : more[i] = rs[i]
    <3>1. rs \in Seq(Request \cup Over)
      BY <1>3 DEF RowForms, Requests
    <3> QED
      BY <2>1, <3>1
  <2>3. RowForms(more)
    <3>1. \A i \in 1..(n + 1) : i \in 1..n \/ i = n + 1
      OBVIOUS
    <3> QED
      BY <1>3, <2>1, <2>2, <3>1 DEF RowForms
  <2> QED
    BY <1>3, <2>1, <2>3, RenderedForms
<1>4. ASSUME NEW i \in DOMAIN req, NEW rs, RowForms(rs), DOMAIN rs = DOMAIN req, NEW r \in Request \cup Over,
             r.op \in {"createFor", "addTo"} => RowForm(r.form),
             NEW o, Proper(o), Rendered(o, [rs EXCEPT ![i] = r])
      PROVE  FormsKept'
  <2>1. PICK next \in Requests : next = [rs EXCEPT ![i] = r]
    <3>1. [rs EXCEPT ![i] = r] \in Requests
      BY <1>4 DEF RowForms, Requests
    <3> QED
      BY <3>1
  <2>2. RowForms(next)
    BY <1>4, <2>1 DEF RowForms
  <2> QED
    BY <1>4, <2>1, <2>2, RenderedForms
<1>5. ASSUME NEW i \in DOMAIN req, NEW song \in Songs \cup {Nil}, NEW o, Proper(o),
             Rendered(o, [req EXCEPT ![i] = Ended(song)])
      PROVE  FormsKept'
  <2>1. Ended(song) \in Over /\ Ended(song).op = "over"
    BY EndedOver DEF Ended
  <2> QED
    BY <1>1, <1>4, <1>5, <2>1
<1>6. \A form : Proper(OnClose(form))
  BY <1>1, NoRow DEF OnClose
<1>7. CASE User
  <2>1. \A o : Proper(o) /\ Rendered(o, req) => FormsKept'
    BY <1>1, RenderedForms
  <2>2. \A form \in Form : form # NoForm => Proper(Opened(form))
    BY DEF Proper, Opened, Overlay
  <2>3. Dialog("upload") \in Form /\ Dialog("create") \in Form
        /\ Dialog("upload") # NoForm /\ Dialog("create") # NoForm
    BY DEF Form, Dialog, NoForm
  <2>4. CASE \E p \in Paths, o \in {overlay, NoOverlay} : Goto(p, o)
    BY <1>1, <2>1, <2>4, NoRow DEF Goto
  <2>5. CASE \E d \in {"upload", "create"} : OpenDialog(d)
    BY <2>1, <2>2, <2>3, <2>5 DEF OpenDialog, Show
  <2>6. CASE Close
    BY <2>1, <2>6, NoRow DEF Close, Show
  <2>7. CASE \E row \in Rows : OpenMenu(row)
    <3>1. PICK row \in Rows : OpenMenu(row)
      BY <2>7
    <3>2. row \in Form /\ row # NoForm
      BY <1>1, RowsShown, NoRow DEF Form
    <3> QED
      BY <2>1, <2>2, <3>1, <3>2 DEF OpenMenu, Show
  <2>8. CASE \E m \in {"root", "newPlaylist", "confirmDelete"} : SetMode(m)
    <3>1. PICK m \in {"root", "newPlaylist", "confirmDelete"} : SetMode(m)
      BY <2>8
    <3>2. [overlay EXCEPT !.mode = m] \in Overlay /\ [overlay EXCEPT !.mode = m].form = overlay.form
      BY <1>1 DEF Overlay
    <3>3. Proper([overlay EXCEPT !.mode = m])
      BY <3>1, <3>2, NoRow DEF Proper, SetMode
    <3> QED
      BY <2>1, <3>1, <3>3 DEF SetMode, Show
  <2>9. CASE \E s \in Songs : SubmitUpload(s)
    <3>1. PICK s \in Songs : SubmitUpload(s)
      BY <2>9
    <3>2. /\ Sent("upload", s, Nil, overlay.form) \in Request
          /\ Sent("upload", s, Nil, overlay.form).op = "upload"
      BY <1>1 DEF Sent, Request
    <3> QED
      BY <1>1, <1>3, <3>1, <3>2 DEF SubmitUpload, Send
  <2>10. CASE SubmitCreate
    <3>2. /\ Sent("create", Nil, Nil, overlay.form) \in Request
          /\ Sent("create", Nil, Nil, overlay.form).op = "create"
      BY <1>1 DEF Sent, Request
    <3> QED
      BY <1>1, <1>3, <2>10, <3>2 DEF SubmitCreate, Send
  <2>11. IsRow(overlay.form) => overlay.form.song \in Songs
    BY <1>1 DEF Form, IsRow, Row, Dialog, NoForm
  <2>12. CASE createAndAdd
    <3> DEFINE r == Sent("createFor", overlay.form.song, Nil, overlay.form)
    <3>1. r \in Request /\ r.op = "createFor" /\ RowForm(r.form)
      BY <1>1, <2>11, <2>12 DEF Sent, Request, createAndAdd, RowForm
    <3> HIDE DEF r
    <3>2. Rendered(overlay, Append(req, r))
      BY <2>12 DEF createAndAdd, Send, r
    <3> QED
      BY <1>1, <1>3, <3>1, <3>2
  <2>13. CASE confirmDelete
    <3> DEFINE r == Sent("delete", overlay.form.song, Nil, overlay.form)
    <3>1. r \in Request /\ r.op = "delete"
      BY <1>1, <2>11, <2>13 DEF Sent, Request, confirmDelete
    <3> HIDE DEF r
    <3>2. Rendered(NoOverlay, Append(req, r))
      BY <2>13 DEF confirmDelete, r
    <3> QED
      BY <1>1, <1>3, <3>1, <3>2, NoRow
  <2>14. CASE \E p \in Playlists : addToPlaylist(p)
    <3>0. PICK p \in Playlists : addToPlaylist(p)
      BY <2>14
    <3> DEFINE r == Sent("add", overlay.form.song, p, overlay.form)
    <3>1. r \in Request /\ r.op = "add"
      BY <1>1, <2>11, <3>0 DEF Sent, Request, addToPlaylist
    <3> HIDE DEF r
    <3>2. Rendered(NoOverlay, Append(AddsAgain(overlay.form), r))
      BY <3>0 DEF addToPlaylist, r
    <3> QED
      BY <1>2, <1>3, <3>1, <3>2, NoRow
  <2> QED
    BY <1>7, <2>4, <2>5, <2>6, <2>7, <2>8, <2>9, <2>10, <2>12, <2>13, <2>14 DEF User, Follow, Back
<1>8. CASE Server
  <2>1. CASE \E i \in DOMAIN req : Serve(i) \/ Refuse(i)
    <3>1. PICK i \in DOMAIN req : Serve(i) \/ Refuse(i)
      BY <2>1
    <3>2. UNCHANGED <<overlay, path>> /\ req[i].stage \in {"sent", "lost"}
      BY <3>1 DEF Serve, Refuse, client
    <3>3. req[i] \in Request
      BY <1>1, <3>2 DEF Over
    <3>4. \E r : /\ req' = [req EXCEPT ![i] = r]
                 /\ r.op = "over" \/ (r.op = req[i].op /\ r.form = req[i].form)
      <4>1. \A song : Ended(song).op = "over"
        BY DEF Ended
      <4>2. \A stage, list :
                /\ [req[i] EXCEPT !.stage = stage].op = req[i].op
                /\ [req[i] EXCEPT !.stage = stage].form = req[i].form
                /\ [[req[i] EXCEPT !.list = list] EXCEPT !.stage = stage].op = req[i].op
                /\ [[req[i] EXCEPT !.list = list] EXCEPT !.stage = stage].form = req[i].form
        BY <3>3 DEF Request
      <4>3. CASE Refuse(i)
        BY <4>1, <4>2, <4>3 DEF Refuse
      <4>4. CASE Serve(i)
        <5>1. Done(i, req[i]) \/ \E p \in Playlists : Done(i, [req[i] EXCEPT !.list = p])
          BY <4>4 DEF Serve
        <5>2. ASSUME NEW r, r.op = req[i].op, r.form = req[i].form, Done(i, r),
                     [r EXCEPT !.stage = "ok"].op = r.op, [r EXCEPT !.stage = "ok"].form = r.form
              PROVE  \E t : req' = [req EXCEPT ![i] = t]
                           /\ (t.op = "over" \/ (t.op = req[i].op /\ t.form = req[i].form))
          <6>1. CASE req[i].stage = "lost"
            BY <4>1, <5>2, <6>1 DEF Done, Finished
          <6>2. CASE req[i].stage # "lost"
            BY <5>2, <6>2 DEF Done
          <6> QED
            BY <6>1, <6>2
        <5>3. \A list : [req[i] EXCEPT !.list = list].op = req[i].op
                        /\ [req[i] EXCEPT !.list = list].form = req[i].form
          BY <3>3 DEF Request
        <5>4. CASE Done(i, req[i])
          BY <4>2, <5>2, <5>4
        <5>5. ASSUME NEW p \in Playlists, Done(i, [req[i] EXCEPT !.list = p])
              PROVE  \E t : req' = [req EXCEPT ![i] = t]
                           /\ (t.op = "over" \/ (t.op = req[i].op /\ t.form = req[i].form))
          <6> DEFINE r == [req[i] EXCEPT !.list = p]
          <6>1. /\ r.op = req[i].op /\ r.form = req[i].form
                /\ [r EXCEPT !.stage = "ok"].op = r.op /\ [r EXCEPT !.stage = "ok"].form = r.form
            BY <4>2, <5>3
          <6>2. Done(i, r)
            BY <5>5
          <6> HIDE DEF r
          <6> QED
            BY <5>2, <6>1, <6>2
        <5> QED
          BY <5>1, <5>4, <5>5
      <4> QED
        BY <3>1, <4>3, <4>4
    <3>5. Rows' = Rows
      <4>1. UNCHANGED query \/ \E ks : query' = Unheard(query, ks)
        BY <3>1 DEF Serve, Refuse, Done, client
      <4>2. \A k \in Keys : query'[k].data = query[k].data
        BY <1>1, <4>1, CacheContents
      <4> QED
        BY <3>2, <4>2, RowsSame
    <3> QED
      BY <3>2, <3>4, <3>5, StillForms
  <2>2. CASE \E k \in Keys : ServeFetch(k)
    <3>1. UNCHANGED <<overlay, path, req>> /\ \A k \in Keys : query'[k].data = query[k].data
      <4>1. PICK k \in Keys : query' = [query EXCEPT ![k].stage = "served", ![k].got = Listing(k)]
                              /\ UNCHANGED <<overlay, path, req>>
        BY <2>2 DEF ServeFetch
      <4>2. query' = [query EXCEPT ![k] = [query[k] EXCEPT !.stage = "served", !.got = Listing(k)]]
        BY <1>1, <4>1, Zenon
      <4>3. [query[k] EXCEPT !.stage = "served", !.got = Listing(k)].data = query[k].data
        BY <1>1 DEF Query
      <4> QED
        BY <1>1, <4>1, <4>2, <4>3
    <3> QED
      BY <3>1, RowsSame, StillForms
  <2> QED
    BY <1>8, <2>1, <2>2 DEF Server
<1>9. CASE Network
  <2>1. \A i \in DOMAIN req : Finished(i) = [req EXCEPT ![i] =
            Ended(IF req[i].op = "upload" THEN req[i].song ELSE Nil)]
    BY DEF Finished
  <2>2. \A i \in DOMAIN req : req[i].song \in Songs \cup {Nil}
    BY <1>1 DEF Request, Over
  <2>3. ASSUME NEW i \in DOMAIN req, NEW o, Proper(o), Rendered(o, Finished(i)) PROVE FormsKept'
    BY <1>5, <2>1, <2>2, <2>3
  <2>4. CASE \E i \in DOMAIN req : Receive(i)
    <3>1. PICK i \in DOMAIN req : Receive(i)
      BY <2>4
    <3>2. CASE ReceiveUpload(i) \/ ReceiveCreate(i) \/ ReceiveAdd(i) \/ ReceiveDelete(i)
      BY <1>1, <1>6, <2>3, <3>2 DEF ReceiveUpload, ReceiveCreate, ReceiveAdd, ReceiveDelete
    <3>3. CASE ReceiveCreateFor(i)
      <4> DEFINE r == Sent("addTo", req[i].song, req[i].list, req[i].form)
      <4>1. req[i] \in Request /\ req[i].op = "createFor" /\ RowForm(req[i].form)
        BY <1>1, <3>3 DEF ReceiveCreateFor, Over, RowForms
      <4>2. r \in Request /\ RowForm(r.form)
        BY <4>1 DEF Sent, Request
      <4> HIDE DEF r
      <4>3. Rendered(overlay, [AddsAgain(req[i].form) EXCEPT ![i] = r])
        BY <3>3 DEF ReceiveCreateFor, r
      <4>4. DOMAIN AddsAgain(req[i].form) = DOMAIN req
        BY DEF AddsAgain
      <4> QED
        BY <1>1, <1>2, <1>4, <4>2, <4>3, <4>4
    <3> QED
      BY <3>1, <3>2, <3>3 DEF Receive
  <2>5. CASE \E i \in DOMAIN req : ReceiveFailure(i) \/ GiveUp(i)
    <3>1. PICK i \in DOMAIN req : ReceiveFailure(i) \/ GiveUp(i)
      BY <2>5
    <3>2. UNCHANGED <<overlay, path>> /\ (UNCHANGED query \/ \E ks : query' = Unheard(query, ks))
      BY <3>1 DEF ReceiveFailure, GiveUp, client
    <3>3. \E r : req' = [req EXCEPT ![i] = r] /\ (r.op = "over" \/ (r.op = req[i].op /\ r.form = NoForm))
      <4>1. \A song : Ended(song).op = "over"
        BY DEF Ended
      <4>2. [Formless(req[i]) EXCEPT !.stage = "lost"].op = req[i].op
            /\ [Formless(req[i]) EXCEPT !.stage = "lost"].form = NoForm
        BY <1>1 DEF Request, Over, Formless
      <4> QED
        BY <3>1, <4>1, <4>2 DEF ReceiveFailure, GiveUp, Finished
    <3>4. \A k \in Keys : query'[k].data = query[k].data
      BY <1>1, <3>2, CacheContents
    <3> QED
      BY <3>2, <3>3, <3>4, RowsSame, StillForms
  <2>6. CASE \E k \in Keys : ReceiveFetch(k)
    BY <1>1, <2>6, RenderedForms DEF ReceiveFetch
  <2>7. CASE \E k \in Keys : FetchFails(k)
    <3>1. UNCHANGED <<overlay, path, req>> /\ \A k \in Keys : query'[k].data = query[k].data
      <4>1. PICK k \in Keys : query' = [query EXCEPT ![k].stage = "idle", ![k].behind = TRUE]
                              /\ UNCHANGED <<overlay, path, req>>
        BY <2>7 DEF FetchFails
      <4>2. query' = [query EXCEPT ![k] = [query[k] EXCEPT !.stage = "idle", !.behind = TRUE]]
        BY <1>1, <4>1, Zenon
      <4>3. [query[k] EXCEPT !.stage = "idle", !.behind = TRUE].data = query[k].data
        BY <1>1 DEF Query
      <4> QED
        BY <1>1, <4>1, <4>2, <4>3
    <3> QED
      BY <3>1, RowsSame, StillForms
  <2> QED
    BY <1>9, <2>4, <2>5, <2>6, <2>7 DEF Network
<1>10. CASE UNCHANGED vars
  BY <1>10, RowsSame, StillForms DEF vars, client
<1> QED
  BY <1>7, <1>8, <1>9, <1>10 DEF Next

-----------------------------------------------------------------------------
\* What holds of forms, requests and songs besides the types.
ShellInv ==
    TypeOK /\ RequestsMade /\ RequestsKnown /\ ListsKnown /\ FormsKept

LEMMA ShellInit ==
  ASSUME Init
  PROVE  ShellInv
<1>1. /\ library = FirstSongs /\ lists \in [Playlists -> {<<>>, Nil}] /\ path = Page("home")
      /\ query = [k \in Keys |-> IF k \in Active THEN Ask(Idle) ELSE Idle]
      /\ overlay = NoOverlay /\ req = <<>> /\ visits = 0 /\ wanted = [p \in Playlists |-> Nil]
  BY DEF Init
<1>2. DOMAIN req = {} /\ Len(req) = 0 /\ req \in Seq(Request \cup Over)
  BY <1>1
<1>3. Kind(path) = "home" /\ path \in Paths
  BY <1>1, PathsAssumption DEF Kind, Page
<1>4. library \in Lists
  BY <1>1, SongsAssumption DEF Lists
<1>5. Ask(Idle) \in Query /\ Idle \in Query /\ Idle.data = Nil /\ Idle.got = Nil
      /\ Ask(Idle).data = Nil /\ Ask(Idle).got = Nil
  BY DEF Ask, Idle, Query
<1>6. query \in [Keys -> Query] /\ \A k \in Keys : query[k].data = Nil /\ query[k].got = Nil
  BY <1>1, <1>5
<1>7. TypeOK
  BY <1>1, <1>2, <1>3, <1>4, <1>6, EmptyList, BoundsAssumption, NoRow DEF TypeOK, Proper
<1>8. RequestsMade /\ RequestsKnown
  BY <1>2 DEF RequestsMade, RequestsKnown
<1>9. ListsKnown
  <2>1. Of(Nil) = {} /\ Of(<<>>) = {}
    BY DEF Of, Range
  <2>2. \A p \in Playlists : Of(lists[p]) = {}
    BY <1>1, <2>1
  <2>3. Range(library) \subseteq Known
    BY <1>1 DEF Known
  <2>4. \A p \in Playlists : wanted[p] = Nil
    BY <1>1
  <2> QED
    BY <1>6, <2>1, <2>2, <2>3, <2>4 DEF ListsKnown
<1>10. FormsKept
  BY <1>1, <1>2, NoRow DEF FormsKept, MenuKept
<1> QED
  BY <1>7, <1>8, <1>9, <1>10 DEF ShellInv

LEMMA ShellStep ==
  ASSUME ShellInv, [Next]_vars
  PROVE  ShellInv'
<1>1. TypeOK /\ RequestsMade /\ RequestsKnown /\ ListsKnown /\ FormsKept /\ MenuKept
  BY DEF ShellInv, FormsKept
<1>2. Changes
  BY <1>1, StepKinds
<1>3. TypeOK'
  BY <1>1, TypeStep
<1>4. RequestsMade'
  BY <1>1, <1>2, MadeStep
<1>5. RequestsKnown'
  BY <1>1, <1>2, KnownStep
<1>6. ListsKnown'
  BY <1>1, <1>2, ListsStep
<1>7. FormsKept'
  BY <1>1, FormsStep
<1> QED
  BY <1>3, <1>4, <1>5, <1>6, <1>7 DEF ShellInv

LEMMA ShellAlways == Spec => []ShellInv
<1>1. Init => ShellInv
  BY ShellInit
<1>2. ShellInv /\ [Next]_vars => ShellInv'
  BY ShellStep
<1> QED
  BY <1>1, <1>2, PTL DEF Spec

\* The type of each variable is kept by every step: the rows of a menu or dialog are
\* rows of lists in the cache, requests are about songs and playlists there are, and
\* what is fetched is a list of songs without repetition.
THEOREM TypeCorrect == Spec => []TypeOK
<1>1. ShellInv => TypeOK
  BY DEF ShellInv
<1> QED
  BY <1>1, ShellAlways, PTL

\* A row of search results is one track, wherever it stands.
LEMMA ResultRows ==
  ASSUME NEW r \in Rows, r.view = "results"
  PROVE  /\ Kind(path) = "results"
         /\ r = [view |-> "results", song |-> r.song, pos |-> 0]
         /\ r.song \in Range(Shown("found"))
<1>1. \A view, tracks : \A x \in CollectionView(view, tracks) : x.view = view
  BY DEF CollectionView
<1>2. Kind(path) \notin {"album", "playlist"}
  BY <1>1 DEF Rows
<1>3. Kind(path) = "results" /\ r \in SongRows(Shown("found"))
  BY <1>2 DEF Rows
<1> QED
  BY <1>3 DEF SongRows

\* What a rendering closes, it closes for want of a row.
LEMMA RenderedCloses ==
  ASSUME TypeOK, MenuKept, NEW rs \in Requests, Rendered(overlay, rs), overlay' # overlay
  PROVE  /\ IsRow(overlay.form) /\ overlay.form \notin Rows'
         /\ overlay.form.view = "results" /\ path' = path =>
                overlay.form.song \notin Range(Shown("found"))'
<1>1. overlay \in Overlay
  BY DEF TypeOK
<1>2. IsRow(overlay.form) /\ overlay.form \notin Rows'
  BY <1>1, RenderedKeeps
<1>3. ASSUME overlay.form.view = "results", path' = path,
             overlay.form.song \in Range(Shown("found"))'
      PROVE  FALSE
  <2>1. /\ Kind(path) = "results"
        /\ overlay.form = [view |-> "results", song |-> overlay.form.song, pos |-> 0]
    BY <1>2, <1>3, ResultRows DEF MenuKept
  <2>2. Rows' = SongRows(Shown("found"))'
    BY <1>3, <2>1 DEF Rows
  <2>3. overlay.form \in SongRows(Shown("found"))'
    BY <1>3, <2>1 DEF SongRows
  <2> QED
    BY <1>2, <2>2, <2>3
<1> QED
  BY <1>2, <1>3

\* What the user does answers nothing.
LEMMA ActsAnswerNothing ==
  ASSUME TypeOK, Acts
  PROVE  ~Answered
<1>1. \A i \in DOMAIN req : req'[i].stage = req[i].stage
  BY DEF Acts, Looks, Asks, Stay, Grows, Same
<1>2. UNCHANGED query \/ \E k : query' = Mounted(query, k)
  BY DEF Acts, Looks, Goes, Asks
<1>3. \A k \in Keys : query[k].stage = "served" => query'[k] = query[k]
  BY <1>2 DEF Mounted, TypeOK
<1> QED
  BY <1>1, <1>3 DEF Answered

\* A request that is over stays so when its form goes.
LEMMA FinishedOver ==
  ASSUME TypeOK, NEW i \in DOMAIN req, NEW o, Rendered(o, Finished(i))
  PROVE  req'[i].stage = "over"
<1>1. PICK song : Finished(i) = [req EXCEPT ![i] = Ended(song)]
  BY DEF Finished
<1>2. /\ DOMAIN Finished(i) = DOMAIN req /\ Finished(i)[i] = Ended(song)
      /\ Ended(song).stage = "over" /\ Formless(Ended(song)).stage = "over"
  BY <1>1 DEF Ended, Formless, TypeOK
<1>3. req'[i] \in {Finished(i)[i], Formless(Finished(i)[i])}
  BY <1>2 DEF Rendered
<1> QED
  BY <1>2, <1>3

\* An answer closes the dialogs of its request's kind, the menu that createAndAdd
\* was called from, and the menus whose rows go; nothing else, for any number of
\* requests, dialogs and menus.  What TrackMenu and the dialogs do not tell apart is
\* left: a dialog that has been closed and opened again, a track that has moved on
\* a collection page, and a page that the user has chosen since.
THEOREM WhatAnswersClose == Spec => OverlayStays
<1> DEFINE Succeeds(i) == req[i].stage = "ok" /\ req'[i].stage = "over"
           Led == path' # path => \E i \in DOMAIN req :
                      Succeeds(i) /\ req[i].op = "create" /\ path' = PlaylistPath(req[i].list)
           Asked ==
             \E i \in DOMAIN req :
               /\ Succeeds(i)
               /\ IF IsRow(overlay.form)
                  THEN req[i].op = "addTo" /\ req[i].form = overlay.form
                  ELSE req[i].op = overlay.form.view
           Gone ==
             /\ IsRow(overlay.form) /\ overlay.form \notin Rows'
             /\ Led
             /\ overlay.form.view = "results" /\ path' = path =>
                  overlay.form.song \notin Range(Shown("found"))'
<1>1. ShellInv /\ [Next]_vars => [Answered /\ overlay' # overlay => Asked \/ Gone]_vars
  <2> SUFFICES ASSUME ShellInv, Next, Answered, overlay' # overlay
               PROVE  Asked \/ Gone
    OBVIOUS
  <2> USE DEF Asked
  <2> HIDE DEF Gone, Led
  <2>1. TypeOK /\ RequestsMade /\ MenuKept /\ FormsKept /\ req \in Requests
    BY DEF ShellInv, FormsKept, TypeOK, Requests
  <2>2. ASSUME NEW rs \in Requests, Rendered(overlay, rs), Led PROVE Gone
    BY <2>1, <2>2, RenderedCloses DEF Gone
  <2>3. ~User
    BY <2>1, UserSteps, ActsAnswerNothing
  <2>4. ~Server
    BY DEF Server, Serve, Refuse, ServeFetch, client
  <2>5. CASE \E k \in Keys : ReceiveFetch(k)
    BY <2>1, <2>2, <2>5 DEF ReceiveFetch, Led
  <2>6. CASE \E i \in DOMAIN req : Receive(i)
    <3>1. PICK i \in DOMAIN req : Receive(i)
      BY <2>6
    <3>2. req[i] \in Request /\ Left(req[i]) \in Over /\ req[i].stage = "ok"
      <4>1. req[i].stage = "ok" /\ req[i] \in Request \cup Over
        BY <2>1, <3>1, RequestKept DEF Receive
      <4>2. req[i] \in Request
        BY <4>1 DEF Over
      <4> QED
        BY <4>1, <4>2, EndedOver DEF Left, Request
    <3>3. Finished(i) \in Requests
      <4>1. Finished(i) = [req EXCEPT ![i] = Left(req[i])]
        BY DEF Finished, Left
      <4> QED
        BY <2>1, <3>2, <4>1 DEF Requests
    <3>4. \A form : OnClose(form) = IF overlay.form = form THEN NoOverlay ELSE overlay
      BY DEF OnClose
    <3>5. \A d : Dialog(d).view = d /\ (d \in {"upload", "create"} => ~IsRow(Dialog(d)))
      BY DEF Dialog, IsRow
    <3>6. CASE ReceiveUpload(i)
      <4>0. Succeeds(i) /\ Led
        BY <2>1, <3>2, <3>6, FinishedOver DEF ReceiveUpload, Led
      <4>1. CASE overlay.form = Dialog("upload")
        BY <3>5, <3>6, <4>0, <4>1 DEF ReceiveUpload
      <4>2. CASE overlay.form # Dialog("upload")
        BY <2>2, <3>3, <3>4, <3>6, <4>0, <4>2 DEF ReceiveUpload
      <4> QED
        BY <4>1, <4>2
    <3>7. CASE ReceiveCreate(i)
      <4>0. Succeeds(i) /\ Led
        BY <2>1, <3>2, <3>7, FinishedOver DEF ReceiveCreate, Led
      <4>1. CASE overlay.form = Dialog("create")
        BY <3>5, <3>7, <4>0, <4>1 DEF ReceiveCreate
      <4>2. CASE overlay.form # Dialog("create")
        BY <2>2, <3>3, <3>4, <3>7, <4>0, <4>2 DEF ReceiveCreate
      <4> QED
        BY <4>1, <4>2
    <3>8. CASE ReceiveCreateFor(i)
      <4>1. /\ Rendered(overlay, [AddsAgain(req[i].form) EXCEPT ![i] =
                   Sent("addTo", req[i].song, req[i].list, req[i].form)])
        BY <3>8 DEF ReceiveCreateFor
      <4>0. Led
        BY <3>8 DEF ReceiveCreateFor, Led
      <4>2. Sent("addTo", req[i].song, req[i].list, req[i].form) \in Request
        BY <3>2 DEF Sent, Request
      <4>3. AddsAgain(req[i].form) \in Requests
        BY <2>1, AddsAgainAlike DEF Alike
      <4>4. \A r \in Request : [AddsAgain(req[i].form) EXCEPT ![i] = r] \in Requests
        <5>1. PICK rs \in Requests : rs = AddsAgain(req[i].form)
          BY <4>3
        <5>2. ASSUME NEW r \in Request \cup Over
              PROVE  [rs EXCEPT ![i] = r] \in Requests
          <6>1. rs \in [1..Len(rs) -> Request \cup Over] /\ Len(rs) \in Nat
            BY DEF Requests
          <6>2. [rs EXCEPT ![i] = r] \in [1..Len(rs) -> Request \cup Over]
            BY <6>1
          <6> QED
            BY <6>1, <6>2 DEF Requests
        <5> QED
          BY <5>1, <5>2
      <4> QED
        BY <2>2, <4>0, <4>1, <4>2, <4>4
    <3>9. CASE ReceiveAdd(i)
      <4>0. Succeeds(i) /\ Led
        BY <2>1, <3>2, <3>9, FinishedOver DEF ReceiveAdd, Led
      <4>1. CASE req[i].op = "addTo" /\ overlay.form = req[i].form
        <5>1. IsRow(overlay.form) \/ overlay.form = NoForm
          BY <2>1, <4>1 DEF FormsKept, RowForm
        <5>2. CASE IsRow(overlay.form)
          BY <4>0, <4>1, <5>2
        <5>3. CASE overlay.form = NoForm
          <6>1. overlay = NoOverlay /\ Rendered(OnClose(req[i].form), Finished(i))
            BY <2>1, <3>9, <4>1, <5>3 DEF FormsKept, ReceiveAdd
          <6> QED
            BY <2>2, <3>3, <3>4, <4>0, <6>1
        <5> QED
          BY <5>1, <5>2, <5>3
      <4>2. CASE ~(req[i].op = "addTo" /\ overlay.form = req[i].form)
        <5>1. Rendered(overlay, Finished(i))
          BY <3>4, <3>9, <4>2 DEF ReceiveAdd
        <5> QED
          BY <2>2, <3>3, <4>0, <5>1
      <4> QED
        BY <4>1, <4>2
    <3>10. CASE ReceiveDelete(i)
      BY <2>2, <3>3, <3>10 DEF ReceiveDelete, Led
    <3> QED
      BY <3>1, <3>6, <3>7, <3>8, <3>9, <3>10 DEF Receive
  <2>7. ~(\E i \in DOMAIN req : ReceiveFailure(i) \/ GiveUp(i)) /\ ~(\E k \in Keys : FetchFails(k))
    BY DEF ReceiveFailure, GiveUp, FetchFails, client
  <2> QED
    BY <2>3, <2>4, <2>5, <2>6, <2>7 DEF Next, Network
<1>2. ASSUME [Answered /\ overlay' # overlay => Asked \/ Gone]_vars
      PROVE  [Answered /\ overlay' # overlay =>
                  \/ \E i \in DOMAIN req :
                         /\ req[i].stage = "ok" /\ req'[i].stage = "over"
                         /\ IF IsRow(overlay.form)
                            THEN req[i].op = "addTo" /\ req[i].form = overlay.form
                            ELSE req[i].op = overlay.form.view
                  \/ /\ IsRow(overlay.form) /\ overlay.form \notin Rows'
                     /\ path' # path => \E i \in DOMAIN req :
                            /\ req[i].stage = "ok" /\ req'[i].stage = "over"
                            /\ req[i].op = "create" /\ path' = PlaylistPath(req[i].list)
                     /\ overlay.form.view = "results" /\ path' = path =>
                            overlay.form.song \notin Range(Shown("found"))']_vars
  BY <1>2
<1> QED
  BY ShellAlways, <1>1, <1>2, PTL DEF Spec, OverlayStays

-----------------------------------------------------------------------------
(* The playlists that were created for a track. *)

\* The request that brings the track s to playlist p.
Comes(p, s, r) ==
    /\ r.list = p /\ r.song = s
    /\ \/ r.op = "createFor" /\ r.stage = "ok"
       \/ r.op = "addTo" /\ r.stage \in {"sent", "failed"}

WantedComes ==
    \A p \in Playlists : wanted[p] \in Range(library) =>
        wanted[p] \in Of(lists[p]) \/ \E i \in DOMAIN req : Comes(p, wanted[p], req[i])

LEMMA SameComes ==
  ASSUME NEW r, NEW t, Same(r, t), NEW p, NEW s
  PROVE  Comes(p, s, r) <=> Comes(p, s, t)
  BY DEF Same, Comes

\* A request that is to come keeps coming, if it goes on as one.
LEMMA KeepsComing ==
  ASSUME NEW p, NEW s, \E j \in DOMAIN req : Comes(p, s, req[j]),
         \/ Stay \/ \E r : Grows(r)
         \/ \E i, r : Turns(i, r) /\ (Comes(p, s, req[i]) => Comes(p, s, r))
  PROVE  \E j \in DOMAIN req' : Comes(p, s, req'[j])
<1>1. PICK j \in DOMAIN req : Comes(p, s, req[j])
  OBVIOUS
<1>2. CASE Stay \/ \E r : Grows(r)
  <2>1. j \in DOMAIN req' /\ Same(req'[j], req[j])
    BY <1>2 DEF Stay, Grows
  <2> QED
    BY <1>1, <2>1, SameComes
<1>3. CASE \E i, r : Turns(i, r) /\ (Comes(p, s, req[i]) => Comes(p, s, r))
  <2>1. PICK i, r : Turns(i, r) /\ (Comes(p, s, req[i]) => Comes(p, s, r))
    BY <1>3
  <2>2. CASE j = i
    <3>1. j \in DOMAIN req' /\ Same(req'[j], r)
      BY <2>1, <2>2 DEF Turns
    <3> QED
      BY <1>1, <2>1, <2>2, <3>1, SameComes
  <2>3. CASE j # i
    <3>1. j \in DOMAIN req' /\ Same(req'[j], req[j])
      BY <2>1, <2>3 DEF Turns
    <3> QED
      BY <1>1, <3>1, SameComes
  <2> QED
    BY <2>2, <2>3
<1> QED
  BY <1>2, <1>3

\* A request that is carried out does not come after that, save the creation.
LEMMA OutcomeComes ==
  ASSUME NEW i, NEW list, Outcome(i, list), NEW p, NEW s, ~Comes(p, s, req[i]),
         \E j \in DOMAIN req : Comes(p, s, req[j])
  PROVE  \E j \in DOMAIN req' : Comes(p, s, req'[j])
<1>1. \E r : Turns(i, r)
  BY DEF Outcome
<1> QED
  BY <1>1, KeepsComing

LEMMA WantedStep ==
  ASSUME TypeOK, RequestsMade, RequestsKnown, ListsKnown, WantedComes, Changes
  PROVE  WantedComes'
<1> SUFFICES ASSUME NEW p \in Playlists, wanted'[p] \in Range(library')
             PROVE  wanted'[p] \in Of(lists'[p]) \/ \E j \in DOMAIN req' : Comes(p, wanted'[p], req'[j])
  BY DEF WantedComes
<1>1. wanted[p] \in Range(library) =>
          wanted[p] \in Of(lists[p]) \/ \E j \in DOMAIN req : Comes(p, wanted[p], req[j])
  BY DEF WantedComes
<1>2. Nil \notin Range(library) /\ Nil \notin Range(library')
  <2>1. library \in Lists /\ library' \in Lists
    BY ServerKeeps DEF TypeOK
  <2> QED
    BY <2>1, NilAssumption DEF Lists, Range
<1> DEFINE Coming == wanted'[p] \in Of(lists'[p]) \/ \E j \in DOMAIN req' : Comes(p, wanted'[p], req'[j])
<1>3. ASSUME UNCHANGED <<library, lists>>, wanted'[p] = wanted[p],
             \/ Stay \/ \E r : Grows(r)
             \/ \E i, r : Turns(i, r) /\ (Comes(p, wanted[p], req[i]) => Comes(p, wanted[p], r))
      PROVE  Coming
  BY <1>1, <1>3, KeepsComing
<1>4. CASE Acts \/ \E k \in Keys : Fetches(k)
  <2>1. (Stay \/ \E r : Grows(r)) /\ UNCHANGED server
    BY <1>4 DEF Acts, Looks, Goes, Asks, Fetches
  <2> QED
    BY <1>3, <2>1 DEF server
<1>5. ASSUME NEW i \in DOMAIN req, Fails(i) PROVE Coming
  <2>1. CASE req[i].stage = "lost"
    <3>1. Turns(i, Ended(Nil)) /\ ~Comes(p, wanted[p], req[i])
      BY <1>5, <2>1 DEF Fails, Comes
    <3> QED
      BY <1>3, <1>5, <3>1 DEF Fails, server
  <2>2. CASE req[i].stage = "sent"
    <3> DEFINE r == [req[i] EXCEPT !.stage = "failed"]
    <3>1. Turns(i, r) /\ req[i] \in Request
      BY <1>5, <2>2, RequestKept DEF Fails, TypeOK, Requests, Over
    <3>2. r.op = req[i].op /\ r.song = req[i].song /\ r.list = req[i].list /\ r.stage = "failed"
      BY <3>1 DEF Request
    <3> HIDE DEF r
    <3>3. Comes(p, wanted[p], req[i]) => Comes(p, wanted[p], r)
      BY <2>2, <3>2 DEF Comes
    <3> QED
      BY <1>3, <1>5, <3>1, <3>3 DEF Fails, server
  <2> QED
    BY <1>5, <2>1, <2>2 DEF Fails
<1>6. ASSUME NEW i \in DOMAIN req, Renews(i) \/ Arrives(i) PROVE Coming
  <2>1. (\E r : Turns(i, r)) /\ ~Comes(p, wanted[p], req[i]) /\ UNCHANGED server
    BY <1>6 DEF Renews, Arrives, Goes, Comes
  <2> QED
    BY <1>3, <2>1 DEF server
<1>7. ASSUME NEW i \in DOMAIN req, GoesOn(i) PROVE Coming
  <2> DEFINE r == Sent("addTo", req[i].song, req[i].list, req[i].form)
  <2>1. Turns(i, r)
    BY <1>7 DEF GoesOn
  <2>2. r.op = "addTo" /\ r.song = req[i].song /\ r.list = req[i].list /\ r.stage = "sent"
    BY DEF Sent
  <2> HIDE DEF r
  <2>3. Comes(p, wanted[p], req[i]) => Comes(p, wanted[p], r)
    BY <2>2 DEF Comes
  <2> QED
    BY <1>3, <1>7, <2>1, <2>3 DEF GoesOn, server
<1>8. ASSUME NEW i \in DOMAIN req, Ends(i) PROVE Coming
  <2>1. wanted'[p] = (IF p = req[i].list THEN Nil ELSE wanted[p]) /\ UNCHANGED <<library, lists>>
    BY <1>8 DEF Ends, Dropped
  <2>2. req[i].list # p /\ wanted'[p] = wanted[p]
    BY <1>2, <2>1
  <2>3. (\E r : Turns(i, r)) /\ ~Comes(p, wanted[p], req[i])
    BY <1>8, <2>2 DEF Ends, Comes
  <2> QED
    BY <1>3, <2>1, <2>2, <2>3
\* The server's steps.
<1>9. ASSUME NEW i \in DOMAIN req, Uploads(i) PROVE Coming
  <2>1. /\ req[i].song \notin Known \cup {Nil}
        /\ Range(library') = Range(library) \cup {req[i].song}
    BY <1>9, UploadLists, NilAssumption
  <2>2. UNCHANGED <<lists, wanted>> /\ wanted[p] \in Known \cup {Nil}
    BY <1>9 DEF Uploads, ListsKnown
  <2>3. wanted[p] \in Range(library)
    BY <2>1, <2>2
  <2>4. Outcome(i, req[i].list) /\ ~Comes(p, wanted[p], req[i])
    BY <1>9 DEF Uploads, Comes
  <2> QED
    BY <1>1, <2>2, <2>3, <2>4, OutcomeComes
<1>10. ASSUME NEW i \in DOMAIN req, AddsOne(i) PROVE Coming
  <2>1. UNCHANGED <<library, wanted>> /\ Outcome(i, req[i].list) /\ req[i].op \in {"add", "addTo"}
    BY <1>10 DEF AddsOne
  <2>2. /\ Exists(req[i].list) /\ lists'[req[i].list] # Nil
        /\ Range(lists'[req[i].list]) = Range(lists[req[i].list]) \cup {req[i].song}
        /\ \A q \in Playlists \ {req[i].list} : lists'[q] = lists[q]
    BY <1>10, AddLists, ListNotNil
  <2>3. Of(lists[p]) \subseteq Of(lists'[p])
    BY <2>2 DEF Of, Exists
  <2>4. CASE Comes(p, wanted[p], req[i])
    <3>1. p = req[i].list /\ wanted[p] = req[i].song
      BY <2>4 DEF Comes
    <3> QED
      BY <2>1, <2>2, <3>1 DEF Of
  <2>5. CASE ~Comes(p, wanted[p], req[i])
    BY <1>1, <2>1, <2>3, <2>5, OutcomeComes
  <2> QED
    BY <2>4, <2>5
<1>11. ASSUME NEW i \in DOMAIN req, DeletesOne(i) PROVE Coming
  <2>1. UNCHANGED wanted /\ Outcome(i, req[i].list) /\ ~Comes(p, wanted[p], req[i])
    BY <1>11 DEF DeletesOne, Comes
  <2>2. /\ Range(library') = Range(library) \ {req[i].song}
        /\ Exists(p) => lists'[p] # Nil /\ Range(lists'[p]) = Range(lists[p]) \ {req[i].song}
    BY <1>11, DeleteLists, ListNotNil
  <2>3. wanted[p] \in Of(lists[p]) => wanted[p] \in Of(lists'[p])
    BY <2>1, <2>2 DEF Of, Exists
  <2> QED
    BY <1>1, <2>1, <2>2, <2>3, OutcomeComes
<1>12. ASSUME NEW i \in DOMAIN req, CreatesOne(i) PROVE Coming
  <2>1. PICK new \in Playlists :
            /\ Outcome(i, new) /\ \A q \in Playlists \ {new} : lists'[q] = lists[q]
            /\ wanted' = [wanted EXCEPT ![new] = IF req[i].stage = "sent" THEN req[i].song ELSE Nil]
    BY <1>12, CreateLists
  <2>2. /\ req[i].op \in {"create", "createFor"} /\ library' = library
        /\ req[i].stage \in {"sent", "lost"} /\ req[i] \in Request
        /\ wanted \in [Playlists -> Songs \cup {Nil}]
    BY <1>12, <2>1, OutcomeRequest DEF CreatesOne, TypeOK
  <2>3. CASE p # new
    <3>1. wanted'[p] = wanted[p] /\ lists'[p] = lists[p] /\ ~Comes(p, wanted[p], req[i])
      BY <2>1, <2>2, <2>3 DEF Comes
    <3> QED
      BY <1>1, <2>1, <2>2, <3>1, OutcomeComes
  <2>4. CASE p = new
    <3>1. req[i].stage = "sent" /\ wanted'[p] = req[i].song
      BY <1>2, <2>1, <2>2, <2>4
    <3>2. req[i].op = "createFor"
      BY <1>2, <2>2, <3>1 DEF RequestsMade
    <3> DEFINE r == [req[i] EXCEPT !.list = new, !.stage = "ok"]
    <3>3. r.op = "createFor" /\ r.list = p /\ r.song = wanted'[p] /\ r.stage = "ok"
      BY <2>2, <2>4, <3>1, <3>2 DEF Request
    <3>4. Turns(i, r)
      BY <2>1, <3>1 DEF Outcome
    <3> HIDE DEF r
    <3>5. Comes(p, wanted'[p], r)
      BY <3>3 DEF Comes
    <3> QED
      BY <3>4, <3>5, SameComes DEF Turns
  <2> QED
    BY <2>3, <2>4
<1> QED
  BY <1>4, <1>5, <1>6, <1>7, <1>8, <1>9, <1>10, <1>11, <1>12 DEF Changes, Acts

\* Create a playlist for a track, and the track is in it, or the request that adds it
\* is under way or has failed, or the track is gone: of the two requests that
\* TrackMenu sends one after the other, the second is never forgotten.
THEOREM EveryCreatedForTrack == Spec => []CreatedForTrack
<1> DEFINE IInv == ShellInv /\ WantedComes
<1>1. Init => IInv
  <2>1. ASSUME Init PROVE WantedComes
    <3>1. FirstSongs \in Seq(Songs) /\ library = FirstSongs
      BY <2>1, SongsAssumption DEF Init
    <3>2. \A p \in Playlists : wanted[p] = Nil
      BY <2>1 DEF Init
    <3> QED
      BY <3>1, <3>2, NilAssumption DEF WantedComes, Range
  <2> QED
    BY <2>1, ShellInit
<1>2. IInv /\ [Next]_vars => IInv'
  <2>1. ASSUME ShellInv, WantedComes, [Next]_vars PROVE WantedComes'
    BY <2>1, WantedStep, StepKinds DEF ShellInv
  <2> QED
    BY <2>1, ShellStep
<1>3. IInv => CreatedForTrack
  BY DEF WantedComes, CreatedForTrack, Comes, Of
<1> QED
  BY <1>1, <1>2, <1>3, PTL DEF Spec

-----------------------------------------------------------------------------
(* The lists on display. *)

\* The page of a playlist, and the fetches for one, are of a playlist there is.
PlaylistsThere ==
    /\ Kind(path) = "playlist" => Exists(path[2])
    /\ \A p \in Playlists : ~Exists(p) => query[p].stage = "idle"

\* d is what the server has as list k, but for tracks that are deleted.
Agrees(k, d) ==
    IF k \in Playlists /\ Exists(k) THEN d # Nil /\ Only(d, Range(library)) = lists[k]
    ELSE d = Listing(k)

Heard(k) == \A i \in DOMAIN req : req[i].stage = "ok" => k \notin Invalidated(req[i])

\* Unless a change has gone past them, the answer on its way is the server's list,
\* and so is a list on display that no fetch is to renew.
AnswerAgrees(k) ==
    ~query[k].behind /\ Heard(k) =>
        /\ query[k].stage = "served" => Agrees(k, query[k].got)
        /\ query[k].stage = "idle" /\ k \in Active => Agrees(k, query[k].data)

LEMMA HeardBefore ==
  ASSUME NEW k, Heard(k)',
         \/ Stay \/ \E r : Grows(r)
         \/ \E i, r : Turns(i, r) /\ (req[i].stage = "ok" => k \notin Invalidated(req[i]))
  PROVE  Heard(k)
<1>1. \A r, s : Same(r, s) => r.stage = s.stage /\ Invalidated(r) = Invalidated(s)
  BY DEF Same, Invalidated
<1>2. CASE Stay \/ \E r : Grows(r)
  BY <1>1, <1>2 DEF Stay, Grows, Heard
<1>3. CASE \E i, r : Turns(i, r) /\ (req[i].stage = "ok" => k \notin Invalidated(req[i]))
  BY <1>1, <1>3 DEF Turns, Heard
<1> QED
  BY <1>2, <1>3

\* A list of the cache that the step leaves alone.
LEMMA StillAgrees ==
  ASSUME TypeOK, ListsKnown, NEW k \in Keys, AnswerAgrees(k), query'[k] = query[k],
         \/ Stay \/ \E r : Grows(r)
         \/ \E i, r : Turns(i, r) /\ (req[i].stage = "ok" => k \notin Invalidated(req[i])),
         query[k].stage = "idle" /\ k \in Active' => k \in Active,
         \A d \in Data : Of(d) \subseteq Known /\ Agrees(k, d) => Agrees(k, d)'
  PROVE  AnswerAgrees(k)'
<1>1. query[k].data \in Data /\ query[k].got \in Data
      /\ Of(query[k].data) \subseteq Known /\ Of(query[k].got) \subseteq Known
  BY DEF TypeOK, Query, Data, ListsKnown
<1>2. Heard(k)' => Heard(k)
  BY HeardBefore
<1>3. \A d \in {query[k].data, query[k].got} : Agrees(k, d) => Agrees(k, d)'
  BY <1>1
<1>4. ASSUME ~query'[k].behind, Heard(k)'
      PROVE  /\ query'[k].stage = "served" => Agrees(k, query[k].got)'
             /\ query'[k].stage = "idle" /\ k \in Active' => Agrees(k, query[k].data)'
  BY <1>2, <1>3, <1>4 DEF AnswerAgrees
<1> QED
  BY <1>4 DEF AnswerAgrees, Agrees, Listing, Found

\* A list that need not agree.
LEMMA NeedNotAgree ==
  ASSUME NEW k, \/ query'[k].behind \/ query'[k].stage = "sent" \/ ~Heard(k)'
                \/ query'[k].stage = "idle" /\ k \notin Active'
  PROVE  AnswerAgrees(k)'
  BY DEF AnswerAgrees

\* The cache list by list.
LEMMA CacheOne ==
  ASSUME query \in [Keys -> Query], NEW k \in Keys, NEW m, NEW ks
  PROVE  /\ Mounted(query, m)[k] =
                IF k = m /\ query[k].stage = "idle" THEN Ask(query[k]) ELSE query[k]
         /\ k \notin ks => Invalidate(query, ks)[k] = query[k] /\ Unheard(query, ks)[k] = query[k]
         /\ k \in ks =>
                LET q == Invalidate(query, ks)[k]
                IN  q.stage = "sent" \/ q.behind \/ (q.stage = "idle" /\ k \notin Active)
         /\ k \in ks => Unheard(query, ks)[k].stage = "sent" \/ Unheard(query, ks)[k].behind
         /\ Unheard(query, ks)[k].stage = query[k].stage
<1>1. query[k] \in Query
  OBVIOUS
<1>2. Ask(query[k]).stage = "sent"
  BY <1>1 DEF Ask, Query
<1>3. /\ Join(query[k]).stage = query[k].stage
      /\ query[k].stage = "served" => Join(query[k]).behind
  BY <1>1 DEF Join, Query
<1>4. [query[k] EXCEPT !.behind = TRUE].behind
      /\ [query[k] EXCEPT !.behind = TRUE].stage = query[k].stage
  BY <1>1 DEF Query
<1>5. Mounted(query, m)[k] = IF k = m /\ query[k].stage = "idle" THEN Ask(query[k]) ELSE query[k]
  BY DEF Mounted
<1>6. Invalidate(query, ks)[k] =
          IF k \notin ks THEN query[k]
          ELSE IF k \in Active /\ (query[k].stage = "idle" \/ query[k].data # Nil) THEN Ask(query[k])
          ELSE Join(query[k])
  BY DEF Invalidate
<1>7. Unheard(query, ks)[k] =
          IF k \in ks /\ query[k].stage # "sent" THEN [query[k] EXCEPT !.behind = TRUE] ELSE query[k]
  BY DEF Unheard
<1>8. query[k].stage \in {"idle", "sent", "served"}
  BY <1>1 DEF Query
<1>9. k \in ks => LET q == Invalidate(query, ks)[k]
                  IN  q.stage = "sent" \/ q.behind \/ (q.stage = "idle" /\ k \notin Active)
  BY <1>2, <1>3, <1>6, <1>8
<1> QED
  BY <1>4, <1>5, <1>6, <1>7, <1>9

\* A request that is carried out: a list it changes need not agree until it is
\* fetched again, others are left alone.
LEMMA OutcomeLists ==
  ASSUME TypeOK, NEW i, NEW list, Outcome(i, list), NEW k \in Keys,
         list = req[i].list \/ req[i].op \in {"create", "createFor"}
  PROVE  IF k \in Invalidated(req[i]) THEN AnswerAgrees(k)'
         ELSE /\ query'[k] = query[k] /\ Active' = Active
              /\ \E r : Turns(i, r) /\ (req[i].stage = "ok" => k \notin Invalidated(req[i]))
<1>1. i \in DOMAIN req /\ req[i] \in Request /\ req[i].stage \in {"sent", "lost"}
      /\ query \in [Keys -> Query] /\ path' = path
  BY OutcomeRequest DEF TypeOK, Outcome
<1>2. CASE k \in Invalidated(req[i])
  <2>1. CASE req[i].stage = "sent"
    <3> DEFINE r == [req[i] EXCEPT !.list = list, !.stage = "ok"]
    <3>1. r.op = req[i].op /\ r.list = list /\ r.stage = "ok"
      BY <1>1 DEF Request
    <3>2. Turns(i, r)
      BY <2>1 DEF Outcome
    <3> HIDE DEF r
    <3>3. Invalidated(r) = Invalidated(req[i])
      BY <3>1 DEF Invalidated
    <3>4. i \in DOMAIN req' /\ req'[i].stage = "ok" /\ Invalidated(req'[i]) = Invalidated(r)
      BY <3>1, <3>2 DEF Turns, Same, Invalidated
    <3>5. ~Heard(k)'
      BY <1>2, <3>3, <3>4 DEF Heard, Invalidated
    <3> QED
      BY <1>2, <3>5, NeedNotAgree
  <2>2. CASE req[i].stage = "lost"
    <3>1. PICK ks : ks = Invalidated(req[i])
      OBVIOUS
    <3>2. query' = Unheard(query, ks) /\ k \in ks
      BY <1>2, <2>2, <3>1 DEF Outcome
    <3>3. Unheard(query, ks)[k].stage = "sent" \/ Unheard(query, ks)[k].behind
      BY <1>1, <3>2, CacheOne
    <3> QED
      BY <1>2, <3>2, <3>3, NeedNotAgree
  <2> QED
    BY <1>1, <2>1, <2>2
<1>3. CASE k \notin Invalidated(req[i])
  <2>1. query'[k] = query[k]
    BY <1>1, <1>3, CacheOne DEF Outcome
  <2>2. \E r : Turns(i, r)
    BY <1>1 DEF Outcome
  <2>3. Active' = Active
    BY <1>1 DEF Active
  <2> QED
    BY <1>3, <2>1, <2>2, <2>3
<1> QED
  BY <1>2, <1>3

\* A page that the user, or the end of a creation, goes to.
LEMMA GoesLists ==
  ASSUME TypeOK, ListsKnown, Goes, NEW k \in Keys, AnswerAgrees(k),
         Stay \/ \E i, r : Turns(i, r) /\ (req[i].stage = "ok" => k \notin Invalidated(req[i]))
  PROVE  AnswerAgrees(k)'
<1>1. query \in [Keys -> Query] /\ UNCHANGED <<library, lists>>
  BY DEF TypeOK, Goes, server
<1>2. \A d \in Data : Agrees(k, d) => Agrees(k, d)'
  BY <1>1 DEF Agrees, Exists, Listing
<1>3. \A x \in Active' : x \in Active \/ x = PageKey(path')
  BY DEF Active, PageKey, Kind
<1>4. CASE query'[k] = query[k] /\ (query[k].stage = "idle" /\ k \in Active' => k \in Active)
  BY <1>2, <1>4, StillAgrees
<1>5. CASE query' = query /\ PageKey(path') \in Active
  BY <1>3, <1>4, <1>5
<1>6. CASE query' = Mounted(query, PageKey(path'))
  <2>1. query'[k] = IF k = PageKey(path') /\ query[k].stage = "idle" THEN Ask(query[k]) ELSE query[k]
    BY <1>1, <1>6, CacheOne
  <2>2. CASE k = PageKey(path') /\ query[k].stage = "idle"
    <3>1. query'[k].stage = "sent"
      BY <1>1, <2>1, <2>2 DEF Ask, Query
    <3> QED
      BY <3>1, NeedNotAgree
  <2>3. CASE ~(k = PageKey(path') /\ query[k].stage = "idle")
    BY <1>3, <1>4, <2>1, <2>3
  <2> QED
    BY <2>2, <2>3
<1> QED
  BY <1>5, <1>6 DEF Goes

\* A fetch: its answer is made up, comes in, or does not.
LEMMA FetchLists ==
  ASSUME TypeOK, ListsKnown, NEW m, Fetches(m), NEW k \in Keys, AnswerAgrees(k)
  PROVE  AnswerAgrees(k)'
<1>1. query \in [Keys -> Query] /\ UNCHANGED <<library, lists, path>> /\ Stay
  BY DEF TypeOK, Fetches, server
<1>2. Active' = Active /\ \A d \in Data : Agrees(k, d) => Agrees(k, d)'
  BY <1>1 DEF Active, Agrees, Exists, Listing
<1>3. PICK q \in Query :
          /\ query' = [query EXCEPT ![m] = q]
          /\ \/ /\ query[m].stage = "sent" /\ q.stage = "served" /\ q.behind = query[m].behind
                /\ q.data = query[m].data /\ q.got = Listing(m)
             \/ /\ query[m].stage = "served" /\ q.stage = "idle" /\ q.behind = query[m].behind
                /\ q.data = query[m].got
             \/ /\ query[m].stage = "sent" /\ q.stage = "idle" /\ q.behind /\ q.data = query[m].data
  BY FetchSteps
<1>4. CASE k # m
  <2>1. query'[k] = query[k]
    BY <1>1, <1>3, <1>4
  <2> QED
    BY <1>1, <1>2, <2>1, StillAgrees
<1>5. CASE k = m
  <2>1. query'[k] = q
    BY <1>1, <1>3, <1>5
  <2>2. Heard(k)' => Heard(k)
    BY <1>1, HeardBefore
  <2>3. query[k].data \in Data /\ query[k].got \in Data
    BY <1>1 DEF Query, Data
  <2>4. CASE q.stage = "served" /\ q.got = Listing(k)
    <3>1. Agrees(k, Listing(k))
      <4>1. CASE k \in Playlists /\ Exists(k)
        <5>1. Listing(k) = lists[k] /\ lists[k] # Nil /\ lists[k] \in Seq(Songs)
              /\ ToSet(lists[k]) \subseteq Range(library)
          <6>1. Listing(k) = lists[k] /\ lists[k] # Nil
            BY <4>1, NilAssumption DEF Listing, Exists
          <6>2. lists[k] \in Lists /\ Range(lists[k]) \subseteq Range(library)
            BY <4>1, <6>1 DEF TypeOK, ListsKnown, Of
          <6> QED
            BY <6>1, <6>2 DEF Lists, Range, ToSet
        <5> QED
          BY <4>1, <5>1, OnlyAll DEF Agrees
      <4>2. CASE ~(k \in Playlists /\ Exists(k))
        BY <4>2 DEF Agrees
      <4> QED
        BY <4>1, <4>2
    <3>2. Listing(k) \in Data
      BY ListingTyped DEF Data
    <3>3. Agrees(k, q.got)'
      BY <1>2, <2>4, <3>1, <3>2
    <3> QED
      BY <2>1, <2>4, <3>3 DEF AnswerAgrees
  <2>5. CASE /\ query[k].stage = "served" /\ q.stage = "idle" /\ q.behind = query[k].behind
             /\ q.data = query[k].got
    <3>1. ~q.behind /\ Heard(k)' => Agrees(k, q.data)
      BY <2>2, <2>5 DEF AnswerAgrees
    <3>2. ~q.behind /\ Heard(k)' => Agrees(k, q.data)'
      BY <1>2, <2>3, <2>5, <3>1
    <3> QED
      BY <2>1, <2>5, <3>2 DEF AnswerAgrees
  <2>6. CASE q.behind
    BY <2>1, <2>6, NeedNotAgree
  <2> QED
    BY <1>3, <1>5, <2>4, <2>5, <2>6
<1> QED
  BY <1>4, <1>5

\* What the server does to a list shows in no other.
LEMMA ServerLists ==
  ASSUME TypeOK, RequestsMade, RequestsKnown, ListsKnown, NEW i, NEW k \in Playlists, Exists(k),
         NEW d \in Data, Of(d) \subseteq Known, Agrees(k, d)
  PROVE  /\ Uploads(i) => Agrees(k, d)'
         /\ AddsOne(i) /\ k # req[i].list => Agrees(k, d)'
         /\ CreatesOne(i) => Agrees(k, d)'
         /\ DeletesOne(i) => Agrees(k, d)'
<1>1. d # Nil /\ d \in Seq(Songs) /\ Only(d, Range(library)) = lists[k] /\ ToSet(d) \subseteq Known
  <2>1. d # Nil /\ Only(d, Range(library)) = lists[k]
    BY DEF Agrees
  <2> QED
    BY <2>1 DEF Data, Lists, Of, Range, ToSet
<1>2. ASSUME lists'[k] # Nil, Only(d, Range(library')) = lists'[k] PROVE Agrees(k, d)'
  BY <1>1, <1>2 DEF Agrees, Exists
<1>3. ASSUME Uploads(i) PROVE Agrees(k, d)'
  <2>1. Range(library') = Range(library) \cup {req[i].song} /\ req[i].song \notin Known
        /\ lists' = lists
    BY <1>3, UploadLists DEF Uploads
  <2>2. ToSet(d) \cap Range(library') = ToSet(d) \cap Range(library)
    BY <1>1, <2>1
  <2>3. Only(d, Range(library')) = Only(d, Range(library))
    BY <1>1, <2>2, OnlySame
  <2> QED
    BY <1>1, <1>2, <2>1, <2>3 DEF Exists
<1>4. ASSUME AddsOne(i), k # req[i].list PROVE Agrees(k, d)'
  <2>1. library' = library /\ lists'[k] = lists[k]
    BY <1>4, AddLists DEF AddsOne
  <2> QED
    BY <1>1, <1>2, <2>1 DEF Exists
<1>5. ASSUME CreatesOne(i) PROVE Agrees(k, d)'
  <2>1. library' = library /\ lists'[k] = lists[k]
    BY <1>5, CreateLists DEF CreatesOne
  <2> QED
    BY <1>1, <1>2, <2>1 DEF Exists
<1>6. ASSUME DeletesOne(i) PROVE Agrees(k, d)'
  <2> DEFINE s == req[i].song
  <2>1. /\ Range(library') = Range(library) \ {s}
        /\ lists'[k] = Only(lists[k], Songs \ {s}) /\ lists'[k] # Nil
    BY <1>6, DeleteLists, ListNotNil DEF Without
  <2> HIDE DEF s
  <2>2. Range(library) \cap (Songs \ {s}) = Range(library')
    <3>1. Range(library) \subseteq Songs
      BY DEF TypeOK, Lists, Range
    <3> QED
      BY <2>1, <3>1
  <2>3. Only(Only(d, Range(library)), Songs \ {s}) = Only(d, Range(library'))
    BY <1>1, <2>2, OnlyTwice
  <2> QED
    BY <1>1, <1>2, <2>1, <2>3
<1> QED
  BY <1>3, <1>4, <1>5, <1>6

LEMMA PlaylistsThereStep ==
  ASSUME TypeOK, RequestsMade, RequestsKnown, ListsKnown, PlaylistsThere, Changes
  PROVE  PlaylistsThere'
<1>1. /\ query \in [Keys -> Query] /\ path \in Paths /\ Playlists \subseteq Keys
      /\ \A p \in Playlists : Exists(p) => lists'[p] # Nil
  BY ServerKeeps DEF TypeOK, Keys
<1>2. ASSUME path' = path \/ (Goes /\ path' \in Paths)
      PROVE  Kind(path') = "playlist" => lists'[path'[2]] # Nil
  <2>1. CASE path' = path
    BY <1>1, <2>1, PageKeys DEF PlaylistsThere
  <2>2. CASE Goes /\ path' \in Paths
    BY <1>1, <2>2, PageKeys DEF Goes, Kind
  <2> QED
    BY <1>2, <2>1, <2>2
<1>3. path' = path \/ (Goes /\ path' \in Paths)
  <2>1. \A i, list : Outcome(i, list) => path' = path
    BY DEF Outcome
  <2>2. Goes => path' \in Paths
    BY DEF Goes
  <2>3. \A i : Arrives(i) => Goes
    BY DEF Arrives
  <2>4. \A i : Uploads(i) \/ CreatesOne(i) \/ AddsOne(i) \/ DeletesOne(i) => path' = path
    BY <2>1 DEF Uploads, CreatesOne, AddsOne, DeletesOne
  <2> QED
    BY <2>2, <2>3, <2>4 DEF Changes, Looks, Asks, Fails, Renews, GoesOn, Ends, Fetches
<1>4. ASSUME NEW p \in Playlists, ~Exists(p)
      PROVE  lists'[p] # Nil \/ query'[p].stage = query[p].stage
  <2>1. query[p].stage = "idle" /\ query[p] \in Query /\ p \in Keys /\ p \notin {"tracks", "found"}
    BY <1>1, <1>4, NilAssumption DEF PlaylistsThere
  <2>2. ASSUME NEW m, query' = Mounted(query, m), m # p PROVE query'[p] = query[p]
    BY <1>1, <2>1, <2>2, CacheOne
  <2>3. ASSUME NEW ks, query' = Invalidate(query, ks), p \notin ks PROVE query'[p] = query[p]
    BY <1>1, <2>1, <2>3, CacheOne
  <2>4. ASSUME NEW ks, query' = Unheard(query, ks) PROVE query'[p].stage = query[p].stage
    BY <1>1, <2>1, <2>4, CacheOne
  <2>5. ASSUME Goes PROVE query'[p] = query[p] \/ lists'[p] # Nil
    <3>1. CASE query' = Mounted(query, PageKey(path'))
      <4>1. CASE PageKey(path') = p
        <5>1. Kind(path') = "playlist" /\ path'[2] = p
          BY <2>1, <4>1 DEF PageKey, Kind
        <5> QED
          BY <1>2, <2>5, <5>1 DEF Goes
      <4>2. CASE PageKey(path') # p
        BY <2>2, <3>1, <4>2
      <4> QED
        BY <4>1, <4>2
    <3> QED
      BY <2>5, <3>1 DEF Goes
  <2>6. \A i, list : Outcome(i, list) => query'[p].stage = query[p].stage
    BY <2>4 DEF Outcome
  <2>7. \A i : Uploads(i) \/ CreatesOne(i) \/ AddsOne(i) \/ DeletesOne(i) =>
            query'[p].stage = query[p].stage
    BY <2>6 DEF Uploads, CreatesOne, AddsOne, DeletesOne
  <2>8. \A i \in DOMAIN req : Renews(i) => query'[p].stage = query[p].stage
    <3>1. TAKE i \in DOMAIN req
    <3>2. HAVE Renews(i)
    <3>3. p \notin Invalidated(req[i])
      BY <1>4, <2>1, <3>2 DEF Renews, RequestsMade, Invalidated
    <3> QED
      BY <2>3, <3>2, <3>3 DEF Renews
  <2>9. \A i : Ends(i) => query'[p].stage = query[p].stage
    BY <2>4 DEF Ends
  <2>10. \A k \in Keys : Fetches(k) => query'[p] = query[p]
    <3>1. TAKE k \in Keys
    <3>2. HAVE Fetches(k)
    <3>3. PICK q \in Query : query' = [query EXCEPT ![k] = q] /\ query[k].stage # "idle"
      BY <3>2, FetchSteps
    <3> QED
      BY <1>1, <2>1, <3>3
  <2> QED
    BY <2>1, <2>5, <2>7, <2>8, <2>9, <2>10 DEF Changes, Looks, Asks, Fails, Arrives, GoesOn
<1> QED
  BY <1>1, <1>2, <1>3, <1>4 DEF PlaylistsThere, Exists, Kind

LEMMA AgreeStep ==
  ASSUME TypeOK, RequestsMade, RequestsKnown, ListsKnown, PlaylistsThere,
         \A k \in Keys : AnswerAgrees(k), Changes, NEW k \in Keys
  PROVE  AnswerAgrees(k)'
<1> DEFINE Kept(r, i) == Turns(i, r) /\ (req[i].stage = "ok" => k \notin Invalidated(req[i]))
<1>1. AnswerAgrees(k) /\ query \in [Keys -> Query]
  BY DEF TypeOK
<1>2. ASSUME UNCHANGED <<library, lists>> PROVE \A d \in Data : Agrees(k, d) => Agrees(k, d)'
  BY <1>2 DEF Agrees, Exists, Listing
<1>3. ASSUME UNCHANGED <<library, lists, path>>, query'[k] = query[k],
             Stay \/ (\E r : Grows(r)) \/ \E i, r : Kept(r, i)
      PROVE  AnswerAgrees(k)'
  <2>1. Active' = Active
    BY <1>3 DEF Active
  <2> QED
    BY <1>1, <1>2, <1>3, <2>1, StillAgrees
<1>4. CASE Looks \/ \E r : Asks(r)
  BY <1>3, <1>4 DEF Looks, Asks, server
<1>5. CASE Stay /\ Goes
  BY <1>1, <1>5, GoesLists
<1>6. CASE \E m \in Keys : Fetches(m)
  BY <1>1, <1>6, FetchLists
<1>7. ASSUME NEW i \in DOMAIN req, Fails(i) \/ GoesOn(i) PROVE AnswerAgrees(k)'
  <2>1. \E r : Kept(r, i)
    BY <1>7 DEF Fails, GoesOn, Invalidated
  <2> QED
    BY <1>3, <1>7, <2>1 DEF Fails, GoesOn, server
<1>8. ASSUME NEW i \in DOMAIN req, Arrives(i) PROVE AnswerAgrees(k)'
  <2>1. Goes /\ \E r : Kept(r, i)
    BY <1>8 DEF Arrives, Invalidated
  <2> QED
    BY <1>1, <2>1, GoesLists
<1>9. ASSUME NEW i \in DOMAIN req, Renews(i) PROVE AnswerAgrees(k)'
  <2>1. PICK ks : ks = Invalidated(req[i]) /\ query' = Invalidate(query, ks)
    BY <1>9 DEF Renews
  <2>2. UNCHANGED <<library, lists, path>> /\ \E r : Turns(i, r)
    BY <1>9 DEF Renews, server
  <2>3. CASE k \in ks
    <3>1. Active' = Active
      BY <2>2 DEF Active
    <3>2. LET q == Invalidate(query, ks)[k]
          IN  q.stage = "sent" \/ q.behind \/ (q.stage = "idle" /\ k \notin Active)
      BY <1>1, <2>3, CacheOne
    <3> QED
      BY <2>1, <3>1, <3>2, NeedNotAgree
  <2>4. CASE k \notin ks
    <3>1. query'[k] = query[k]
      BY <1>1, <2>1, <2>4, CacheOne
    <3> QED
      BY <1>3, <2>1, <2>2, <2>4, <3>1
  <2> QED
    BY <2>3, <2>4
<1>10. ASSUME NEW i \in DOMAIN req, Ends(i) PROVE AnswerAgrees(k)'
  <2>1. UNCHANGED <<library, lists, path>> /\ \E r : Turns(i, r)
    BY <1>10 DEF Ends
  <2>2. CASE req[i].stage # "ok"
    BY <1>3, <1>10, <2>1, <2>2 DEF Ends
  <2>3. CASE req[i].stage = "ok"
    <3>1. PICK ks : ks = Invalidated(req[i]) /\ query' = Unheard(query, ks)
      BY <1>10, <2>3 DEF Ends
    <3>2. CASE k \in ks
      <4>1. Unheard(query, ks)[k].stage = "sent" \/ Unheard(query, ks)[k].behind
        BY <1>1, <3>2, CacheOne
      <4> QED
        BY <3>1, <4>1, NeedNotAgree
    <3>3. CASE k \notin ks
      <4>1. query'[k] = query[k]
        BY <1>1, <3>1, <3>3, CacheOne
      <4> QED
        BY <1>3, <2>1, <3>1, <3>3, <4>1
    <3> QED
      BY <3>2, <3>3
  <2> QED
    BY <2>2, <2>3
\* The server's steps.
<1>11. ASSUME NEW i \in DOMAIN req, NEW list, Outcome(i, list),
              list = req[i].list \/ req[i].op \in {"create", "createFor"},
              k \notin Invalidated(req[i]) =>
                  (\A d \in Data : Of(d) \subseteq Known /\ Agrees(k, d) => Agrees(k, d)')
       PROVE  AnswerAgrees(k)'
  <2>1. CASE k \in Invalidated(req[i])
    BY <1>11, <2>1, OutcomeLists
  <2>2. CASE k \notin Invalidated(req[i])
    BY <1>1, <1>11, <2>2, OutcomeLists, StillAgrees
  <2> QED
    BY <2>1, <2>2
<1>12. k \in Playlists => k \notin {"tracks", "found"}
  BY NilAssumption
<1>13. ASSUME NEW d, ~Exists(k), lists'[k] = Nil, k \in Playlists, Agrees(k, d)
       PROVE  Agrees(k, d)'
  BY <1>12, <1>13 DEF Agrees, Exists, Listing
<1>14. ASSUME NEW i \in DOMAIN req, Uploads(i) \/ DeletesOne(i) PROVE AnswerAgrees(k)'
  <2>1. Outcome(i, req[i].list) /\ Invalidated(req[i]) = {"tracks", "found"}
    BY <1>14 DEF Uploads, DeletesOne, Invalidated
  <2>2. ASSUME k \notin {"tracks", "found"}, NEW d \in Data, Of(d) \subseteq Known, Agrees(k, d)
        PROVE  Agrees(k, d)'
    <3>1. k \in Playlists
      BY <2>2 DEF Keys
    <3>2. CASE Exists(k)
      BY <1>14, <2>2, <3>1, <3>2, ServerLists
    <3>3. CASE ~Exists(k)
      <4>1. lists'[k] = Nil
        BY <1>14, <3>1, <3>3, DeleteLists DEF Uploads, Exists
      <4> QED
        BY <1>13, <2>2, <3>1, <3>3, <4>1
    <3> QED
      BY <3>2, <3>3
  <2> QED
    BY <1>11, <2>1, <2>2
<1>15. ASSUME NEW i \in DOMAIN req, AddsOne(i) PROVE AnswerAgrees(k)'
  <2>1. Outcome(i, req[i].list) /\ Invalidated(req[i]) = {req[i].list} /\ library' = library
    BY <1>15 DEF AddsOne, Invalidated
  <2>2. ASSUME k # req[i].list, NEW d \in Data, Of(d) \subseteq Known, Agrees(k, d)
        PROVE  Agrees(k, d)'
    <3>1. CASE k \in Playlists /\ Exists(k)
      BY <1>15, <2>2, <3>1, ServerLists
    <3>2. CASE k \in Playlists /\ ~Exists(k)
      <4>1. lists'[k] = Nil
        BY <1>15, <2>2, <3>2, AddLists DEF Exists
      <4> QED
        BY <1>13, <2>2, <3>2, <4>1
    <3>3. CASE k \notin Playlists
      BY <2>1, <2>2, <3>3 DEF Agrees, Listing, Keys
    <3> QED
      BY <3>1, <3>2, <3>3
  <2> QED
    BY <1>11, <2>1, <2>2
<1>16. ASSUME NEW i \in DOMAIN req, CreatesOne(i) PROVE AnswerAgrees(k)'
  <2>1. PICK new \in Playlists :
            /\ ~Exists(new) /\ Outcome(i, new)
            /\ \A q \in Playlists \ {new} : lists'[q] = lists[q]
    BY <1>16, CreateLists
  <2>2. req[i].op \in {"create", "createFor"} /\ library' = library /\ Invalidated(req[i]) = {}
    BY <1>16 DEF CreatesOne, Invalidated
  <2>3. CASE k = new
    <3>1. query'[k] = query[k] /\ Active' = Active
      BY <2>1, <2>2, OutcomeLists
    <3>2. query[k].stage = "idle" /\ k \notin Active
      BY <1>12, <2>1, <2>3 DEF PlaylistsThere, Active, PageKey
    <3> QED
      BY <3>1, <3>2, NeedNotAgree
  <2>4. CASE k # new
    <3>1. ASSUME NEW d \in Data, Of(d) \subseteq Known, Agrees(k, d)
          PROVE  Agrees(k, d)'
      <4>1. CASE k \in Playlists /\ Exists(k)
        BY <1>16, <3>1, <4>1, ServerLists
      <4>2. CASE k \in Playlists /\ ~Exists(k)
        <5>1. lists'[k] = Nil
          BY <2>1, <2>4, <4>2 DEF Exists
        <5> QED
          BY <1>13, <3>1, <4>2, <5>1
      <4>3. CASE k \notin Playlists
        BY <2>2, <3>1, <4>3 DEF Agrees, Listing, Keys
      <4> QED
        BY <4>1, <4>2, <4>3
    <3> QED
      BY <1>11, <2>1, <2>2, <3>1
  <2> QED
    BY <2>3, <2>4
<1> QED
  BY <1>4, <1>5, <1>6, <1>7, <1>8, <1>9, <1>10, <1>14, <1>15, <1>16 DEF Changes

\* An answer on its way is known to be behind, or an invalidation is still to come, or
\* it is what the server has.
AgreeInv == ShellInv /\ PlaylistsThere /\ \A k \in Keys : AnswerAgrees(k)

LEMMA AgreeInit ==
  ASSUME Init
  PROVE  AgreeInv
<1>1. /\ path = Page("home") /\ query = [k \in Keys |-> IF k \in Active THEN Ask(Idle) ELSE Idle]
  BY DEF Init
<1>2. Kind(path) = "home"
  BY <1>1 DEF Kind, Page
<1>3. Ask(Idle).stage = "sent" /\ Idle.stage = "idle"
  BY DEF Ask, Idle
<1>4. \A k \in Keys : IF k \in Active THEN query[k].stage = "sent" ELSE query[k].stage = "idle"
  BY <1>1, <1>3
<1>5. \A p \in Playlists : p \in Keys /\ p \notin Active
  BY <1>2, NilAssumption DEF Keys, Active, PageKey
<1>6. PlaylistsThere
  BY <1>2, <1>4, <1>5 DEF PlaylistsThere
<1>7. \A k \in Keys : AnswerAgrees(k)
  BY <1>4 DEF AnswerAgrees
<1> QED
  BY <1>6, <1>7, ShellInit DEF AgreeInv

LEMMA AgreeAlways == Spec => []AgreeInv
<1>1. Init => AgreeInv
  BY AgreeInit
<1>2. AgreeInv /\ [Next]_vars => AgreeInv'
  <2>1. SUFFICES ASSUME AgreeInv, [Next]_vars PROVE AgreeInv'
    OBVIOUS
  <2>2. /\ ShellInv /\ PlaylistsThere /\ \A k \in Keys : AnswerAgrees(k)
        /\ TypeOK /\ RequestsMade /\ RequestsKnown /\ ListsKnown
    BY <2>1 DEF AgreeInv, ShellInv
  <2>3. Changes
    BY <2>1, <2>2, StepKinds
  <2>4. ShellInv'
    BY <2>1, <2>2, ShellStep
  <2>5. PlaylistsThere'
    BY <2>2, <2>3, PlaylistsThereStep
  <2>6. ASSUME NEW k \in Keys PROVE AnswerAgrees(k)'
    BY <2>2, <2>3, AgreeStep
  <2> QED
    BY <2>4, <2>5, <2>6 DEF AgreeInv
<1> QED
  BY <1>1, <1>2, PTL DEF Spec

LEMMA SettledAgree ==
  ASSUME AgreeInv
  PROVE  PagesAgree
<1> SUFFICES ASSUME NEW k \in Active, Settled(k)
             PROVE  IF k \in Playlists /\ Exists(k)
                    THEN query[k].data # Nil /\ Only(Shown(k), Range(library)) = lists[k]
                    ELSE query[k].data = Listing(k)
  BY DEF PagesAgree
<1>1. k \in Keys
  <2>1. path \in Paths
    BY DEF AgreeInv, ShellInv, TypeOK
  <2> QED
    BY <2>1, PageKeys DEF Active, Keys
<1>2. Agrees(k, query[k].data)
  BY <1>1 DEF AgreeInv, AnswerAgrees, Settled, Heard
<1> QED
  BY <1>2 DEF Agrees, Shown

\* A page whose fetches are settled shows what the server has: the invalidations that
\* each mutation in queries.ts ends with, and the fetches they cancel or start, leave
\* no list on display out of date, but for deleted tracks of a playlist.
THEOREM SettledPagesAgree == Spec => []PagesAgree
  BY AgreeAlways, SettledAgree, PTL

-----------------------------------------------------------------------------

\* Each card of an album stands for the tracks of a list.
LEMMA CardTracks ==
  ASSUME NEW tracks \in Seq(Tracks), NEW p,
         \/ p \in AlbumCards(tracks)
         \/ p \in {AlbumPath(al.id) :
                al \in useLibrary(tracks).albums \cup UNION {ar.albums : ar \in useLibrary(tracks).artists}}
  PROVE  \E t \in Range(tracks) : p = AlbumPath(Key[t])
<1>1. \A al \in buildAlbums(tracks) : \E t \in Range(tracks) : al.id = Key[t]
  BY DEF buildAlbums
<1>2. useLibrary(tracks).albums = buildAlbums(tracks)
      /\ useLibrary(tracks).artists = buildArtists(buildAlbums(tracks))
  BY DEF useLibrary
<1>3. \A albums : \A ar \in buildArtists(albums) : ar.albums \subseteq albums
  BY ArtistsApart
<1> QED
  BY <1>1, <1>2, <1>3 DEF AlbumCards

LEMMA AlbumLinks ==
  ASSUME NEW p \in Links, Kind(p) = "album"
  PROVE  LET k == IF Kind(path) = "results" THEN "found" ELSE "tracks"
         IN  \/ p \in AlbumCards(Shown(k))
             \/ p \in {AlbumPath(al.id) :
                    al \in useLibrary(Shown(k)).albums \cup UNION {ar.albums : ar \in useLibrary(Shown(k)).artists}}
<1>1. p \notin Sidebar
  BY DEF Sidebar, PlaylistCards, PlaylistPath, Page, Kind
<1>2. p \notin PlaylistCards \cup {Page("library")}
  BY DEF PlaylistCards, PlaylistPath, Page, Kind
<1>3. CASE Kind(path) = "home"
  BY <1>1, <1>2, <1>3 DEF Links, Home
<1>4. CASE Kind(path) \in {"search", "results"}
  BY <1>1, <1>4 DEF Links, Search
<1>5. CASE Kind(path) = "library"
  BY <1>1, <1>5 DEF Links, Library
<1>6. CASE Kind(path) \notin {"home", "search", "results", "library"}
  BY <1>1, <1>6 DEF Links
<1> QED
  BY <1>3, <1>4, <1>5, <1>6

LEMMA SettledOpen ==
  ASSUME TypeOK, PagesAgree
  PROVE  CardsOpen
<1> SUFFICES ASSUME \A k \in Active : Settled(k), NEW p \in Links, Kind(p) = "album"
             PROVE  /\ Range(AlbumTracks(Shown("tracks"), p[2])) # {}
                    /\ Kind(path) = "results" =>
                           Range(AlbumTracks(Shown("found"), p[2])) \subseteq
                               Range(AlbumTracks(Shown("tracks"), p[2]))
  BY DEF CardsOpen
<1>1. /\ library \in Lists /\ library # Nil /\ Found(library) \in Lists /\ Found(library) # Nil
      /\ Range(Found(library)) \subseteq Range(library)
  <2>1. library \in Lists
    BY DEF TypeOK
  <2> QED
    BY <2>1, ListOnly, ListNotNil DEF Found
<1>2. Shown("tracks") = library
  <2>1. "tracks" \in Active /\ "tracks" \notin Playlists
    BY NilAssumption DEF Active
  <2>2. query["tracks"].data = library
    BY <2>1 DEF PagesAgree, Listing
  <2> QED
    BY <1>1, <2>2 DEF Shown
<1>3. Kind(path) = "results" => Shown("found") = Found(library)
  <2>1. SUFFICES ASSUME Kind(path) = "results" PROVE Shown("found") = Found(library)
    OBVIOUS
  <2>2. "found" \in Active /\ "found" \notin Playlists
    BY <2>1, NilAssumption DEF Active, PageKey
  <2>3. query["found"].data = Found(library)
    BY <2>2 DEF PagesAgree, Listing
  <2> QED
    BY <1>1, <2>3 DEF Shown
<1>4. library \in Seq(Tracks) /\ Found(library) \in Seq(Tracks)
  <2>1. Songs \subseteq Tracks
    BY SongsAssumption
  <2> QED
    BY <1>1, <2>1, SeqMonotonic DEF Lists
<1>5. PICK t \in Range(library) : p = AlbumPath(Key[t])
  <2>1. CASE Kind(path) = "results"
    <3>1. \/ p \in AlbumCards(Found(library))
          \/ p \in {AlbumPath(al.id) : al \in useLibrary(Found(library)).albums
                        \cup UNION {ar.albums : ar \in useLibrary(Found(library)).artists}}
      BY <1>3, <2>1, AlbumLinks
    <3> QED
      BY <1>1, <1>4, <3>1, CardTracks
  <2>2. CASE Kind(path) # "results"
    <3>1. \/ p \in AlbumCards(library)
          \/ p \in {AlbumPath(al.id) : al \in useLibrary(library).albums
                        \cup UNION {ar.albums : ar \in useLibrary(library).artists}}
      BY <1>2, <2>2, AlbumLinks
    <3> QED
      BY <1>4, <3>1, CardTracks
  <2> QED
    BY <2>1, <2>2
<1>6. p[2] = Key[t]
  BY <1>5 DEF AlbumPath
<1>7. Range(AlbumTracks(library, p[2])) = {x \in Range(library) : Key[x] = p[2]}
  BY <1>4, AlbumElements
<1>8. Range(AlbumTracks(Found(library), p[2])) = {x \in Range(Found(library)) : Key[x] = p[2]}
  BY <1>4, AlbumElements
<1> QED
  BY <1>1, <1>2, <1>3, <1>6, <1>7, <1>8

\* Then the card of an album opens a page with tracks on it, and with all those that
\* the card on the page of results stands for.
THEOREM SettledCardsOpen == Spec => []CardsOpen
<1>1. AgreeInv => CardsOpen
  <2>1. AgreeInv => TypeOK
    BY DEF AgreeInv, ShellInv
  <2> QED
    BY <2>1, SettledAgree, SettledOpen
<1> QED
  BY <1>1, AgreeAlways, PTL
=============================================================================
