---------------------------- MODULE LibraryIndex ----------------------------
(***************************************************************************)
(* How the web client makes albums and artists out of a list of tracks     *)
(* (web/src/hooks/useLibrary.ts): they are not stored anywhere, an album   *)
(* is the tracks whose artist and title come to the same id, which is also *)
(* the address of its page.                                                *)
(*                                                                         *)
(* A name is a sequence of words (runs of ASCII letters and digits) and of *)
(* other characters, where no two words adjoin; an absent name is empty.   *)
(* Albums and artists are sets: the order of their cards is left out, and  *)
(* so are covers and palettes.                                             *)
(***************************************************************************)
EXTENDS Lists, SequencesExt

CONSTANTS
    Tracks,     \* every track the library may ever hold
    Tags,       \* Tags[t]: the names [artist, album] of track t
    Lower,      \* Lower[w]: word w in lower case; its domain is all words
    MaxLength   \* bound on the lists that the properties are about

Words == DOMAIN Lower

ASSUME TagsAssumption ==
    \A t \in Tracks : \A tag \in {"artist", "album"} :
        LET name == Tags[t][tag]
        IN  name \in Seq(STRING) /\ \A i \in 1..(Len(name) - 1) : {name[i], name[i + 1]} \cap Words # {name[i], name[i + 1]}
ASSUME LowerAssumption ==
    /\ {"Unknown", "Artist", "Singles", "untitled"} \subseteq Words
    /\ Lower \in [Words -> Words] /\ Lower["untitled"] = "untitled"
    /\ "-" \notin Words

-----------------------------------------------------------------------------
\* The words of a name in lower case.
WordsOf(name) ==
    LET words == Only(name, Words)
    IN  [i \in DOMAIN words |-> Lower[words[i]]]

\* A dash stands for whatever is between two words, not for what is around them.
Dashed(words) ==
    [i \in 1..(2 * Len(words) - 1) |-> IF i % 2 = 1 THEN words[(i + 1) \div 2] ELSE "-"]

slug(name) == IF WordsOf(name) = <<>> THEN <<"untitled">> ELSE Dashed(WordsOf(name))

\* Mutant of albumId: one dash between artist and title.
albumIdDash(artist, title) == slug(artist) \o <<"-">> \o slug(title)

\* Its callers have filled in absent names already.
albumId(artist, title) == slug(artist) \o <<"-", "-">> \o slug(title)

ArtistOf(t) ==
    IF Tags[t].artist = <<>> THEN <<"Unknown", " ", "Artist">> ELSE Tags[t].artist

TitleOf(t) == IF Tags[t].album = <<>> THEN <<"Singles">> ELSE Tags[t].album

Key == [t \in Tracks |-> albumId(ArtistOf(t), TitleOf(t))]

\* The tracks of the album with an id, none if there is no such album.
AlbumTracks(tracks, id) == Only(tracks, {t \in Tracks : Key[t] = id})

\* The first track of an album in the list gives it its artist and title.
buildAlbums(tracks) ==
    {LET its == AlbumTracks(tracks, id)
     IN  [id |-> id, artist |-> ArtistOf(its[1]), title |-> TitleOf(its[1]), tracks |-> its] :
         id \in {Key[t] : t \in Range(tracks)}}

\* Mutant of buildArtists: artists are told apart by their ids, the name is
\* that of one album.
buildArtistsById(albums) ==
    {LET its == {al \in albums : slug(al.artist) = id}
     IN  [id |-> id, name |-> (CHOOSE al \in its : TRUE).artist, albums |-> its,
          trackCount |-> MapThenSumSet(LAMBDA al : Len(al.tracks), its)] :
         id \in {slug(al.artist) : al \in albums}}

buildArtists(albums) ==
    {LET its == {al \in albums : al.artist = name}
     IN  [id |-> slug(name), name |-> name, albums |-> its,
          trackCount |-> MapThenSumSet(LAMBDA al : Len(al.tracks), its)] :
         name \in {al.artist : al \in albums}}

useLibrary(tracks) ==
    LET albums == buildAlbums(tracks)
    IN  [tracks |-> tracks, albums |-> albums, artists |-> buildArtists(albums)]

-----------------------------------------------------------------------------
(* What the index promises of any list of tracks (Shell states it as AlbumsPartition *)
(* and ArtistsCountAll, of all that the library may grow to).                        *)

TrackLists == {tracks \in BoundedSeq(Tracks, MaxLength) : IsInjective(tracks)}

Size(albums) == MapThenSumSet(LAMBDA al : Len(al.tracks), albums)

\* The same name but for case and what is between the words.
SameName(a, b) ==
    WordsOf(a) = WordsOf(b) \/ {WordsOf(a), WordsOf(b)} \subseteq {<<>>, <<"untitled">>}

SameAlbum(s, t) == SameName(ArtistOf(s), ArtistOf(t)) /\ SameName(TitleOf(s), TitleOf(t))

Partitioned(lib) ==
    /\ Size(lib.albums) = Len(lib.tracks)
    /\ \A s, t \in Range(lib.tracks) :
           SameAlbum(s, t) <=> \E al \in lib.albums : {s, t} \subseteq Range(al.tracks)

Counted(lib) ==
    /\ MapThenSumSet(LAMBDA ar : ar.trackCount, lib.artists) = Len(lib.tracks)
    /\ \A a, b \in lib.artists : a.name = b.name => a = b
    /\ \A a \in lib.artists : \A al \in a.albums : al.artist = a.name

Libraries == {useLibrary(tracks) : tracks \in TrackLists}

NotPartitioned == {lib \in Libraries : ~Partitioned(lib)}
NotCounted     == {lib \in Libraries : ~Counted(lib)}
=============================================================================
