------------------------------- MODULE MCShell -------------------------------
(* Instances of Shell and LibraryIndex for TLC. *)
EXTENDS Shell

\* Words are given in two cases; " ", "/" and letters like "é" are not words.
MCLower == [w \in {"AC", "ac", "DC", "dc", "Unknown", "unknown", "Artist", "artist",
                     "Singles", "singles", "untitled"} |->
    IF w = "AC" THEN "ac" ELSE IF w = "DC" THEN "dc"
    ELSE IF w = "Unknown" THEN "unknown" ELSE IF w = "Artist" THEN "artist"
    ELSE IF w = "Singles" THEN "singles" ELSE w]

MCTracks == {"t1", "t2", "t3", "t4", "t5", "t6", "t7"}

MCTags == [t \in MCTracks |->
    CASE t = "t1" -> [artist |-> <<"AC", "/", "DC">>, album |-> <<"dc">>]
      [] t = "t2" -> [artist |-> <<"ac", " ", "dc">>, album |-> <<"DC", "!">>]
      [] t = "t3" -> [artist |-> <<"AC">>, album |-> <<"DC", "-", "DC">>]
      [] t = "t4" -> [artist |-> <<"é">>, album |-> <<"AC">>]
      [] t = "t5" -> [artist |-> <<>>, album |-> <<>>]
      [] t = "t6" -> [artist |-> <<"untitled">>, album |-> <<"ac">>]
      [] t = "t7" -> [artist |-> <<"ac", "-", "DC">>, album |-> <<"AC">>]]

MCFirstSongs == <<"t1">>

MCPaths ==
    {PlaylistPath(p) : p \in Playlists} \cup {Page("results"), Page("home"), Page("search"), Page("library")}
    \cup {AlbumPath(Key[t]) : t \in Songs}
=============================================================================
