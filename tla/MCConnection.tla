---------------------------- MODULE MCConnection -----------------------------
(* Two databases, two embedded files whose hash values collide, and requests *)
(* of every kind: one of each, and the ranges all combined.                  *)
EXTENDS Connection

Index == <<"file", "index.html">>
Script == <<"file", "app.js">>
Nothing == <<"file", "nothing">>

MCFiles == <<<<Index, 3>>, <<Script, 1>>>>
MCBookmarkFiles == <<"first", "second">>

Plain == [line |-> "ok", method |-> "GET", path |-> Index, version |-> "HTTP/1.1",
          connection |-> {}, auth |-> <<"user", "pass">>, match |-> FALSE, range |-> <<>>]

Numbers == {Blank, Huge} \union 0 .. 4
Indices == {Blank, -1, 0, 1, 2}

MCAsks ==
    {Plain}
    \union {[Plain EXCEPT !.line = l] : l \in {"short", "dots"}}
    \union {[Plain EXCEPT !.method = m, !.path = p] : m \in {"GET", "HEAD", "POST"},
                                                     p \in {Script, Nothing}}
    \union {[Plain EXCEPT !.version = v, !.connection = c] :
                v \in {"HTTP/1.1", "HTTP/1.0"}, c \in SUBSET {"close", "keep-alive"}}
    \union {[Plain EXCEPT !.auth = a] : a \in {<<>>, <<"user", "">>}}
    \union {[Plain EXCEPT !.match = TRUE]}
    \union {[Plain EXCEPT !.range = <<a, b>>] : a, b \in Numbers}
    \union {[Plain EXCEPT !.path = p] : p \in {<<"bookmarks">>, <<"databases">>}}
    \union {[Plain EXCEPT !.path = <<e, i>>] : e \in {"bookmarks", "database"}, i \in Indices}

MCHash == [path \in {Index, Script} \union {q.path : q \in MCAsks} |-> 1]

=============================================================================
