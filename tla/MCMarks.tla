------------------------------ MODULE MCMarks ------------------------------
(* Two bookmarks, one a channel, one without a domain; two variants whose  *)
(* tags overlap, one with a tag that stands twice in its line.             *)
EXTENDS Marks

MCDomain == [url \in Urls |-> IF url \in Channels THEN "youtube.com" ELSE ""]
MCTagsOf == << <<"#a">>, <<"#a", "#b", "#b">> >>
=============================================================================
