---------------------------- MODULE MCServerLogin ----------------------------
(* Instances of ServerLogin for TLC *)
EXTENDS ServerLogin

CONSTANTS a, b

\* A source that lists a after a comment, and one that ends in a comment.
MCTexts == {<<Junk, a>>, <<a, Junk>>}

\* A client with the key, and one that offers another key first.
MCOffers == {<<a>>, <<b, a>>}
==============================================================================
