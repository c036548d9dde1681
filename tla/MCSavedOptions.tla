--------------------------- MODULE MCSavedOptions ---------------------------
(***************************************************************************)
(* A small instance of SavedOptions: one plain player name and one made of *)
(* the characters that mean something in a file.                           *)
(***************************************************************************)
EXTENDS SavedOptions

MCNames == {<<"b">>, <<"\\", "n", "{", ";">>}

(* A name with a quote in it.                                              *)
MCQuotedNames == {<<"b">>, <<"\"", "b">>}

(* An integer that is also an old boolean, and a string without its second *)
(* quote.                                                                  *)
MCEditTexts == {<<"1", ";">>, <<"\"", "b">>}
=============================================================================
