----------------------------- MODULE MCJsonFile -----------------------------
(* Discs of one and two tracks, whose names are empty, look like members,  *)
(* literals, numbers and structure, or have quotes and escapes; one query  *)
(* string is longer than a token.                                          *)
EXTENDS JsonFile

MCNames == {<<>>, <<"Blue">>, <<"Kind", Space, "of">>, <<"title">>, <<"skipped", ":">>,
            <<"}", ",", Space, "{">>, <<"]">>, <<"null">>, <<"3">>,
            <<"12", Quote>>, <<Backslash>>}
FewNames == {<<>>, <<"num", ":", "2">>, <<Space>>}

MCTrack(num, length, title) == [num |-> num, length |-> length, title |-> title, skipped |-> 0]
MCDisc(artist, query, tracks) ==
  [id |-> <<"e5">>, length |-> 7, artist |-> artist, query |-> query, extracted |-> 0,
   tracks |-> tracks]

MCDiscs ==
  {MCDisc(artist, <<"e5">>, <<MCTrack(1, 7, <<"Blue">>)>>) : artist \in MCNames}
  \cup {MCDisc(<<"Blue">>, <<"e5">>, <<MCTrack(1, 7, title)>>) : title \in MCNames}
  \cup {MCDisc(<<>>, <<"e5">>, <<MCTrack(1, 3, a), MCTrack(2, 4, b)>>) :
          a \in FewNames, b \in FewNames}
  \cup {MCDisc(<<>>, <<"long">>, <<MCTrack(1, 3, <<>>), MCTrack(2, 4, <<>>)>>)}
=============================================================================
