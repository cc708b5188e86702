---------------------------- MODULE MCCddbCache ----------------------------
(* Two discs, the shorter a prefix of the longer in its first track; the   *)
(* service knows both; the cddb folder holds two entries of the first      *)
(* disc, under different names.                                            *)
EXTENDS CddbCache

Entry(id, lens, name, year, rev, titles) ==
  [id |-> id, lens |-> lens, name |-> name, year |-> year, rev |-> rev, titles |-> titles]

One == <<15000, 20100>>
Other == <<15000>>

MCDiscs == {[id |-> "one", lens |-> One], [id |-> "other", lens |-> Other]}
MCEntries ==
  {Entry("one", One, "A", 1999, 2, <<<<"a", "b">>, <<"d">>>>),
   Entry("other", Other, "B", 1999, 2, <<<<"e">>>>)}
MCFiles ==
  {Entry("one", One, "A", 0, 1, <<<<"a", "b">>, <<"c">>>>),
   Entry("one", One, "Z", 0, 0, <<<<"a", "b">>, <<"d">>>>)}
MCForeign ==
  {[entry |-> Entry("one", One, "A", 0, 1, <<<<"a", "b">>, <<"c">>>>), style |-> "per track"]}
MCNames == {"U"}
=============================================================================
