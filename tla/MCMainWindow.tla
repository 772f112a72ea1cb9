----------------------------- MODULE MCMainWindow -----------------------------
(* Two calls, two accounts, and a table of presence states that is new or  *)
(* has a default in its second row.                                        *)
EXTENDS MainWindow
MacroTexts == {<<"digit", "enter">>, <<"enter">>}
MCStored   == {<<>>, <<FALSE, TRUE>>}
===============================================================================
