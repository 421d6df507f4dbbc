---------------------------- MODULE MCTerminal ----------------------------
(* Lines of three columns on a screen of four lines, glyphs of one pixel.  *)
EXTENDS Terminal

CONSTANTS x

MCChar   == {x, Space}
MCPrompt == <<x>>
MCOutput == {<<x, Newline>>}
MCStatus == <<<<x, x>>>>
===========================================================================
