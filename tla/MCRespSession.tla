---------------------------- MODULE MCRespSession ----------------------------
(***************************************************************************)
(* Small instances of RespSession.  Arguments are sequences of symbols:    *)
(* words such as "SET" or "k", and a value that spans two lines is a word, *)
(* a line end and a word.  The client sends up to three commands, which is *)
(* enough to pipeline a command behind one still being parsed and to read  *)
(* back what an earlier one wrote.                                         *)
(***************************************************************************)
EXTENDS RespSession

\* SET k v, and SET with a value holding "\r\n", and with an empty value.
SetKV == <<<<Word("SET")>>, <<Word("k")>>, <<Word("v")>>>>
SetKMulti == <<<<Word("SET")>>, <<Word("k")>>, <<Word("v"), CRLF, Word("w")>>>>
SetKEmpty == <<<<Word("SET")>>, <<Word("k")>>, <<>>>>
GetK == <<<<Word("GET")>>, <<Word("k")>>>>
DelK == <<<<Word("DEL")>>, <<Word("k")>>>>
Ping == <<<<Word("PING")>>>>
GetNoKey == <<<<Word("GET")>>>>
\* A value holding a bare "\n".
SetKBareLF == <<<<Word("SET")>>, <<Word("k")>>, <<Word("v"), LF, Word("w")>>>>
\* The empty array *0.
EmptyArray == <<>>

MCCmdsOk == {SetKV, SetKMulti, SetKEmpty, GetK, DelK, Ping, GetNoKey}
MCCmdsEmpty == {SetKV, GetK, EmptyArray}
MCCmdsBareLF == {SetKBareLF, GetK}
MCCmdsStore == {SetKV, GetK, DelK}
\* A header std::stoi cannot read, a line that is neither header nor
\* body, and an empty line.
MCNoJunk == {}
MCJunk == {<<BadHeader("*"), CRLF>>, <<Word("hello"), CRLF>>, <<CRLF>>}
=============================================================================
