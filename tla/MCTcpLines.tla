----------------------------- MODULE MCTcpLines -----------------------------
EXTENDS TcpLines

\* The constructor's "\0" is an empty string.
MCDelimiters == {<<>>, <<"LF">>, <<"CR", "LF">>, <<"x">>}
=============================================================================
