----------------------------- MODULE MCSession -----------------------------
(* Lines of up to three characters, a letter that is also a digit, a full  *)
(* stop and a space, and a command of one letter; then numbers of up to    *)
(* four characters for OS_READUNS, with every branch of the prefixes.      *)
EXTENDS Session

MCPrintable == {65, 46, 32}
MCGO == <<65>>
MCJunk == <<>>
MCDefaulted == {-1, -2, -3}
MCChanged == {-1, -3, -4, 0}
MCStrings == UNION {[1..n -> {32, 38, 49, 95, 65}] : n \in 0..4}
MCFlagSets == {{}, {"terminator"}, {"byte"}, {"terminator", "limit"}}
MCLimits == {10}
=============================================================================
