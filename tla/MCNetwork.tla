------------------------------- MODULE MCNetwork -------------------------------
(* Two calls and two names; the file of the second is longer than the bound.   *)
EXTENDS Network, TLC

CONSTANTS c1, c2

MCSize == "n1" :> 2 @@ "n2" :> 3 @@ "lan" :> 2
MCNames == {"n1", "n2"}

Address(scheme, host) == [scheme |-> scheme, host |-> host]
Ask(op, url, local) == [op |-> op, url |-> url, local |-> local]

MCAsked ==
  c1 :> {Ask("get", Address("https", "n1"), FALSE), Ask("size", Address("https", "n2"), FALSE),
         Ask("get", Address("ftp", "n1"), FALSE), Ask("size", Address("ftp", "n1"), FALSE),
         Ask("file", Address("ftp", "n2"), FALSE)}
  @@ c2 :> {Ask("get", Address("https", "n1"), TRUE), Ask("get", Address("https", "n1"), FALSE),
         Ask("file", Address("https", "lan"), TRUE)}

MCTargets == {Address("https", "n1"), Address("https", "n2"), Address("http", "n1")}
=============================================================================
