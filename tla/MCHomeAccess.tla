----------------------------- MODULE MCHomeAccess -----------------------------
EXTENDS HomeAccess

CONSTANTS agent, other, home, sub, file, none

\* A file of mode 0640, and one where a mask restricts somebody else's entry.
Plain == BaseAcl({"r", "w"}, {"r"}, {})
Masked == [Plain EXCEPT !.named = [NobodyNamed EXCEPT ![other] = {"r", "w"}], !.mask = {"r"}]

MCAcls == {Masked}
MCDefaults == {none, Plain}
MCModes == {{}, {"r", "w"}}
===============================================================================
