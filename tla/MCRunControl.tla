---- MODULE MCRunControl ----
EXTENDS RunControl

MCLingers == {None, 1}
====
