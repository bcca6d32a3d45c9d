---------------------------- MODULE MCIngressLanes ----------------------------
(* A lane that correct nodes certify, with crashes, for IngressLanes.          *)
EXTENDS IngressLanes

CorrectCertifiers == {<<1, 2, 1>>}
================================================================================
