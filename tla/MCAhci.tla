------------------------------ MODULE MCAhci ------------------------------
(* Ahci with two ports, two LBAs, two buffers and a short polling loop.    *)
EXTENDS Ahci

CONSTANTS b1, b2

MCBuffer == {b1, b2}
===========================================================================
