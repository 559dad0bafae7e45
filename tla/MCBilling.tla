------------------------------ MODULE MCBilling ------------------------------
\* A small instance of Billing for TLC.
EXTENDS Billing
CONSTANTS c1, c2, g1, g2, x1, x2, x3
Scene(status, over, paid, budget_) ==
    [subscription |-> [status |-> status, trialOver |-> over], paidBefore |-> paid,
     limit |-> 2, budget |-> budget_]
Nothing  == [k \in Kinds |-> 0]
\* Two charges of a trial, one refused or refunded; a legacy tenant without a row, with
\* a crash and a failing gateway; one whose paid month was ended; and the groups of a
\* tenant with a plan and of one that gets it in between.
MCScenes ==
    {Scene("TRIAL", FALSE, FALSE, [Nothing EXCEPT !["pix"] = 2, !["manual"] = 1, !["refund"] = 1]),
     Scene("none", TRUE, FALSE,
           [Nothing EXCEPT !["pix"] = 1, !["crash"] = 1, !["fail"] = 1, !["manual"] = 1]),
     Scene("EXPIRED", TRUE, TRUE,
           [Nothing EXCEPT !["pix"] = 1, !["again"] = 1, !["admin"] = 1, !["refund"] = 1]),
     Scene("CANCELED", TRUE, FALSE, [Nothing EXCEPT !["group"] = 5, !["admin"] = 1, !["crash"] = 1]),
     Scene("none", TRUE, FALSE, [Nothing EXCEPT !["group"] = 3, !["pix"] = 1])}
MCRenewal == {Scene("EXPIRED", TRUE, TRUE, [Nothing EXCEPT !["pix"] = 1])}
=============================================================================
