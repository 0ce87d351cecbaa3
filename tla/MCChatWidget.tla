----------------------------- MODULE MCChatWidget -----------------------------
EXTENDS ChatWidget

CONSTANTS ann, t1, t2, m1, m2, r1
=============================================================================
