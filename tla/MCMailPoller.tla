----------------------------- MODULE MCMailPoller -----------------------------
EXTENDS MailPoller, TLC

\* Model values: three mails with a Message-ID, one without.
CONSTANTS m1, m2, m3, m4

MCMails == {m1, m2, m3, m4}
MCSymmetry == Permutations({m1, m2, m3})
=============================================================================
