---- MODULE MCNtpClock ----
EXTENDS NtpClock
MCErrs == {-3, 0, 4}
====
