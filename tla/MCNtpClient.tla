----------------------------- MODULE MCNtpClient -----------------------------
EXTENDS NtpClient

\* Span exceeds the time between the earliest answer that counts as fresh and
\* the end of its call, so that every other shows; Window and Lag fill Wrap,
\* which is passed within a call and between two; an answer that comes behind
\* a small datagram can be in time, or too late; Horizon lets two calls fail
\* in full before a third, and Span wrap.
=============================================================================
