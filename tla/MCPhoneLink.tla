----------------------------- MODULE MCPhoneLink -----------------------------
EXTENDS PhoneLink
=============================================================================
