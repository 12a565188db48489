---------------------------- MODULE MCCronTimers ----------------------------
EXTENDS CronTimers

=============================================================================
