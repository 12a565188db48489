-------------------------- MODULE MCEventPipeline --------------------------
EXTENDS EventPipeline

CONSTANTS push, timeout, forward, w1, w2

MCTypes       == {push, timeout}
MCSubs        == {forward}
MCSubMatches  == {<<forward, push>>, <<forward, timeout>>}
MCWaits       == {w1, w2}
MCWaitMatches == {<<w1, push>>, <<w2, push>>, <<w2, timeout>>}
MCExpiring    == {w1}
=============================================================================
