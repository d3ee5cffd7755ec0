\* Two polls and two fetches under way and two results: the older of two
\* answers may come last. Three calls of toggleCamera and two loops.
SPECIFICATION MCSpec
CONSTANTS
  Polls = {p1, p2}
  Fetches = {f1, f2}
  Toggles = {t1, t2, t3}
  Loops = {l1, l2}
  MaxResults = 3
INVARIANTS RunningHasLoop
PROPERTIES FeedSettles LoopsEnd
