SPECIFICATION FairSpec
CONSTANTS
    w1 = w1
    w2 = w2
    r1 = r1
    Writers = {w1, w2}
    Readers = {r1}
    Leaves <- MCLeaves
    Postings <- MCPostings
    Parents <- MCParents
    Children <- MCChildren
    Asked <- MCAsked
    TTL = 2
    MaxPosts = 2
INVARIANTS StaleOnlyByOverlap
PROPERTY CacheHeals
