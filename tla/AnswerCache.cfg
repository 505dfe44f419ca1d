\* A list of two digests for three questions, one lookup, one invalidation, Redis errors.
SPECIFICATION Spec
CONSTANTS
    q1 = q1
    q2 = q2
    q3 = q3
    NoQuestion = NoQuestion
    NoAnswer = NoAnswer
    Questions <- MCQuestions
    Similarity <- MCSimilarity
    Answers = {a1, a2}
    MaxCandidates = 2
    Readers = {r1}
    Invalidators = {i1}
    RedisFails = TRUE
SYMMETRY MCSymmetry
INVARIANTS TypeOK HitsAreCurrent
PROPERTIES ImplementsRecentAnswers
