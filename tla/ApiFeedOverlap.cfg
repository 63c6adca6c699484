SPECIFICATION ApiFairSpec
CONSTANT Ids = {t1, t2}
PROPERTY PreviousFeedFinished
